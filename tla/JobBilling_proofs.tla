-------------------------- MODULE JobBilling_proofs --------------------------
(***************************************************************************)
(* The properties of JobBilling for every set of tenants, jobs and         *)
(* processes and every bound, in four parts: the money, for every set of   *)
(* events; that completed and settled jobs are paid, without the requests  *)
(* in Rewriting; that a debit on a cancelled job leaves a trace, for the   *)
(* events in Lenient; that JobBilling implements BillingContract.          *)
(***************************************************************************)
EXTENDS JobBilling, TLAPS

(* A slot that takes a step keeps its type and leaves the others alone.    *)
LEMMA FrameUpdate ==
    ASSUME NEW p \in Procs, NEW f \in Frame, proc \in [Procs -> Frame],
           proc' = [proc EXCEPT ![p] = f]
    PROVE  /\ proc' \in [Procs -> Frame]
           /\ proc'[p] = f
           /\ \A q \in Procs : q # p => proc'[q] = proc[q]
  BY SMT

LEMMA RowUpdate ==
    ASSUME NEW j \in Jobs, NEW r \in Row, row \in [Jobs -> Row],
           row' = [row EXCEPT ![j] = r]
    PROVE  /\ row' \in [Jobs -> Row]
           /\ row'[j] = r
           /\ \A i \in Jobs : i # j => row'[i] = row[i]
  BY SMT

LEMMA IdleFrame == Idle \in Frame
  BY LedgerAssumption DEF Idle, Frame, Pcs, Ops, Statuses, Execs, Marks, Billing, Kinds

LEMMA GotoFrame ==
    ASSUME NEW f \in Frame, NEW pc \in Pcs
    PROVE  [f EXCEPT !.pc = pc] \in Frame
  BY DEF Frame

LEMMA ReturnedFrame ==
    ASSUME NEW f \in Frame, NEW bill \in Billing
    PROVE  /\ Returned(f, bill) \in Frame
           /\ \/ Returned(f, bill) = Idle
              \/ Returned(f, bill) = [f EXCEPT !.pc = "write", !.bill = bill]
              \/ f.op \in {"v1_complete", "ack_complete"} /\ bill = "ok"
                 /\ Returned(f, bill) = [f EXCEPT !.pc = "write"]
              \/ Returned(f, bill) = [f EXCEPT !.pc = "cleanup"]
  <1>1. CASE f.op \in {"execute", "sweep"}
    BY <1>1 DEF Returned, Frame, Pcs
  <1>2. CASE f.op = "complete" /\ bill = "ok"
    BY <1>2 DEF Returned, Frame, Pcs
  <1>3. CASE f.op \in {"v1_complete", "ack_complete"} /\ bill = "ok"
    BY <1>3 DEF Returned, Frame, Pcs
  <1>4. CASE /\ f.op \notin {"execute", "sweep"}
             /\ ~(f.op = "complete" /\ bill = "ok")
             /\ ~(f.op \in {"v1_complete", "ack_complete"} /\ bill = "ok")
    BY <1>4, IdleFrame DEF Returned
  <1> QED BY <1>1, <1>2, <1>3, <1>4

LEMMA ErrorRow ==
    ASSUME NEW r \in Row, NEW m \in Marks, NEW e \in Execs, NEW o \in Nat
    PROVE  /\ WithError(r, m, e, o) \in Row
           /\ WithError(r, m, e, o).mark = m /\ WithError(r, m, e, o).owed = o
  BY DEF Row, WithError

LEMMA KindRow ==
    ASSUME NEW r \in Row, NEW k \in Kinds
    PROVE  WithKind(r, k) \in Row /\ WithKind(r, k).mark = r.mark
           /\ WithKind(r, k).owed = r.owed
  BY DEF Row, WithKind

LEMMA BillRow ==
    ASSUME NEW r \in Row, NEW d \in Durations, NEW c \in Nat
    PROVE  WithBill(r, d, c) \in Row /\ WithBill(r, d, c).mark = r.mark
  BY DEF Row, WithBill

(* A task on its way to a refund, at its n-th attempt.                     *)
Attempt(f, n, pc) == [f EXCEPT !.tries = n, !.pc = pc]

LEMMA RowTypes ==
    ASSUME NEW r \in Row
    PROVE  /\ \A st \in Statuses : WithStatus(r, st) \in Row
           /\ \A m \in Marks, e \in Execs, o \in Nat : WithError(r, m, e, o) \in Row
  BY DEF Row, WithStatus, WithError

-----------------------------------------------------------------------------
(* The ledger part of the invariant, and what every ledger operation keeps: *)
(* a DEBIT row, once there, never changes.                                  *)
LedgerGood == LedgerTypeOK /\ NeverOverdrawn /\ \A i \in Jobs : RowsInv(i)
DebitsKept == \A i \in Jobs : debits[i] # <<>> => debits'[i] = debits[i]

LEMMA OneElement ==
    ASSUME NEW a \in Nat
    PROVE  /\ Append(<<>>, a) = <<a>> /\ Len(<<a>>) = 1 /\ <<a>> \in Seq(Nat)
           /\ <<a>> # <<>> /\ <<a>>[1] = a
  BY SMT

LEMMA UnchangedLedger ==
    ASSUME LedgerGood, UNCHANGED ledgerVars
    PROVE  LedgerGood' /\ DebitsKept
  BY DEF LedgerGood, LedgerTypeOK, NeverOverdrawn, RowsInv, ledgerVars, DebitsKept

LEMMA DebitRowGood ==
    ASSUME LedgerGood, NEW j \in Jobs, NEW a \in Nat, DebitRow(j, a)
    PROVE  LedgerGood' /\ DebitsKept /\ debits'[j] = <<a>>
  <1>1. TenantOf[j] \in Tenants
    BY LedgerAssumption
  <1>2. debits' \in [Jobs -> Seq(Nat)] /\ debits'[j] = <<a>>
        /\ \A i \in Jobs : i # j => debits'[i] = debits[i]
    BY OneElement DEF LedgerGood, LedgerTypeOK, DebitRow
  <1>3. balance' \in [Tenants -> Int] /\ \A t \in Tenants : balance'[t] >= 0
    BY <1>1 DEF LedgerGood, LedgerTypeOK, NeverOverdrawn, DebitRow
  <1>4. DebitsKept
    BY <1>2 DEF DebitsKept, DebitRow
  <1>5. ASSUME NEW i \in Jobs PROVE RowsInv(i)'
    <2>1. CASE i = j
      BY <2>1, <1>2, OneElement DEF LedgerGood, RowsInv, DebitRow
    <2>2. CASE i # j
      BY <2>2, <1>2 DEF LedgerGood, RowsInv, DebitRow
    <2> QED BY <2>1, <2>2
  <1> QED
    BY <1>2, <1>3, <1>4, <1>5 DEF LedgerGood, LedgerTypeOK, NeverOverdrawn, DebitRow

LEMMA RefundGood ==
    ASSUME LedgerGood, NEW j \in Jobs, NEW a \in Nat, debits[j] = <<a>>, Refund(j, a)
    PROVE  LedgerGood' /\ DebitsKept
  <1>1. CASE refunds[j] = <<>>
    <2>0. /\ refunds' = [refunds EXCEPT ![j] = Append(@, a)]
          /\ balance' = [balance EXCEPT ![TenantOf[j]] = @ + a]
      BY <1>1 DEF Refund
    <2>1. refunds' \in [Jobs -> Seq(Nat)] /\ refunds'[j] = <<a>>
          /\ \A i \in Jobs : i # j => refunds'[i] = refunds[i]
      BY <2>0, <1>1, OneElement DEF LedgerGood, LedgerTypeOK
    <2>2. balance' \in [Tenants -> Int] /\ \A t \in Tenants : balance'[t] >= 0
      <3>1. TenantOf[j] \in Tenants
        BY LedgerAssumption
      <3>2. balance \in [Tenants -> Int] /\ \A t \in Tenants : balance[t] >= 0
        BY DEF LedgerGood, LedgerTypeOK, NeverOverdrawn
      <3> QED BY <2>0, <3>1, <3>2
    <2>3. UNCHANGED <<credited, debits, usage>>
      BY <1>1 DEF Refund
    <2>4. ASSUME NEW i \in Jobs PROVE RowsInv(i)'
      BY <2>1, <2>3 DEF LedgerGood, RowsInv
    <2> QED
      BY <2>1, <2>2, <2>3, <2>4
      DEF LedgerGood, LedgerTypeOK, NeverOverdrawn, DebitsKept
  <1>2. CASE refunds[j] # <<>>
    BY <1>2, UnchangedLedger DEF Refund
  <1> QED BY <1>1, <1>2

LEMMA RecordUsageGood ==
    ASSUME LedgerGood, NEW j \in Jobs, NEW k \in Kinds, NEW a \in Nat,
           debits[j] = <<a>>, RecordUsage(j, k, a)
    PROVE  LedgerGood' /\ DebitsKept
  <1>1. CASE usage[j][k] = <<>>
    <2>1. /\ usage' \in [Jobs -> [Kinds -> Seq(Nat)]] /\ usage'[j][k] = <<a>>
          /\ \A i \in Jobs, l \in Kinds : <<i, l>> # <<j, k>> => usage'[i][l] = usage[i][l]
      <3>0. usage' = [usage EXCEPT ![j][k] = Append(@, a)]
            /\ usage \in [Jobs -> [Kinds -> Seq(Nat)]]
        BY <1>1 DEF RecordUsage, LedgerGood, LedgerTypeOK
      <3>1. usage' = [usage EXCEPT ![j] = [usage[j] EXCEPT ![k] = <<a>>]]
        BY <1>1, <3>0, OneElement
      <3>2. [usage[j] EXCEPT ![k] = <<a>>] \in [Kinds -> Seq(Nat)]
        BY <3>0, OneElement
      <3> DEFINE g == [usage[j] EXCEPT ![k] = <<a>>]
      <3>3. g[k] = <<a>> /\ \A l \in Kinds : l # k => g[l] = usage[j][l]
        BY <3>0
      <3> HIDE DEF g
      <3>4. usage' \in [Jobs -> [Kinds -> Seq(Nat)]] /\ usage'[j] = g
            /\ \A i \in Jobs : i # j => usage'[i] = usage[i]
        BY <3>0, <3>1, <3>2 DEF g
      <3> QED BY <3>3, <3>4
    <2>2. UNCHANGED <<credited, balance, debits, refunds>>
      BY DEF RecordUsage
    <2>3. ASSUME NEW i \in Jobs PROVE RowsInv(i)'
      BY <2>1, <2>2 DEF LedgerGood, RowsInv
    <2> QED
      BY <2>1, <2>2, <2>3 DEF LedgerGood, LedgerTypeOK, NeverOverdrawn, DebitsKept
  <1>2. CASE usage[j][k] # <<>>
    BY <1>2, UnchangedLedger DEF RecordUsage, ledgerVars
  <1> QED BY <1>1, <1>2

LEMMA TopUpGood ==
    ASSUME LedgerGood, NEW t \in Tenants, TopUp(t, 1)
    PROVE  LedgerGood' /\ DebitsKept
  BY DEF LedgerGood, LedgerTypeOK, NeverOverdrawn, RowsInv, TopUp, DebitsKept

(* debit_if_funds, answered or not: "debited" means the DEBIT row of the   *)
(* job is the one asked for.                                               *)
LEMMA DebitAnswer ==
    ASSUME LedgerGood, NEW j \in Jobs, NEW a \in Nat, NEW answer,
           DebitIfFunds(j, a, answer) \/ DebitUnavailable(j, a, answer)
    PROVE  /\ LedgerGood' /\ DebitsKept
           /\ answer = "debited" => debits'[j] = <<a>>
           /\ answer \in {"debited", "no_funds", "mismatch", "pg_error"}
  <1>1. CASE DebitRow(j, a) /\ answer \in {"debited", "pg_error"}
    BY <1>1, DebitRowGood
  <1>2. CASE UNCHANGED ledgerVars /\ (answer = "pg_error" \/ answer = IdemLookup(j, a))
    <2>1. LedgerGood' /\ DebitsKept
      BY <1>2, UnchangedLedger
    <2>2. ASSUME answer = "debited" PROVE debits'[j] = <<a>>
      <3>1. debits[j] # <<>> /\ debits[j][1] = a
        BY <1>2, <2>2 DEF IdemLookup
      <3>2. debits[j] \in Seq(Nat) /\ Len(debits[j]) <= 1
        BY DEF LedgerGood, LedgerTypeOK, RowsInv
      <3>3. debits[j] = <<a>>
        BY <3>1, <3>2
      <3> QED BY <3>3, <1>2 DEF ledgerVars
    <2>3. answer \in {"debited", "no_funds", "mismatch", "pg_error"}
      BY <1>2 DEF IdemLookup
    <2> QED BY <2>1, <2>2, <2>3
  <1> QED
    BY <1>1, <1>2 DEF DebitIfFunds, DebitUnavailable, NoDebitRow

-----------------------------------------------------------------------------
(* The rest of the invariant, and how a step of one slot or an update of   *)
(* one row keeps it.                                                       *)
ProcsGood ==
    proc \in [Procs -> Frame] /\ \A q \in Procs : FrameInv(proc[q], debits)
RowsGood == row \in [Jobs -> Row] /\ \A i \in Jobs : MarkInv(i)
CountersGood ==
    paused \subseteq Jobs /\ requests \in 0..MaxRequests /\ faults \in 0..MaxFaults

LEMMA MoneyInvParts ==
    /\ MoneyInv <=> LedgerGood /\ RowsGood /\ ProcsGood /\ CountersGood
    /\ MoneyInv' <=> LedgerGood' /\ RowsGood' /\ ProcsGood' /\ CountersGood'
  BY DEF MoneyInv, TypeOK, LedgerGood, RowsGood, ProcsGood, CountersGood

LEMMA FrameKept ==
    ASSUME NEW f \in Frame, FrameInv(f, debits), DebitsKept
    PROVE  FrameInv(f, debits')
  <1>1. ASSUME f.job \in Jobs, NEW a \in Nat, debits[f.job] = <<a>>
        PROVE  debits'[f.job] = <<a>>
    BY <1>1, OneElement DEF DebitsKept
  <1>2. CostOf[f.dur] \in Nat /\ f.owed \in Nat
    BY LedgerAssumption DEF Frame
  <1>3. Debited(f) => f.pc # "idle"
    BY DEF Debited
  <1> QED BY <1>1, <1>2, <1>3 DEF FrameInv

LEMMA StepOf ==
    ASSUME ProcsGood, DebitsKept, NEW p \in Procs, NEW f \in Frame,
           FrameInv(f, debits'), proc' = [proc EXCEPT ![p] = f]
    PROVE  ProcsGood'
  <1>1. proc' \in [Procs -> Frame] /\ proc'[p] = f
        /\ \A q \in Procs : q # p => proc'[q] = proc[q]
    BY FrameUpdate DEF ProcsGood
  <1>2. ASSUME NEW q \in Procs PROVE FrameInv(proc'[q], debits')
    <2>1. CASE q = p
      BY <2>1, <1>1
    <2>2. CASE q # p
      BY <2>2, <1>1, FrameKept DEF ProcsGood
    <2> QED BY <2>1, <2>2
  <1> QED BY <1>1, <1>2 DEF ProcsGood

LEMMA NoStep ==
    ASSUME ProcsGood, DebitsKept, UNCHANGED proc
    PROVE  ProcsGood'
  <1>1. ASSUME NEW q \in Procs PROVE FrameInv(proc'[q], debits')
    BY FrameKept DEF ProcsGood
  <1> QED BY <1>1 DEF ProcsGood

LEMMA MarkKept ==
    ASSUME RowsGood, DebitsKept, NEW i \in Jobs, row'[i] = row[i]
    PROVE  MarkInv(i)'
  <1>1. row[i].owed \in Nat
    BY DEF RowsGood, Row
  <1> QED BY <1>1, OneElement DEF RowsGood, MarkInv, DebitsKept

LEMMA RowWritten ==
    ASSUME RowsGood, DebitsKept, NEW j \in Jobs, NEW r \in Row,
           r.mark = "refund_pending" => debits'[j] = <<r.owed>>,
           row' = [row EXCEPT ![j] = r]
    PROVE  RowsGood'
  <1>1. row' \in [Jobs -> Row] /\ row'[j] = r
        /\ \A i \in Jobs : i # j => row'[i] = row[i]
    BY RowUpdate DEF RowsGood
  <1>2. ASSUME NEW i \in Jobs PROVE MarkInv(i)'
    <2>1. CASE i = j
      BY <2>1, <1>1 DEF MarkInv
    <2>2. CASE i # j
      BY <2>2, <1>1, MarkKept
    <2> QED BY <2>1, <2>2
  <1> QED BY <1>1, <1>2 DEF RowsGood

LEMMA NoRowWritten ==
    ASSUME RowsGood, DebitsKept, UNCHANGED row
    PROVE  RowsGood'
  BY MarkKept DEF RowsGood


(* A row is honest when its refund marker carries the amount of the DEBIT. *)
Honest(j, r) == r.mark = "refund_pending" => debits'[j] = <<r.owed>>

LEMMA ConditionalWrite ==
    ASSUME RowsGood, DebitsKept, NEW j \in Jobs, NEW r \in Row, Honest(j, r),
           NEW blocked, UpdateIfNotIn(j, blocked, r)
    PROVE  RowsGood'
  <1>1. CASE row[j].status \in blocked
    <2>1. row' = row
      BY <1>1 DEF UpdateIfNotIn, RowsGood
    <2> QED BY <2>1, NoRowWritten
  <1>2. CASE row[j].status \notin blocked
    <2>1. row' = [row EXCEPT ![j] = r]
      BY <1>2 DEF UpdateIfNotIn
    <2> QED BY <2>1, RowWritten DEF Honest
  <1> QED BY <1>1, <1>2

LEMMA PlainWrite ==
    ASSUME RowsGood, DebitsKept, NEW j \in Jobs, NEW r \in Row, Honest(j, r), Update(j, r)
    PROVE  RowsGood'
  BY RowWritten DEF Honest, Update

LEMMA HonestRows ==
    ASSUME RowsGood, DebitsKept, NEW j \in Jobs
    PROVE  /\ row[j] \in Row
           /\ \A st \in Statuses :
                /\ WithStatus(row[j], st) \in Row
                /\ Honest(j, WithStatus(row[j], st))
           /\ \A m \in Marks \ {"refund_pending"}, e \in Execs, o \in Nat :
                /\ WithError(row[j], m, e, o) \in Row
                /\ Honest(j, WithError(row[j], m, e, o))
           /\ \A st \in Statuses, m \in Marks \ {"refund_pending"}, e \in Execs, o \in Nat :
                /\ WithError(WithStatus(row[j], st), m, e, o) \in Row
                /\ Honest(j, WithError(WithStatus(row[j], st), m, e, o))
  <1>1. row[j] \in Row
    BY DEF RowsGood
  <1>2. Honest(j, row[j])
    BY <1>1, OneElement DEF RowsGood, MarkInv, Honest, DebitsKept, Row
  <1>3. ASSUME NEW st \in Statuses
        PROVE  WithStatus(row[j], st) \in Row /\ Honest(j, WithStatus(row[j], st))
    <2>1. WithStatus(row[j], st) \in Row
      BY <1>1, RowTypes
    <2>2. WithStatus(row[j], st).mark = row[j].mark
          /\ WithStatus(row[j], st).owed = row[j].owed
      BY <1>1 DEF WithStatus, Row
    <2> QED BY <1>2, <2>1, <2>2 DEF Honest
  <1>4. ASSUME NEW r \in Row, NEW m \in Marks \ {"refund_pending"}, NEW e \in Execs,
               NEW o \in Nat
        PROVE  WithError(r, m, e, o) \in Row /\ Honest(j, WithError(r, m, e, o))
    <2>1. WithError(r, m, e, o).mark = m
      BY DEF WithError, Row
    <2> QED BY <2>1, RowTypes DEF Honest
  <1> QED BY <1>1, <1>3, <1>4

-----------------------------------------------------------------------------
(* One lemma per group of actions.                                         *)
LEMMA RowActions ==
    ASSUME MoneyInv, NEW j \in Jobs, NEW kind \in Kinds,
           SubmitTask(j, kind) \/ CancelJob(j) \/ SweepOrphan(j) \/ PauseEnds(j)
    PROVE  MoneyInv'
  <1> USE MoneyInvParts
  <1>1. LedgerGood' /\ DebitsKept
    BY UnchangedLedger DEF SubmitTask, CancelJob, SweepOrphan, PauseEnds
  <1>2. ProcsGood'
    BY <1>1, NoStep DEF SubmitTask, CancelJob, SweepOrphan, PauseEnds
  <1>3. CountersGood'
    BY DEF SubmitTask, CancelJob, SweepOrphan, PauseEnds, CountersGood
  <1>4. CASE SubmitTask(j, kind)
    <2> DEFINE r == WithKind(WithStatus(row[j], "queued"), kind)
    <2>1. r \in Row /\ r.mark = row[j].mark /\ r.owed = row[j].owed
      BY DEF RowsGood, Row, Statuses, WithKind, WithStatus
    <2>2. row[j].mark = "refund_pending" => debits'[j] = <<row[j].owed>>
      BY <1>4, <1>1 DEF RowsGood, MarkInv, SubmitTask, ledgerVars
    <2> QED BY <1>1, <1>2, <1>3, <1>4, <2>1, <2>2, RowWritten DEF SubmitTask, Update
  <1>5. CASE CancelJob(j)
    <2>1. "cancelled" \in Statuses
      BY DEF Statuses, Blocked, Terminal
    <2> QED BY <1>1, <1>2, <1>3, <1>5, <2>1, HonestRows, ConditionalWrite DEF CancelJob
  <1>6. CASE SweepOrphan(j)
    <2>1. "timeout" \in Statuses /\ "text" \in Marks \ {"refund_pending"} /\ "none" \in Execs
      BY DEF Statuses, Blocked, Terminal, Marks, Execs
    <2>2. RowsGood'
      <3> DEFINE r == WithError(WithStatus(row[j], "timeout"), "text", "none", 0)
      <3>1. r \in Row /\ Honest(j, r)
        BY <1>1, <2>1, HonestRows
      <3>2. Update(j, r)
        BY <1>6 DEF SweepOrphan
      <3> HIDE DEF r
      <3> QED BY <1>1, <3>1, <3>2, PlainWrite
    <2> QED BY <1>1, <1>2, <1>3, <2>2
  <1>7. CASE PauseEnds(j)
    BY <1>1, <1>2, <1>3, <1>7, NoRowWritten DEF PauseEnds
  <1> QED BY <1>4, <1>5, <1>6, <1>7

-----------------------------------------------------------------------------
(* Slots that owe nothing: idle, or at a step with no claim on the ledger. *)
Quiet == {"dispatch", "poll", "asked", "read", "debit", "cleanup", "clear"}

LEMMA QuietFrame ==
    /\ FrameInv(Idle, debits')
    /\ \A f \in Frame : f.job \in Jobs /\ f.pc \in Quiet => FrameInv(f, debits')
  BY DEF FrameInv, Debited, Idle, Quiet

LEMMA FinishGood ==
    ASSUME ProcsGood, DebitsKept, NEW p \in Procs, Finish(p)
    PROVE  ProcsGood'
  BY StepOf, IdleFrame, QuietFrame DEF Finish

LEMMA QuietStep ==
    ASSUME ProcsGood, DebitsKept, NEW p \in Procs, NEW f \in Frame,
           f.job \in Jobs, f.pc \in Quiet, proc' = [proc EXCEPT ![p] = f]
    PROVE  ProcsGood'
  BY StepOf, QuietFrame

LEMMA BusySlot ==
    ASSUME ProcsGood, NEW p \in Procs, proc[p].pc # "idle"
    PROVE  proc[p] \in Frame /\ proc[p].job \in Jobs /\ CostOf[proc[p].dur] \in Nat
  BY LedgerAssumption DEF ProcsGood, FrameInv, Frame

LEMMA GotoQuiet ==
    ASSUME ProcsGood, DebitsKept, NEW p \in Procs, proc[p].pc # "idle",
           NEW pc \in Quiet, Goto(p, pc)
    PROVE  ProcsGood'
  <1> DEFINE f == [proc[p] EXCEPT !.pc = pc]
  <1>1. pc \in Pcs
    BY DEF Quiet, Pcs
  <1>2. f \in Frame
    BY <1>1, BusySlot, GotoFrame
  <1>3. f.job \in Jobs /\ f.pc \in Quiet
    BY BusySlot DEF Frame
  <1>4. proc' = [proc EXCEPT ![p] = f]
    BY DEF Goto
  <1> HIDE DEF f
  <1> QED BY <1>2, <1>3, <1>4, QuietStep

LEMMA TaskEarly ==
    ASSUME MoneyInv, NEW p \in Procs,
           \/ \E j \in Jobs : ClaimQueued(p, j)
           \/ \E k \in Kinds : DispatchFails(p, k) \/ DispatchReady(p, k)
           \/ \E st \in Raw \cup {"timeout"}, d \in Durations : PollEnds(p, st, d)
    PROVE  MoneyInv'
  <1> USE MoneyInvParts
  <1>1. LedgerGood' /\ DebitsKept
    BY UnchangedLedger DEF ClaimQueued, DispatchFails, DispatchReady, PollEnds
  <1>2. CountersGood'
    BY DEF ClaimQueued, DispatchFails, DispatchReady, PollEnds, CountersGood
  <1>3. "running" \in Statuses /\ "failed" \in Statuses /\ "none" \in Execs
        /\ "text" \in Marks \ {"refund_pending"}
    BY DEF Statuses, Blocked, Terminal, Marks, Execs
  <1>4. ASSUME NEW j \in Jobs, ClaimQueued(p, j) PROVE MoneyInv'
    <2> DEFINE f == [Idle EXCEPT !.pc = "dispatch", !.op = "execute", !.job = j]
    <2>1. f \in Frame /\ f.job \in Jobs /\ f.pc \in Quiet
      BY IdleFrame DEF Frame, Pcs, Ops, Quiet
    <2>2. proc' = [proc EXCEPT ![p] = f]
      BY <1>4 DEF ClaimQueued
    <2>3. RowsGood'
      BY <1>1, <1>3, <1>4, HonestRows, PlainWrite DEF ClaimQueued
    <2> HIDE DEF f
    <2>4. ProcsGood'
      BY <1>1, <2>1, <2>2, QuietStep
    <2> QED BY <1>1, <1>2, <2>3, <2>4
  <1>5. ASSUME NEW k \in Kinds, DispatchFails(p, k) PROVE MoneyInv'
    <2> DEFINE j == proc[p].job
               r == WithError(WithStatus(row[j], "failed"), "text", "none", 0)
    <2>1. j \in Jobs
      BY <1>5, BusySlot DEF DispatchFails, At
    <2>2. r \in Row /\ Honest(j, r)
      BY <1>1, <1>3, <2>1, HonestRows
    <2>3. Update(j, WithKind(r, k)) /\ Finish(p)
      BY <1>5 DEF DispatchFails
    <2> HIDE DEF j, r
    <2>4. WithKind(r, k) \in Row /\ Honest(j, WithKind(r, k))
      BY <2>2, KindRow DEF Honest
    <2> QED BY <1>1, <1>2, <2>1, <2>3, <2>4, PlainWrite, FinishGood
  <1>6. ASSUME NEW k \in Kinds, DispatchReady(p, k) PROVE MoneyInv'
    <2> DEFINE j == proc[p].job
               r == WithStatus(row[j], "running")
               f == [proc[p] EXCEPT !.pc = "poll", !.kind = k]
    <2>1. proc[p] \in Frame /\ j \in Jobs
      BY <1>6, BusySlot DEF DispatchReady, At
    <2>2. Update(j, WithKind(r, k)) /\ proc' = [proc EXCEPT ![p] = f]
      BY <1>6 DEF DispatchReady
    <2>3. r \in Row /\ Honest(j, r)
      BY <1>1, <1>3, <2>1, HonestRows
    <2>4. f \in Frame /\ f.job = j /\ f.pc \in Quiet
      BY <2>1 DEF Frame, Pcs, Quiet
    <2> HIDE DEF j, r, f
    <2>5. WithKind(r, k) \in Row /\ Honest(j, WithKind(r, k))
      BY <2>3, KindRow DEF Honest
    <2>6. RowsGood'
      BY <1>1, <2>1, <2>2, <2>5, PlainWrite
    <2>7. ProcsGood'
      BY <1>1, <2>1, <2>2, <2>4, QuietStep
    <2> QED BY <1>1, <1>2, <2>6, <2>7
  <1>7. ASSUME NEW st \in Raw \cup {"timeout"}, NEW d \in Durations, PollEnds(p, st, d)
        PROVE  MoneyInv'
    <2> DEFINE f == [proc[p] EXCEPT !.pc = "read", !.st = st, !.dur = d]
    <2>1. proc[p] \in Frame /\ proc[p].job \in Jobs
      BY <1>7, BusySlot DEF PollEnds, At
    <2>2. f \in Frame /\ f.job \in Jobs /\ f.pc \in Quiet
      BY <2>1 DEF Frame, Pcs, Quiet, Raw, Statuses, Blocked, Terminal
    <2>3. proc' = [proc EXCEPT ![p] = f]
      BY <1>7 DEF PollEnds
    <2> HIDE DEF f
    <2>4. ProcsGood'
      BY <1>1, <2>2, <2>3, QuietStep
    <2>5. RowsGood'
      BY <1>1, <1>7, NoRowWritten DEF PollEnds
    <2> QED BY <1>1, <1>2, <2>4, <2>5
  <1> QED BY <1>4, <1>5, <1>6, <1>7

-----------------------------------------------------------------------------
(* finalize_job_billing: an answer other than "ok" leaves no claim, and    *)
(* "ok" is only returned once the DEBIT row is the one asked for.          *)
LEMMA ReturnGood ==
    ASSUME ProcsGood, DebitsKept, NEW p \in Procs, proc[p].pc # "idle",
           NEW bill \in Billing, Return(p, bill),
           bill = "ok" => debits'[proc[p].job] = <<CostOf[proc[p].dur]>>
    PROVE  ProcsGood'
  <1> DEFINE f == proc[p]
             g == Returned(f, bill)
  <1>1. f \in Frame /\ f.job \in Jobs
    BY BusySlot
  <1>2. g \in Frame
    BY <1>1, ReturnedFrame
  <1>3. FrameInv(g, debits')
    <2>1. CASE g = Idle
      BY <2>1, QuietFrame
    <2>2. CASE g = [f EXCEPT !.pc = "write", !.bill = bill]
      <3>1. g.pc = "write" /\ g.bill = bill /\ g.job = f.job /\ g.dur = f.dur
        BY <1>1, <2>2 DEF Frame
      <3> HIDE DEF g
      <3> QED BY <1>1, <3>1 DEF FrameInv, Debited
    <2>3. CASE bill = "ok" /\ g = [f EXCEPT !.pc = "write"]
      <3>1. g.pc = "write" /\ g.job = f.job /\ g.dur = f.dur
        BY <1>1, <2>3 DEF Frame
      <3> HIDE DEF g
      <3> QED BY <1>1, <2>3, <3>1 DEF FrameInv, Debited
    <2>4. CASE g = [f EXCEPT !.pc = "cleanup"]
      <3>1. g.pc \in Quiet /\ g.job \in Jobs
        BY <1>1, <2>4 DEF Frame, Quiet
      <3> HIDE DEF g
      <3> QED BY <1>2, <3>1, QuietFrame
    <2> QED BY <1>1, <2>1, <2>2, <2>3, <2>4, ReturnedFrame
  <1>4. proc' = [proc EXCEPT ![p] = g]
    BY DEF Return
  <1> HIDE DEF g
  <1> QED BY <1>2, <1>3, <1>4, StepOf

LEMMA AfterDebitGood ==
    ASSUME ProcsGood, DebitsKept, NEW p \in Procs, proc[p].pc # "idle",
           NEW answer \in {"debited", "no_funds", "mismatch", "pg_error"},
           AfterDebit(p, answer),
           answer = "debited" => debits'[proc[p].job] = <<CostOf[proc[p].dur]>>
    PROVE  ProcsGood'
  <1>1. CASE answer = "debited"
    <2> DEFINE f == [proc[p] EXCEPT !.pc = "meter"]
    <2>1. proc[p] \in Frame /\ proc[p].job \in Jobs
      BY BusySlot
    <2>2. f \in Frame
      BY <2>1 DEF Frame, Pcs
    <2>3. f.pc = "meter" /\ f.job = proc[p].job /\ f.dur = proc[p].dur
      BY <2>1 DEF Frame
    <2>4. proc' = [proc EXCEPT ![p] = f]
      BY <1>1 DEF AfterDebit, Goto
    <2> HIDE DEF f
    <2>5. FrameInv(f, debits')
      BY <1>1, <2>1, <2>3 DEF FrameInv, Debited
    <2> QED BY <2>2, <2>4, <2>5, StepOf
  <1>2. CASE answer # "debited"
    <2>1. answer \in Billing /\ answer # "ok" /\ Return(p, answer)
      BY <1>2 DEF Billing, AfterDebit
    <2> QED BY <2>1, ReturnGood
  <1> QED BY <1>1, <1>2

LEMMA FaultCount ==
    ASSUME CountersGood, NEW kind, Fault(kind), UNCHANGED <<paused, requests>>
    PROVE  CountersGood'
  BY JobAssumption DEF CountersGood, Fault

LEMMA FinalizeGood ==
    ASSUME MoneyInv, NEW p \in Procs,
           \/ FinalizeRead(p) \/ FinalizeDebit(p) \/ FinalizeMeter(p)
           \/ FinalizeReadUnavailable(p) \/ FinalizeDebitUnavailable(p)
           \/ FinalizeMeterUnavailable(p)
    PROVE  MoneyInv'
  <1> USE MoneyInvParts
  <1>0. /\ proc[p].pc # "idle" /\ UNCHANGED row
        /\ proc[p].job \in Jobs /\ Cost(p) \in Nat /\ Cost(p) = CostOf[proc[p].dur]
    BY BusySlot DEF FinalizeRead, FinalizeDebit, FinalizeMeter, FinalizeReadUnavailable,
                    FinalizeDebitUnavailable, FinalizeMeterUnavailable, Cost
  <1>1. CountersGood'
    <2>1. CASE FinalizeRead(p) \/ FinalizeDebit(p) \/ FinalizeMeter(p)
      BY <2>1 DEF FinalizeRead, FinalizeDebit, FinalizeMeter, CountersGood
    <2>2. CASE \/ FinalizeReadUnavailable(p) \/ FinalizeDebitUnavailable(p)
               \/ FinalizeMeterUnavailable(p)
      BY <2>2, FaultCount DEF FinalizeReadUnavailable, FinalizeDebitUnavailable,
                              FinalizeMeterUnavailable
    <2> QED BY <2>1, <2>2
  <1>2. "skip" \in Billing /\ "pg_error" \in Billing /\ "ok" \in Billing
    BY DEF Billing
  <1>3. CASE FinalizeRead(p) \/ FinalizeReadUnavailable(p)
    <2>1. LedgerGood' /\ DebitsKept
      BY <1>3, UnchangedLedger DEF FinalizeRead, FinalizeReadUnavailable
    <2>2. Return(p, "skip") \/ Return(p, "pg_error") \/ Goto(p, "debit")
      BY <1>3 DEF FinalizeRead, FinalizeReadUnavailable
    <2>3. ProcsGood'
      BY <1>0, <1>2, <2>1, <2>2, ReturnGood, GotoQuiet DEF Quiet
    <2> QED BY <1>0, <1>1, <2>1, <2>3, NoRowWritten
  <1>4. CASE FinalizeDebit(p) \/ FinalizeDebitUnavailable(p)
    <2>1. PICK answer \in {"debited", "no_funds", "mismatch", "pg_error"} :
             /\ \/ DebitIfFunds(proc[p].job, Cost(p), answer)
                \/ DebitUnavailable(proc[p].job, Cost(p), answer)
             /\ AfterDebit(p, answer)
      BY <1>4 DEF FinalizeDebit, FinalizeDebitUnavailable
    <2>2. /\ LedgerGood' /\ DebitsKept
          /\ answer = "debited" => debits'[proc[p].job] = <<Cost(p)>>
      BY <1>0, <2>1, DebitAnswer
    <2>3. ProcsGood'
      BY <1>0, <2>1, <2>2, AfterDebitGood
    <2> QED BY <1>0, <1>1, <2>2, <2>3, NoRowWritten
  <1>5. CASE FinalizeMeter(p) \/ FinalizeMeterUnavailable(p)
    <2>1. debits[proc[p].job] = <<Cost(p)>>
      BY <1>0, <1>5 DEF ProcsGood, FrameInv, Debited, FinalizeMeter, FinalizeMeterUnavailable
    <2>2. LedgerGood' /\ DebitsKept
      <3>1. proc[p].kind \in Kinds
        BY <1>0, BusySlot DEF Frame
      <3> QED
        BY <1>0, <1>5, <2>1, <3>1, RecordUsageGood, UnchangedLedger
        DEF FinalizeMeter, FinalizeMeterUnavailable
    <2>3. debits'[proc[p].job] = <<Cost(p)>>
      BY <1>0, <2>1, <2>2, OneElement DEF DebitsKept
    <2>4. Return(p, "ok") \/ Return(p, "pg_error")
      BY <1>5 DEF FinalizeMeter, FinalizeMeterUnavailable
    <2>5. ProcsGood'
      BY <1>0, <1>2, <2>2, <2>3, <2>4, ReturnGood
    <2> QED BY <1>0, <1>1, <2>2, <2>5, NoRowWritten
  <1> QED BY <1>3, <1>4, <1>5

-----------------------------------------------------------------------------
(* What a task does after billing.                                         *)
LEMMA FinalRowGood ==
    ASSUME MoneyInv, DebitsKept, NEW p \in Procs, At(p, "write", "execute")
    PROVE  FinalRow(p) \in Row /\ Honest(proc[p].job, FinalRow(p))
  <1> DEFINE f == proc[p]
             st == WriteStatus(f.st, f.bill)
             r == WithStatus(row[f.job], st)
             w == WriteError(r, f.st, f.bill)
  <1>1. f \in Frame /\ f.job \in Jobs /\ Cost(p) \in Nat
    BY MoneyInvParts, BusySlot DEF At, Cost
  <1>2. st \in Statuses
    <2>1. f.st \in Statuses
      BY <1>1 DEF Frame
    <2>2. st \in {f.st, "error", "billing_pending"}
      BY DEF WriteStatus
    <2> QED BY <2>1, <2>2 DEF Statuses, Blocked
  <1>3. ExecOf(f.st) \in Execs
    BY DEF ExecOf, Execs
  <1>4. \E m \in Marks \ {"refund_pending"}, e \in Execs : w = WithError(r, m, e, 0)
    BY <1>3 DEF WriteError, Marks, Execs
  <1>5. row[f.job] \in Row
    BY <1>1, MoneyInvParts DEF RowsGood
  <1> HIDE DEF st
  <1>6. w \in Row /\ w.mark # "refund_pending"
    <2>1. r \in Row
      BY <1>2, <1>5, RowTypes
    <2> HIDE DEF r, w
    <2> QED BY <1>4, <2>1, ErrorRow
  <1> DEFINE c == IF f.bill = "ok" THEN Cost(p) ELSE 0
  <1>7. FinalRow(p) = WithBill(w, f.dur, c)
    BY DEF FinalRow, st
  <1> HIDE DEF w
  <1>8. FinalRow(p) \in Row /\ FinalRow(p).mark = w.mark
    <2>1. c \in Nat /\ f.dur \in Durations
      BY <1>1 DEF Frame
    <2> HIDE DEF c
    <2> QED BY <1>6, <1>7, <2>1, BillRow
  <1> QED BY <1>6, <1>8 DEF Honest

LEMMA OwedFrame ==
    ASSUME ProcsGood, DebitsKept, NEW p \in Procs, NEW f \in Frame, f.job = proc[p].job,
           f.dur = proc[p].dur, f.op = "execute", f.pc = "refund" => f.tries <= 2,
           proc[p].pc # "idle", proc' = [proc EXCEPT ![p] = f],
           debits[proc[p].job] = <<CostOf[proc[p].dur]>>
    PROVE  ProcsGood'
  <1>1. proc[p].job \in Jobs /\ CostOf[proc[p].dur] \in Nat
    BY BusySlot
  <1>2. debits'[f.job] = <<CostOf[f.dur]>>
    BY <1>1, OneElement DEF DebitsKept
  <1>3. FrameInv(f, debits')
    BY <1>1, <1>2 DEF FrameInv
  <1> QED BY <1>3, StepOf

LEMMA TaskLate ==
    ASSUME MoneyInv, NEW p \in Procs,
           \/ TaskWrite(p) \/ TaskCheck(p) \/ TaskRefund(p) \/ TaskRefundUnavailable(p)
           \/ TaskMark(p) \/ TaskCleanup(p)
    PROVE  MoneyInv'
  <1> USE MoneyInvParts
  <1>0. /\ proc[p].pc # "idle" /\ proc[p].op = "execute"
        /\ proc[p] \in Frame /\ proc[p].job \in Jobs
        /\ Cost(p) \in Nat /\ Cost(p) = CostOf[proc[p].dur]
    BY BusySlot DEF TaskWrite, TaskCheck, TaskRefund, TaskRefundUnavailable, TaskMark,
                    TaskCleanup, At, Cost
  <1>1. ASSUME proc[p].pc \in {"check", "refund", "mark"}
        PROVE  debits[proc[p].job] = <<CostOf[proc[p].dur]>>
    BY <1>0, <1>1 DEF ProcsGood, FrameInv, Debited
  <1>2. CASE TaskWrite(p)
    <2>1. LedgerGood' /\ DebitsKept /\ CountersGood'
      BY <1>2, UnchangedLedger DEF TaskWrite, CountersGood
    <2>2. RowsGood'
      BY <1>0, <1>2, <2>1, FinalRowGood, ConditionalWrite DEF TaskWrite
    <2>3. CASE proc[p].bill = "ok" /\ Goto(p, "check")
      <3> DEFINE f == [proc[p] EXCEPT !.pc = "check"]
      <3>1. f \in Frame /\ f.job = proc[p].job /\ f.dur = proc[p].dur
            /\ f.op = "execute" /\ f.pc = "check"
        BY <1>0 DEF Frame, Pcs
      <3>2. proc' = [proc EXCEPT ![p] = f]
        BY <2>3 DEF Goto
      <3>3. debits[proc[p].job] = <<CostOf[proc[p].dur]>>
        BY <1>0, <1>2, <2>3 DEF TaskWrite, At, ProcsGood, FrameInv, Debited
      <3> HIDE DEF f
      <3> QED BY <1>0, <2>1, <2>2, <3>1, <3>2, <3>3, OwedFrame
    <2>4. CASE Goto(p, "cleanup")
      BY <1>0, <2>1, <2>2, <2>4, GotoQuiet DEF Quiet
    <2>5. \/ proc[p].bill = "ok" /\ Goto(p, "check")
          \/ Goto(p, "cleanup")
      BY <1>2 DEF TaskWrite
    <2> QED BY <2>3, <2>4, <2>5
  <1>3. CASE TaskCheck(p)
    <2>1. LedgerGood' /\ DebitsKept /\ CountersGood' /\ RowsGood'
      BY <1>3, UnchangedLedger, NoRowWritten DEF TaskCheck, CountersGood
    <2> DEFINE pc == IF row[proc[p].job].status = "cancelled" THEN "refund" ELSE "cleanup"
               f == Attempt(proc[p], 0, pc)
    <2>2. f \in Frame /\ f.job = proc[p].job /\ f.dur = proc[p].dur
          /\ f.op = "execute" /\ f.tries = 0
      <3>1. pc \in Pcs /\ 0 \in 0..3
        BY DEF Pcs
      <3> HIDE DEF pc
      <3>2. proc[p] \in Frame /\ proc[p].op = "execute"
        BY <1>0
      <3> QED BY ONLY <3>1, <3>2 DEF Attempt, Frame
    <2>3. proc' = [proc EXCEPT ![p] = f]
      BY <1>3 DEF TaskCheck, Attempt
    <2>4. debits[proc[p].job] = <<CostOf[proc[p].dur]>>
      BY <1>1, <1>3 DEF TaskCheck, At
    <2> HIDE DEF f
    <2>5. f.pc = "refund" => f.tries <= 2
      BY <2>2
    <2>6. ProcsGood'
      BY <1>0, <2>1, <2>2, <2>3, <2>4, <2>5, OwedFrame
    <2> QED BY <2>1, <2>6
  <1>4. CASE TaskRefund(p)
    <2>1. debits[proc[p].job] = <<Cost(p)>>
      BY <1>0, <1>1, <1>4 DEF TaskRefund, At
    <2>2. LedgerGood' /\ DebitsKept
      BY <1>0, <1>4, <2>1, RefundGood DEF TaskRefund
    <2>3. CountersGood' /\ RowsGood'
      BY <1>4, <2>2, NoRowWritten DEF TaskRefund, CountersGood
    <2>4. ProcsGood'
      BY <1>0, <1>4, <2>2, GotoQuiet DEF TaskRefund, Quiet
    <2> QED BY <2>2, <2>3, <2>4
  <1>5. CASE TaskRefundUnavailable(p)
    <2>1. debits[proc[p].job] = <<Cost(p)>>
      BY <1>0, <1>1, <1>5 DEF TaskRefundUnavailable, At
    <2>2. LedgerGood' /\ DebitsKept
      BY <1>0, <1>5, <2>1, RefundGood, UnchangedLedger DEF TaskRefundUnavailable
    <2>3. CountersGood' /\ RowsGood'
      BY <1>5, <2>2, NoRowWritten, FaultCount DEF TaskRefundUnavailable
    <2> DEFINE pc == IF proc[p].tries = 2 THEN "mark" ELSE "refund"
               n == proc[p].tries + 1
               f == Attempt(proc[p], n, pc)
    <2>4. proc[p].tries \in 0..2
      BY <1>0, <1>5 DEF TaskRefundUnavailable, At, ProcsGood, FrameInv, Frame
    <2>5. f \in Frame /\ f.job = proc[p].job /\ f.dur = proc[p].dur
          /\ f.op = "execute" /\ (f.pc = "refund" => f.tries <= 2)
      <3>1. n \in 0..3 /\ pc \in Pcs /\ (pc = "refund" => n <= 2)
        BY <2>4 DEF Pcs
      <3> HIDE DEF n, pc
      <3>2. proc[p] \in Frame /\ proc[p].op = "execute"
        BY <1>0
      <3> QED BY ONLY <3>1, <3>2 DEF Attempt, Frame
    <2>6. proc' = [proc EXCEPT ![p] = f]
      BY <1>5 DEF TaskRefundUnavailable, Attempt
    <2> HIDE DEF f, n, pc
    <2>7. ProcsGood'
      BY <1>0, <2>1, <2>2, <2>5, <2>6, OwedFrame
    <2> QED BY <2>2, <2>3, <2>7
  <1>6. CASE TaskMark(p)
    <2> DEFINE j == proc[p].job
               r == WithError(row[j], "refund_pending", "none", Cost(p))
    <2>1. LedgerGood' /\ DebitsKept /\ CountersGood'
      BY <1>6, UnchangedLedger DEF TaskMark, CountersGood
    <2>2. debits'[j] = <<Cost(p)>>
      BY <1>0, <1>1, <1>6 DEF TaskMark, At, ledgerVars
    <2>3. row[j] \in Row
      BY <1>0 DEF RowsGood
    <2>4. r \in Row /\ r.owed = Cost(p)
      <3>1. "refund_pending" \in Marks /\ "none" \in Execs
        BY DEF Marks, Execs
      <3> QED BY <1>0, <2>3, <3>1, ErrorRow
    <2>5. Update(j, r) /\ Goto(p, "cleanup")
      BY <1>6 DEF TaskMark
    <2> HIDE DEF r
    <2>6. RowsGood'
      BY <1>0, <2>1, <2>2, <2>4, <2>5, PlainWrite DEF Honest
    <2>7. ProcsGood'
      BY <1>0, <2>1, <2>5, GotoQuiet DEF Quiet
    <2> QED BY <2>1, <2>6, <2>7
  <1>7. CASE TaskCleanup(p)
    BY <1>7, UnchangedLedger, NoRowWritten, FinishGood DEF TaskCleanup, CountersGood
  <1> QED BY <1>2, <1>3, <1>4, <1>5, <1>6, <1>7

-----------------------------------------------------------------------------
LEMMA Interrupted ==
    ASSUME MoneyInv, NEW p \in Procs, DrainInflight(p) \/ Crash(p)
    PROVE  MoneyInv'
  <1> USE MoneyInvParts
  <1>1. LedgerGood' /\ DebitsKept
    BY UnchangedLedger DEF DrainInflight, Crash
  <1>2. ProcsGood'
    BY <1>1, FinishGood DEF DrainInflight, Crash
  <1>3. CASE DrainInflight(p)
    <2> DEFINE j == proc[p].job
               r == WithError(WithStatus(row[j], "cancelled"), "text", "none", 0)
    <2>1. j \in Jobs
      BY <1>3, BusySlot DEF DrainInflight, Awaiting
    <2>2. "cancelled" \in Statuses /\ "none" \in Execs /\ "text" \in Marks \ {"refund_pending"}
      BY DEF Statuses, Blocked, Terminal, Marks, Execs
    <2>3. r \in Row /\ Honest(j, r)
      BY <1>1, <2>1, <2>2, HonestRows
    <2>4. UpdateIfNotIn(j, Blocked, r) /\ CountersGood'
      BY <1>3 DEF DrainInflight, CountersGood
    <2> HIDE DEF j, r
    <2> QED BY <1>1, <1>2, <2>1, <2>3, <2>4, ConditionalWrite
  <1>4. CASE Crash(p)
    BY <1>1, <1>2, <1>4, FaultCount, NoRowWritten DEF Crash
  <1> QED BY <1>3, <1>4

LEMMA Picked ==
    ASSUME MoneyInv, NEW p \in Procs, NEW j \in Jobs,
           \/ SweepPick(p, j) \/ RefundSweepPick(p, j)
           \/ \E op \in Requests : Ask(p, op, j)
    PROVE  MoneyInv'
  <1> USE MoneyInvParts
  <1>1. LedgerGood' /\ DebitsKept
    BY UnchangedLedger DEF SweepPick, RefundSweepPick, Ask
  <1>2. RowsGood'
    BY <1>1, NoRowWritten DEF SweepPick, RefundSweepPick, Ask
  <1>3. row[j] \in Row /\ Idle \in Frame
    BY IdleFrame DEF RowsGood
  <1>4. CASE SweepPick(p, j)
    <2> DEFINE f == [Idle EXCEPT !.pc = "read", !.op = "sweep", !.job = j,
                       !.exec = row[j].exec, !.mark = row[j].mark, !.dur = row[j].dur,
                       !.kind = row[j].kind]
    <2>1. f \in Frame /\ f.job \in Jobs /\ f.pc \in Quiet
      BY <1>3 DEF Frame, Row, Pcs, Ops, Quiet
    <2>2. proc' = [proc EXCEPT ![p] = f]
      BY <1>4 DEF SweepPick
    <2> HIDE DEF f
    <2>3. ProcsGood'
      BY <1>1, <2>1, <2>2, QuietStep
    <2> QED BY <1>1, <1>2, <1>4, <2>3 DEF SweepPick, CountersGood
  <1>5. CASE RefundSweepPick(p, j)
    <2> DEFINE f == [Idle EXCEPT !.pc = "refund", !.op = "refund_sweep",
                                 !.job = j, !.owed = row[j].owed]
    <2>1. f \in Frame
      BY <1>3 DEF Frame, Row, Pcs, Ops
    <2>2. f.pc = "refund" /\ f.op = "refund_sweep" /\ f.job = j /\ f.owed = row[j].owed
          /\ f.tries = 0
      BY <1>3 DEF Frame, Idle
    <2>3. debits'[j] = <<row[j].owed>>
      BY <1>5 DEF RefundSweepPick, RowsGood, MarkInv, ledgerVars
    <2>4. proc' = [proc EXCEPT ![p] = f]
      BY <1>5 DEF RefundSweepPick
    <2> HIDE DEF f
    <2>5. FrameInv(f, debits')
      BY <2>2, <2>3 DEF FrameInv, Debited
    <2>6. ProcsGood'
      BY <1>1, <2>1, <2>4, <2>5, StepOf
    <2> QED BY <1>1, <1>2, <1>5, <2>6 DEF RefundSweepPick, CountersGood
  <1>6. ASSUME NEW op \in Requests, Ask(p, op, j) PROVE MoneyInv'
    <2> DEFINE pc == IF op \in Completing THEN "asked" ELSE "write"
               f == [Idle EXCEPT !.pc = pc, !.op = op, !.job = j, !.kind = row[j].kind]
    <2>1. pc \in Pcs /\ op \in Ops /\ row[j].kind \in Kinds
      BY <1>3 DEF Pcs, Ops, Requests, Completing, Row
    <2>2. f \in Frame /\ f.job = j /\ f.pc = pc /\ f.bill = "none"
      BY <1>3, <2>1 DEF Frame, Idle
    <2>3. proc' = [proc EXCEPT ![p] = f]
      BY <1>6 DEF Ask
    <2>4. pc \in {"asked", "write"}
      OBVIOUS
    <2> HIDE DEF f, pc
    <2>5. FrameInv(f, debits')
      BY <2>2, <2>4 DEF FrameInv, Debited
    <2>6. ProcsGood'
      BY <1>1, <2>2, <2>3, <2>5, StepOf
    <2>7. CountersGood'
      <3>1. requests < MaxRequests /\ requests' = requests + 1 /\ UNCHANGED <<paused, faults>>
        BY <1>6 DEF Ask
      <3>2. requests \in 0..MaxRequests /\ MaxRequests \in Nat
        BY JobAssumption DEF CountersGood
      <3>3. requests' \in 0..MaxRequests
        BY <3>1, <3>2
      <3> QED BY <3>1, <3>3 DEF CountersGood
    <2> QED BY <1>1, <1>2, <2>6, <2>7
  <1> QED BY <1>4, <1>5, <1>6

LEMMA Swept ==
    ASSUME MoneyInv, NEW p \in Procs,
           \/ SweepWrite(p) \/ RefundSweepPay(p) \/ RefundSweepUnavailable(p)
           \/ RefundSweepClear(p)
    PROVE  MoneyInv'
  <1> USE MoneyInvParts
  <1>0. /\ proc[p].pc # "idle" /\ proc[p] \in Frame /\ proc[p].job \in Jobs
        /\ Cost(p) \in Nat /\ row[proc[p].job] \in Row
    BY BusySlot DEF SweepWrite, RefundSweepPay, RefundSweepUnavailable, RefundSweepClear,
                    At, Cost, RowsGood
  <1>1. CASE SweepWrite(p)
    <2> DEFINE f == proc[p]
               j == f.job
               Closed(st, mark, cost) ==
                   WithBill(WithError(WithStatus(row[j], st), mark, "none", 0),
                            row[j].dur, cost)
    <2>1. LedgerGood' /\ DebitsKept
      BY <1>1, UnchangedLedger DEF SweepWrite
    <2>2. ProcsGood'
      BY <1>1, <2>1, FinishGood DEF SweepWrite
    <2>3. CountersGood'
      <3>1. paused' \subseteq Jobs
        BY <1>0, <1>1 DEF SweepWrite, CountersGood
      <3> QED BY <1>1, <3>1 DEF SweepWrite, CountersGood
    <2>4. f.exec \in Execs /\ row[j].dur \in Durations /\ row[j].cost \in Nat
      BY <1>0 DEF Frame, Row
    <2>5. Restored(f, "completed") \in Statuses /\ Restored(f, "error") \in Statuses
      BY <2>4 DEF Restored, Execs, Statuses, Blocked, Terminal
    <2>6. ASSUME NEW st \in Statuses, NEW m \in Marks \ {"refund_pending"}, NEW c \in Nat,
                 UpdateIfNotIn(j, Terminal, Closed(st, m, c))
          PROVE  RowsGood'
      <3> DEFINE e == WithError(WithStatus(row[j], st), m, "none", 0)
      <3>1. "none" \in Execs /\ 0 \in Nat
        BY DEF Execs
      <3>2. WithStatus(row[j], st) \in Row
        BY <1>0, RowTypes
      <3>3. e \in Row /\ e.mark = m
        BY <3>1, <3>2, ErrorRow
      <3> HIDE DEF e
      <3>4. WithBill(e, row[j].dur, c) \in Row /\ WithBill(e, row[j].dur, c).mark = m
        BY <2>4, <3>3, BillRow
      <3>5. Closed(st, m, c) = WithBill(e, row[j].dur, c)
        BY DEF e
      <3> HIDE DEF Closed
      <3>6. Closed(st, m, c) \in Row /\ Honest(j, Closed(st, m, c))
        BY <3>4, <3>5 DEF Honest
      <3> QED BY <1>0, <2>1, <2>6, <3>6, ConditionalWrite
    <2>7. ASSUME Update(j, WithError(row[j], "no_funds", f.exec, 0)) PROVE RowsGood'
      <3>1. "no_funds" \in Marks \ {"refund_pending"} /\ 0 \in Nat
        BY DEF Marks
      <3> QED BY <1>0, <2>1, <2>4, <2>7, <3>1, HonestRows, PlainWrite
    <2>8. \/ UpdateIfNotIn(j, Terminal, Closed(Restored(f, "completed"), "none", Cost(p)))
          \/ UpdateIfNotIn(j, Terminal, Closed(Restored(f, "completed"), "none", row[j].cost))
          \/ UpdateIfNotIn(j, Terminal, Closed(Restored(f, "error"), "mismatch", row[j].cost))
          \/ Update(j, WithError(row[j], "no_funds", f.exec, 0))
          \/ UNCHANGED row
      BY <1>1 DEF SweepWrite
    <2>9. "none" \in Marks \ {"refund_pending"} /\ "mismatch" \in Marks \ {"refund_pending"}
      BY DEF Marks
    <2> HIDE DEF Closed
    <2>10. RowsGood'
      BY <1>0, <2>1, <2>4, <2>5, <2>6, <2>7, <2>8, <2>9, NoRowWritten
    <2> QED BY <2>1, <2>2, <2>3, <2>10
  <1>2. CASE RefundSweepPay(p) \/ RefundSweepUnavailable(p)
    <2>1. debits[proc[p].job] = <<proc[p].owed>> /\ proc[p].owed \in Nat
      BY <1>0, <1>2 DEF RefundSweepPay, RefundSweepUnavailable, At, ProcsGood, FrameInv, Frame
    <2>2. LedgerGood' /\ DebitsKept
      BY <1>0, <1>2, <2>1, RefundGood, UnchangedLedger
      DEF RefundSweepPay, RefundSweepUnavailable
    <2>3. RowsGood'
      BY <1>2, <2>2, NoRowWritten DEF RefundSweepPay, RefundSweepUnavailable
    <2>4. ProcsGood'
      BY <1>0, <1>2, <2>2, FinishGood, GotoQuiet
      DEF RefundSweepPay, RefundSweepUnavailable, Quiet
    <2>5. CountersGood'
      BY <1>2, FaultCount DEF RefundSweepPay, RefundSweepUnavailable, CountersGood
    <2> QED BY <2>2, <2>3, <2>4, <2>5
  <1>3. CASE RefundSweepClear(p)
    <2>1. LedgerGood' /\ DebitsKept /\ CountersGood'
      BY <1>3, UnchangedLedger DEF RefundSweepClear, CountersGood
    <2>2. "none" \in Marks \ {"refund_pending"} /\ "none" \in Execs /\ 0 \in Nat
      BY DEF Marks, Execs
    <2>3. RowsGood'
      BY <1>0, <1>3, <2>1, <2>2, HonestRows, PlainWrite DEF RefundSweepClear
    <2>4. ProcsGood'
      BY <1>3, <2>1, FinishGood DEF RefundSweepClear
    <2> QED BY <2>1, <2>3, <2>4
  <1> QED BY <1>1, <1>2, <1>3

LEMMA Handled ==
    ASSUME MoneyInv, NEW p \in Procs,
           \/ \E d \in Durations : DurationKnown(p, d)
           \/ DurationUnknown(p) \/ CompleteCleanup(p) \/ HandlerWrite(p)
    PROVE  MoneyInv'
  <1> USE MoneyInvParts
  <1>0. /\ proc[p].pc # "idle" /\ proc[p] \in Frame /\ proc[p].job \in Jobs
    BY BusySlot DEF DurationKnown, DurationUnknown, CompleteCleanup, HandlerWrite, At
  <1>1. LedgerGood' /\ DebitsKept
    BY UnchangedLedger DEF DurationKnown, DurationUnknown, CompleteCleanup, HandlerWrite
  <1>2. CountersGood'
    BY DEF DurationKnown, DurationUnknown, CompleteCleanup, HandlerWrite, CountersGood
  <1>3. ASSUME NEW d \in Durations, DurationKnown(p, d) PROVE MoneyInv'
    <2> DEFINE f == [proc[p] EXCEPT !.pc = "read", !.dur = d]
    <2>1. "read" \in Pcs /\ "read" \in Quiet
      BY DEF Pcs, Quiet
    <2>2. f \in Frame /\ f.job = proc[p].job /\ f.pc = "read"
      BY <1>0, <2>1 DEF Frame
    <2>3. proc' = [proc EXCEPT ![p] = f]
      BY <1>3 DEF DurationKnown
    <2> HIDE DEF f
    <2>4. ProcsGood'
      BY <1>0, <1>1, <2>1, <2>2, <2>3, QuietStep
    <2>5. RowsGood'
      BY <1>1, <1>3, NoRowWritten DEF DurationKnown
    <2> QED BY <1>1, <1>2, <2>4, <2>5
  <1>4. CASE DurationUnknown(p)
    BY <1>1, <1>2, <1>4, FinishGood, NoRowWritten DEF DurationUnknown
  <1>5. CASE CompleteCleanup(p)
    <2> DEFINE f == [proc[p] EXCEPT !.pc = "write"]
    <2>1. "write" \in Pcs
      BY DEF Pcs
    <2>2. f \in Frame
      BY <1>0, <2>1, GotoFrame
    <2>3. f.job = proc[p].job /\ f.pc = "write" /\ f.op = proc[p].op
      BY <1>0 DEF Frame
    <2>4. proc' = [proc EXCEPT ![p] = f]
      BY <1>5 DEF CompleteCleanup, Goto
    <2> HIDE DEF f
    <2>5. proc[p].op = "complete"
      BY <1>5 DEF CompleteCleanup, At
    <2>6. FrameInv(f, debits')
      BY <1>0, <2>3, <2>5 DEF FrameInv, Debited
    <2>7. ProcsGood'
      BY <1>1, <2>2, <2>4, <2>6, StepOf
    <2>8. RowsGood'
      BY <1>1, <1>5, NoRowWritten DEF CompleteCleanup
    <2> QED BY <1>1, <1>2, <2>7, <2>8
  <1>6. CASE HandlerWrite(p)
    <2> DEFINE j == proc[p].job
               st == Target(proc[p].op)
    <2>1. ProcsGood'
      BY <1>1, <1>6, FinishGood DEF HandlerWrite
    <2>2. st \in Statuses
      BY DEF Target, Statuses, Blocked, Terminal
    <2>3. "text" \in Marks \ {"refund_pending"} /\ "none" \in Execs /\ 0 \in Nat
      BY DEF Marks, Execs
    <2>4. \/ UpdateIfNotIn(j, Terminal, WithStatus(row[j], st))
          \/ Update(j, WithStatus(row[j], st))
          \/ Update(j, WithError(WithStatus(row[j], st), "text", "none", 0))
      BY <1>6 DEF HandlerWrite
    <2> HIDE DEF st
    <2>5. RowsGood'
      BY <1>0, <1>1, <2>2, <2>3, <2>4, HonestRows, ConditionalWrite, PlainWrite
    <2> QED BY <1>1, <1>2, <2>1, <2>5
  <1> QED BY <1>3, <1>4, <1>5, <1>6

-----------------------------------------------------------------------------
LEMMA ToppedUp ==
    ASSUME MoneyInv, NEW t \in Tenants, TopUpTenant(t)
    PROVE  MoneyInv'
  <1> USE MoneyInvParts
  <1>1. TopUp(t, 1) /\ UNCHANGED jobVars
    BY DEF TopUpTenant
  <1>2. LedgerGood' /\ DebitsKept
    BY <1>1, TopUpGood
  <1>3. RowsGood' /\ ProcsGood' /\ CountersGood'
    BY <1>1, <1>2, NoRowWritten, NoStep DEF jobVars, CountersGood
  <1> QED BY <1>2, <1>3

LEMMA MoneyInit == Init => MoneyInv
  <1> SUFFICES ASSUME Init PROVE MoneyInv
    OBVIOUS
  <1> USE MoneyInvParts
  <1>1. LedgerGood
    BY LedgerAssumption DEF Init, LedgerInit, LedgerGood, LedgerTypeOK, NeverOverdrawn, RowsInv
  <1>2. NoRow \in Row
    BY LedgerAssumption DEF NoRow, Row, Statuses, Marks, Execs, Kinds
  <1>3. RowsGood
    BY <1>2 DEF Init, RowsGood, MarkInv, NoRow
  <1>4. ProcsGood
    <2>1. FrameInv(Idle, debits)
      BY DEF FrameInv, Debited, Idle
    <2> QED BY <2>1, IdleFrame DEF Init, ProcsGood
  <1>5. CountersGood
    BY JobAssumption DEF Init, CountersGood
  <1> QED BY <1>1, <1>3, <1>4, <1>5

LEMMA MoneyNext == MoneyInv /\ [Next]_vars => MoneyInv'
  <1> SUFFICES ASSUME MoneyInv, [Next]_vars PROVE MoneyInv'
    OBVIOUS
  <1>1. CASE UNCHANGED vars
    <2>1. LedgerGood' /\ DebitsKept
      BY <1>1, MoneyInvParts, UnchangedLedger DEF vars
    <2>2. RowsGood' /\ ProcsGood' /\ CountersGood'
      BY <1>1, <2>1, MoneyInvParts, NoRowWritten, NoStep DEF vars, jobVars, CountersGood
    <2> QED BY <2>1, <2>2, MoneyInvParts
  <1>2. ASSUME NEW t \in Tenants, TopUpTenant(t) PROVE MoneyInv'
    BY <1>2, ToppedUp
  <1>3. ASSUME NEW j \in Jobs, NEW kind \in Kinds, SubmitTask(j, kind) PROVE MoneyInv'
    BY <1>3, RowActions
  <1>4. ASSUME NEW j \in Jobs, CancelJob(j) \/ SweepOrphan(j) \/ PauseEnds(j)
        PROVE  MoneyInv'
    <2>1. "cpu_execution" \in Kinds
      BY DEF Kinds
    <2> QED BY <1>4, <2>1, RowActions
  <1>5. ASSUME NEW p \in Procs, NEW j \in Jobs,
               ClaimQueued(p, j) \/ SweepPick(p, j) \/ RefundSweepPick(p, j)
        PROVE  MoneyInv'
    BY <1>5, TaskEarly, Picked
  <1>6. ASSUME NEW p \in Procs, NEW j \in Jobs, NEW op \in Requests, Ask(p, op, j)
        PROVE  MoneyInv'
    BY <1>6, Picked
  <1>7. ASSUME NEW p \in Procs, TaskStep(p) \/ SweepStep(p) \/ HandlerStep(p)
        PROVE  MoneyInv'
    BY <1>7, TaskEarly, FinalizeGood, TaskLate, Swept, Handled
    DEF TaskStep, SweepStep, HandlerStep, Finalize
  <1>8. ASSUME NEW p \in Procs, Unavailable(p) \/ DrainInflight(p) \/ Crash(p)
        PROVE  MoneyInv'
    BY <1>8, FinalizeGood, TaskLate, Swept, Interrupted DEF Unavailable
  <1> QED BY <1>1, <1>2, <1>3, <1>4, <1>5, <1>6, <1>7, <1>8 DEF Next

-----------------------------------------------------------------------------
(* The inductive invariant holds in every reachable state, whatever the    *)
(* workers, sweepers, handlers, crashes and PostgreSQL failures do.        *)
THEOREM MoneyInvariant == Spec => []MoneyInv
  BY MoneyInit, MoneyNext, PTL DEF Spec

(* Every variable keeps its type: no handler, sweeper or failure path      *)
(* leaves a row or a slot in a state the code does not name.               *)
THEOREM TypeCorrect == Spec => []TypeOK
  <1>1. MoneyInv => TypeOK
    BY DEF MoneyInv
  <1> QED BY <1>1, MoneyInvariant, PTL

(* debit_if_funds keeps every balance at or above zero for any number of   *)
(* tenants, jobs and concurrent workers.                                   *)
THEOREM BalanceNeverNegative == Spec => []NeverOverdrawn
  <1>1. MoneyInv => NeverOverdrawn
    BY DEF MoneyInv
  <1> QED BY <1>1, MoneyInvariant, PTL

(* At most one DEBIT row, one refund row and one usage event per job.      *)
THEOREM OneChargePerJob == Spec => []ChargedOnce
  <1>1. MoneyInv => ChargedOnce
    <2> SUFFICES ASSUME MoneyInv, NEW j \in Jobs
                 PROVE  /\ Len(debits[j]) <= 1 /\ Len(refunds[j]) <= 1
                        /\ \A k \in Kinds : Len(usage[j][k]) <= 1
      BY DEF ChargedOnce
    <2> QED BY DEF MoneyInv, RowsInv
  <1> QED BY <1>1, MoneyInvariant, PTL

(* A refund is the DEBIT row's amount, never more and never without it.    *)
THEOREM RefundInFull == Spec => []RefundMatchesDebit
  <1>1. MoneyInv => RefundMatchesDebit
    BY DEF MoneyInv, RowsInv, RefundMatchesDebit
  <1> QED BY <1>1, MoneyInvariant, PTL

(* A usage event is a copy of the DEBIT row's amount.                      *)
THEOREM UsageAgrees == Spec => []UsageMatchesDebit
  <1>1. MoneyInv => UsageMatchesDebit
    BY DEF MoneyInv, RowsInv, UsageMatchesDebit
  <1> QED BY <1>1, MoneyInvariant, PTL


-----------------------------------------------------------------------------
(* Jobs that are shown as completed or leave billing_pending are paid.     *)
(* The endpoints of the execution agents write the status they were asked  *)
(* for whatever the row has become, and a retry queues a job that has a    *)
(* task; without them a job has one task, which is done with the row       *)
(* before any sweeper works on it.                                         *)
Rewriting == {"ack_start", "ack_fail", "retry"}

\* The task of a job; a task that has not written its result yet; the
\* sweepers, which come after it.
Working(f) == f.op = "execute"
Early(f) == Working(f) /\ f.pc \in {"dispatch", "poll", "read", "debit", "meter", "write"}
After(f) == f.op \in {"sweep", "refund_sweep"}

\* Where a slot of each kind can be.
Shape(f) ==
    /\ f.op \in {"none", "execute", "sweep", "refund_sweep"} \cup Completing
    /\ f.op = "none" => f = Idle
    /\ f.op # "none" => f.pc # "idle" /\ f.job \in Jobs
    /\ Working(f) => f.pc \in {"dispatch", "poll", "read", "debit", "meter", "write", "check", "refund", "mark", "cleanup"}
    /\ f.op = "sweep" => f.pc \in {"read", "debit", "meter", "write"}
    /\ f.op = "refund_sweep" => f.pc \in {"refund", "clear"}
    /\ f.op \in Completing => f.pc \in {"asked", "read", "debit", "meter", "cleanup", "write"}
    /\ Working(f) /\ f.pc \in {"read", "debit", "meter", "write"} => f.st \in Raw \cup {"timeout"}
    /\ (Working(f) \/ f.op = "sweep") /\ f.pc = "write" => f.bill # "none"

\* The kind of slot.
Placed(p, f) ==
    /\ Working(f) => p \in Tasks
    /\ After(f) => p \in Sweepers
    /\ f.op \in Completing => p \in Handlers

\* What a slot that works on a job relies on in its row r.
RowFor(f, r) ==
    /\ Working(f) \/ After(f) => r.status \notin {"absent", "queued"}
    /\ Early(f) => r.status # "billing_pending" /\ r.mark # "refund_pending"
    /\ f.op = "sweep" => r.dur = f.dur /\ (r.status = "billing_pending" => r.exec = f.exec)
    /\ f.pc = "write" /\ (Working(f) \/ After(f)) /\ f.bill = "skip" => r.status \in Terminal \/ CostOf[f.dur] = 0
    /\ (Working(f) /\ f.pc \in {"refund", "mark"}) \/ f.op = "refund_sweep" => r.status \in Terminal

\* What an answer it got means for the DEBIT rows ds of the job.
DebitFor(f, ds) ==
    /\ f.pc = "write" /\ (Working(f) \/ After(f)) /\ f.bill \in {"ok", "mismatch"} => ds # <<>>
    /\ f.op \in Completing /\ f.pc \in {"cleanup", "write"} => ds # <<>>

SlotInv(p) ==
    /\ Shape(proc[p]) /\ Placed(p, proc[p])
    /\ proc[p].op # "none" => RowFor(proc[p], row[proc[p].job]) /\ DebitFor(proc[p], debits[proc[p].job])

OneTask ==
    \A p, q \in Procs : /\ p # q /\ Working(proc[p]) /\ Working(proc[q]) => proc[p].job # proc[q].job
                        /\ Early(proc[p]) /\ After(proc[q]) => proc[p].job # proc[q].job

\* What is so of a row r of a job with DEBIT rows ds, whoever wrote it.
PaidRow(r, ds) ==
    /\ r.status = "completed" => ds # <<>> \/ CostOf[r.dur] = 0
    /\ r.status \in {"absent", "queued"} => r.mark # "refund_pending"

PaidInv == (\A p \in Procs : SlotInv(p)) /\ OneTask /\ \A j \in Jobs : PaidRow(row[j], debits[j])

\* A write that disturbs no slot: it keeps a terminal status terminal and the
\* duration, parks no job and marks none for a refund.
Tame(r, s) ==
    /\ r.status \in Terminal => s.status \in Terminal
    /\ s.dur = r.dur
    /\ s.status = "billing_pending" => r.status = "billing_pending" /\ s.exec = r.exec
    /\ s.mark = "refund_pending" => r.mark = "refund_pending"
    /\ s.status \in {"absent", "queued"} => r.status \in {"absent", "queued"}

LEMMA TameKeeps ==
    ASSUME NEW f, NEW r, NEW s, RowFor(f, r), Tame(r, s)
    PROVE  RowFor(f, s)
  BY DEF RowFor, Tame, Terminal

LEMMA TameSame == \A r : Tame(r, r)
  BY DEF Tame

LEMMA BystanderRow ==
    ASSUME NEW f, ~Working(f), ~After(f), NEW r
    PROVE  RowFor(f, r)
  BY DEF RowFor, Early, Working, After

\* The slots other than p that work on job j go on with its row r.
OthersGoOn(p, j, r) ==
    \A q \in Procs : q # p /\ proc[q].op # "none" /\ proc[q].job = j => RowFor(proc[q], r)

LEMMA TameForOthers ==
    ASSUME PaidInv, NEW p, NEW j, NEW r, Tame(row[j], r)
    PROVE  OthersGoOn(p, j, r)
  <1> SUFFICES ASSUME NEW q \in Procs, proc[q].op # "none", proc[q].job = j PROVE RowFor(proc[q], r)
    BY DEF OthersGoOn
  <1>1. RowFor(proc[q], row[j])
    BY DEF PaidInv, SlotInv
  <1> QED BY <1>1, TameKeeps

\* A task that has not written yet is alone with the row.
LEMMA EarlyIsAlone ==
    ASSUME PaidInv, NEW p \in Procs, Early(proc[p]), NEW r
    PROVE  OthersGoOn(p, proc[p].job, r)
  <1> SUFFICES ASSUME NEW q \in Procs, q # p, proc[q].job = proc[p].job PROVE RowFor(proc[q], r)
    BY DEF OthersGoOn
  <1>1. Working(proc[p])
    BY DEF Early
  <1>2. ~Working(proc[q]) /\ ~After(proc[q])
    BY <1>1 DEF PaidInv, OneTask
  <1> QED BY <1>2, BystanderRow

\* Slot p may turn into g, at work on job j.
MayBecome(p, g, j) ==
    /\ Working(g) => \/ Working(proc[p]) /\ proc[p].job = j
                     \/ \A q \in Procs : Working(proc[q]) => proc[q].job # j
    /\ Early(g) => \/ Early(proc[p]) /\ proc[p].job = j
                   \/ \A q \in Procs : Working(proc[q]) \/ After(proc[q]) => proc[q].job # j
    /\ After(g) => \/ After(proc[p]) /\ proc[p].job = j
                   \/ \A q \in Procs : Early(proc[q]) => proc[q].job # j

LEMMA IdleIs == Idle.op = "none" /\ Idle.pc = "idle" /\ Shape(Idle) /\ ~Working(Idle) /\ ~Early(Idle) /\ ~After(Idle)
                /\ \A p : Placed(p, Idle)
  BY DEF Idle, Shape, Placed, Working, Early, After, Completing

\* What a step has to show, of the slot that takes it and the row it writes.
LEMMA PaidStep ==
    ASSUME MoneyInv, PaidInv, DebitsKept,
           NEW p \in Procs, NEW g \in Frame, proc' = [proc EXCEPT ![p] = g],
           NEW j \in Jobs, NEW r \in Row, row' = [row EXCEPT ![j] = r], OthersGoOn(p, j, r),
           Shape(g), Placed(p, g), MayBecome(p, g, j),
           g.op # "none" => g.job = j /\ RowFor(g, r) /\ DebitFor(g, debits'[j]),
           PaidRow(r, debits'[j])
    PROVE  PaidInv'
  <1>1. /\ proc'[p] = g /\ \A q \in Procs : q # p => proc'[q] = proc[q]
    BY FrameUpdate DEF MoneyInv, TypeOK
  <1>2. /\ row'[j] = r /\ \A i \in Jobs : i # j => row'[i] = row[i]
    BY RowUpdate DEF MoneyInv, TypeOK
  <1>3. ASSUME NEW q \in Procs PROVE SlotInv(q)'
    <2>1. CASE q = p
      BY <1>1, <1>2, <2>1 DEF SlotInv
    <2>2. CASE q # p
      <3>1. proc'[q] = proc[q] /\ Shape(proc[q]) /\ Placed(q, proc[q])
        BY <1>1, <2>2 DEF PaidInv, SlotInv
      <3>2. ASSUME proc[q].op # "none"
            PROVE  RowFor(proc[q], row'[proc[q].job]) /\ DebitFor(proc[q], debits'[proc[q].job])
        <4>1. proc[q].job \in Jobs
          BY <3>1, <3>2 DEF Shape
        <4>2. RowFor(proc[q], row'[proc[q].job])
          <5>1. CASE proc[q].job = j
            BY <1>2, <2>2, <3>2, <5>1 DEF OthersGoOn
          <5>2. CASE proc[q].job # j
            BY <1>2, <3>2, <4>1, <5>2 DEF PaidInv, SlotInv
          <5> QED BY <5>1, <5>2
        <4>3. DebitFor(proc[q], debits[proc[q].job])
          BY <3>2 DEF PaidInv, SlotInv
        <4>4. debits[proc[q].job] # <<>> => debits'[proc[q].job] # <<>>
          BY <4>1 DEF DebitsKept
        <4>5. DebitFor(proc[q], debits'[proc[q].job])
          BY <4>3, <4>4 DEF DebitFor
        <4> QED BY <4>2, <4>5
      <3> QED BY <3>1, <3>2 DEF SlotInv
    <2> QED BY <2>1, <2>2
  <1>4. OneTask'
    <2> SUFFICES ASSUME NEW a \in Procs, NEW b \in Procs
                 PROVE  /\ a # b /\ Working(proc'[a]) /\ Working(proc'[b]) => proc'[a].job # proc'[b].job
                        /\ Early(proc'[a]) /\ After(proc'[b]) => proc'[a].job # proc'[b].job
      BY DEF OneTask
    <2>0. /\ a # b /\ Working(proc[a]) /\ Working(proc[b]) => proc[a].job # proc[b].job
          /\ Early(proc[a]) /\ After(proc[b]) => proc[a].job # proc[b].job
          /\ Early(proc[a]) => Working(proc[a])
      BY DEF PaidInv, OneTask, Early
    <2>1. Working(g) \/ After(g) => g.job = j
      BY DEF Working, After
    <2>2. ~(Working(g) /\ After(g)) /\ (Early(g) => Working(g))
      BY DEF Working, After, Early
    <2>3. CASE a # p /\ b # p
      BY <1>1, <2>0, <2>3
    <2>4. CASE a = p /\ b = p
      BY <1>1, <2>2, <2>4
    <2>5. CASE a = p /\ b # p
      BY <1>1, <2>0, <2>1, <2>2, <2>5 DEF MayBecome, PaidInv, OneTask
    <2>6. CASE a # p /\ b = p
      BY <1>1, <2>0, <2>1, <2>2, <2>6 DEF MayBecome, PaidInv, OneTask
    <2> QED BY <2>3, <2>4, <2>5, <2>6
  <1>5. ASSUME NEW i \in Jobs PROVE PaidRow(row'[i], debits'[i])
    <2>1. CASE i = j
      BY <1>2, <2>1
    <2>2. CASE i # j
      BY <1>2, <2>2 DEF PaidInv, PaidRow, DebitsKept
    <2> QED BY <2>1, <2>2
  <1> QED BY <1>3, <1>4, <1>5 DEF PaidInv


\* What the invariant says of a slot at work.
LEMMA AtWork ==
    ASSUME MoneyInv, PaidInv, NEW p \in Procs, proc[p].pc # "idle"
    PROVE  /\ proc[p] \in Frame /\ proc[p].op # "none" /\ proc[p].job \in Jobs /\ Cost(p) \in Nat
           /\ Shape(proc[p]) /\ Placed(p, proc[p]) /\ row[proc[p].job] \in Row
           /\ RowFor(proc[p], row[proc[p].job]) /\ DebitFor(proc[p], debits[proc[p].job])
           /\ PaidRow(row[proc[p].job], debits[proc[p].job])
  <1>1. proc[p] \in Frame /\ Shape(proc[p]) /\ Placed(p, proc[p])
    BY DEF MoneyInv, TypeOK, PaidInv, SlotInv
  <1>2. proc[p].op # "none" /\ proc[p].job \in Jobs
    BY <1>1, IdleIs DEF Shape
  <1>3. row[proc[p].job] \in Row /\ PaidRow(row[proc[p].job], debits[proc[p].job])
    BY <1>2 DEF MoneyInv, TypeOK, PaidInv
  <1>4. CostOf[proc[p].dur] \in Nat
    BY <1>1, LedgerAssumption DEF Frame
  <1> QED BY <1>1, <1>2, <1>3, <1>4 DEF PaidInv, SlotInv, Cost

LEMMA SameRow ==
    ASSUME MoneyInv, NEW j \in Jobs, row' = row
    PROVE  row[j] \in Row /\ row' = [row EXCEPT ![j] = row[j]]
  BY DEF MoneyInv, TypeOK

LEMMA SameLedger ==
    ASSUME UNCHANGED ledgerVars
    PROVE  DebitsKept /\ debits' = debits
  BY DEF DebitsKept, ledgerVars

LEMMA PaidKept ==
    ASSUME DebitsKept, NEW j \in Jobs, NEW r, PaidRow(r, debits[j])
    PROVE  PaidRow(r, debits'[j])
  BY DEF DebitsKept, PaidRow

\* A slot that ends, and leaves a row no other slot minds.
LEMMA EndsPaid ==
    ASSUME MoneyInv, PaidInv, DebitsKept, NEW p \in Procs, Finish(p),
           NEW j \in Jobs, NEW r \in Row, row' = [row EXCEPT ![j] = r], OthersGoOn(p, j, r), PaidRow(r, debits'[j])
    PROVE  PaidInv'
  <1>1. proc' = [proc EXCEPT ![p] = Idle]
    BY DEF Finish
  <1>2. MayBecome(p, Idle, j)
    BY IdleIs DEF MayBecome
  <1> QED BY <1>1, <1>2, IdleIs, IdleFrame, PaidStep

\* A slot that only reads, or writes to the ledger.
LEMMA ReadsPaid ==
    ASSUME MoneyInv, PaidInv, DebitsKept, NEW p \in Procs, proc[p].pc # "idle", row' = row,
           NEW g \in Frame, proc' = [proc EXCEPT ![p] = g],
           Shape(g), g.op # "none" => g.op = proc[p].op /\ g.job = proc[p].job,
           Early(g) => Early(proc[p]),
           g.op # "none" => RowFor(g, row[proc[p].job]) /\ DebitFor(g, debits'[proc[p].job])
    PROVE  PaidInv'
  <1>1. PICK j \in Jobs : j = proc[p].job
    BY AtWork
  <1>2. row[j] \in Row /\ row' = [row EXCEPT ![j] = row[j]]
    BY SameRow
  <1>3. OthersGoOn(p, j, row[j])
    BY TameSame, TameForOthers
  <1>4. Placed(p, g)
    BY AtWork, IdleIs DEF Placed, Shape, Working, After, Completing
  <1>5. MayBecome(p, g, j)
    BY <1>1 DEF MayBecome, Working, After
  <1>6. PaidRow(row[j], debits'[j])
    BY <1>1, AtWork, PaidKept
  <1> QED BY <1>1, <1>2, <1>3, <1>4, <1>5, <1>6, PaidStep

\* A row written with no slot involved.
LEMMA RowPaid ==
    ASSUME MoneyInv, PaidInv, DebitsKept, proc' = proc, NEW j \in Jobs, NEW r \in Row,
           row' = [row EXCEPT ![j] = r], Tame(row[j], r), PaidRow(r, debits'[j])
    PROVE  PaidInv'
  <1>1. /\ row'[j] = r /\ \A i \in Jobs : i # j => row'[i] = row[i]
    BY RowUpdate DEF MoneyInv, TypeOK
  <1>2. ASSUME NEW q \in Procs PROVE SlotInv(q)'
    <2>1. Shape(proc[q]) /\ Placed(q, proc[q])
      BY DEF PaidInv, SlotInv
    <2>2. ASSUME proc[q].op # "none"
          PROVE  RowFor(proc[q], row'[proc[q].job]) /\ DebitFor(proc[q], debits'[proc[q].job])
      <3>1. proc[q].job \in Jobs
        BY <2>1, <2>2 DEF Shape
      <3>2. RowFor(proc[q], row[proc[q].job]) /\ DebitFor(proc[q], debits[proc[q].job])
        BY <2>2 DEF PaidInv, SlotInv
      <3>3. RowFor(proc[q], row'[proc[q].job])
        BY <1>1, <3>1, <3>2, TameKeeps
      <3>4. debits[proc[q].job] # <<>> => debits'[proc[q].job] # <<>>
        BY <3>1 DEF DebitsKept
      <3>5. DebitFor(proc[q], debits'[proc[q].job])
        BY <3>2, <3>4 DEF DebitFor
      <3> QED BY <3>3, <3>5
    <2> QED BY <2>1, <2>2 DEF SlotInv
  <1>3. OneTask'
    BY DEF PaidInv, OneTask
  <1>4. ASSUME NEW i \in Jobs PROVE PaidRow(row'[i], debits'[i])
    <2>1. CASE i = j
      BY <1>1, <2>1
    <2>2. CASE i # j
      BY <1>1, <2>2 DEF PaidInv, PaidRow, DebitsKept
    <2> QED BY <2>1, <2>2
  <1> QED BY <1>2, <1>3, <1>4 DEF PaidInv

\* The fields of a row after a write.
LEMMA WrittenFields ==
    ASSUME NEW r \in Row
    PROVE  /\ \A st : /\ WithStatus(r, st).status = st /\ WithStatus(r, st).dur = r.dur
                      /\ WithStatus(r, st).exec = r.exec /\ WithStatus(r, st).mark = r.mark
           /\ \A m, e, o : /\ WithError(r, m, e, o).status = r.status /\ WithError(r, m, e, o).dur = r.dur
                           /\ WithError(r, m, e, o).exec = e /\ WithError(r, m, e, o).mark = m
           /\ \A k : /\ WithKind(r, k).status = r.status /\ WithKind(r, k).dur = r.dur
                     /\ WithKind(r, k).exec = r.exec /\ WithKind(r, k).mark = r.mark
           /\ \A d, c : /\ WithBill(r, d, c).status = r.status /\ WithBill(r, d, c).dur = d
                        /\ WithBill(r, d, c).exec = r.exec /\ WithBill(r, d, c).mark = r.mark
                        /\ WithBill(r, d, c).cost = c
  BY DEF Row, WithStatus, WithError, WithKind, WithBill

\* A conditional update as a plain one.
LEMMA Conditional ==
    ASSUME MoneyInv, NEW j \in Jobs, NEW blocked, NEW r, UpdateIfNotIn(j, blocked, r)
    PROVE  row' = [row EXCEPT ![j] = IF row[j].status \in blocked THEN row[j] ELSE r]
  BY DEF UpdateIfNotIn


LEMMA RowActionsPaid ==
    ASSUME MoneyInv, PaidInv, NEW j \in Jobs, NEW kind \in Kinds,
           SubmitTask(j, kind) \/ CancelJob(j) \/ SweepOrphan(j)
    PROVE  PaidInv'
  <1>1. DebitsKept /\ proc' = proc /\ row[j] \in Row
    BY SameLedger DEF SubmitTask, CancelJob, SweepOrphan, MoneyInv, TypeOK
  <1>2. "queued" \in Statuses /\ "cancelled" \in Statuses /\ "timeout" \in Statuses /\ "text" \in Marks /\ "none" \in Execs
    BY DEF Statuses, Blocked, Terminal, Marks, Execs
  <1>3. CASE SubmitTask(j, kind)
    <2>1. PICK s \in Row : s = WithStatus(row[j], "queued")
      BY <1>1, <1>2, RowTypes
    <2>2. PICK r \in Row : r = WithKind(s, kind)
      BY KindRow
    <2>3. r.status = "queued" /\ r.dur = row[j].dur /\ r.exec = row[j].exec /\ r.mark = row[j].mark
      BY <1>1, <2>1, <2>2, WrittenFields
    <2>4. row' = [row EXCEPT ![j] = r] /\ row[j].status = "absent"
      BY <1>3, <2>1, <2>2 DEF SubmitTask, Update
    <2>5. Tame(row[j], r) /\ PaidRow(r, debits'[j])
      BY <2>3, <2>4 DEF Tame, PaidRow, PaidInv, Terminal
    <2> QED BY <1>1, <2>4, <2>5, RowPaid
  <1>4. CASE CancelJob(j)
    <2>1. PICK r \in Row : r = WithStatus(row[j], "cancelled")
      BY <1>1, <1>2, RowTypes
    <2>2. r.status = "cancelled" /\ r.dur = row[j].dur /\ r.exec = row[j].exec /\ r.mark = row[j].mark
      BY <1>1, <2>1, WrittenFields
    <2>3. row' = [row EXCEPT ![j] = r]
      BY <1>4, <2>1, Conditional DEF CancelJob
    <2>4. Tame(row[j], r) /\ PaidRow(r, debits'[j])
      BY <2>2 DEF Tame, PaidRow, Terminal
    <2> QED BY <1>1, <2>3, <2>4, RowPaid
  <1>5. CASE SweepOrphan(j)
    <2>1. PICK s \in Row : s = WithStatus(row[j], "timeout")
      BY <1>1, <1>2, RowTypes
    <2>2. PICK r \in Row : r = WithError(s, "text", "none", 0)
      BY <1>2, ErrorRow
    <2>3. r.status = "timeout" /\ r.dur = row[j].dur /\ r.mark = "text"
      BY <1>1, <2>1, <2>2, WrittenFields
    <2>4. row' = [row EXCEPT ![j] = r]
      BY <1>5, <2>1, <2>2 DEF SweepOrphan, Update
    <2>5. Tame(row[j], r) /\ PaidRow(r, debits'[j])
      BY <2>3 DEF Tame, PaidRow, Terminal
    <2> QED BY <1>1, <2>4, <2>5, RowPaid
  <1> QED BY <1>3, <1>4, <1>5

LEMMA ClaimPaid ==
    ASSUME MoneyInv, PaidInv, NEW p \in Procs, NEW j \in Jobs, ClaimQueued(p, j)
    PROVE  PaidInv'
  <1>1. DebitsKept /\ row[j] \in Row /\ row[j].status = "queued" /\ p \in Tasks
    BY SameLedger DEF ClaimQueued, MoneyInv, TypeOK
  <1>2. PICK g : g = [Idle EXCEPT !.pc = "dispatch", !.op = "execute", !.job = j]
    OBVIOUS
  <1>3. g \in Frame /\ g.pc = "dispatch" /\ g.op = "execute" /\ g.job = j
    BY <1>2, IdleFrame DEF Frame, Pcs, Ops
  <1>4. PICK r \in Row : r = WithStatus(row[j], "running")
    <2>1. "running" \in Statuses
      BY DEF Statuses
    <2> QED BY <1>1, <2>1, RowTypes
  <1>5. r.status = "running" /\ r.dur = row[j].dur /\ r.mark = row[j].mark
    BY <1>1, <1>4, WrittenFields
  <1>6. row' = [row EXCEPT ![j] = r] /\ proc' = [proc EXCEPT ![p] = g]
    BY <1>2, <1>4 DEF ClaimQueued, Update
  <1>7. Tame(row[j], r) /\ PaidRow(r, debits'[j])
    BY <1>1, <1>5 DEF Tame, PaidRow, Terminal
  <1>8. \A q \in Procs : Working(proc[q]) \/ After(proc[q]) => proc[q].job # j
    BY <1>1 DEF PaidInv, SlotInv, RowFor, Working, After
  <1>9. MayBecome(p, g, j)
    BY <1>3, <1>8 DEF MayBecome, After
  <1>10. Shape(g) /\ Placed(p, g) /\ DebitFor(g, debits'[j])
    BY <1>1, <1>3 DEF Shape, Placed, DebitFor, Working, After, Completing
  <1>11. row[j].mark # "refund_pending" => RowFor(g, r)
    BY <1>3, <1>5 DEF RowFor, Early, Working, After, Terminal
  <1>12. row[j].mark # "refund_pending"
    BY <1>1 DEF PaidInv, PaidRow
  <1> QED BY <1>1, <1>3, <1>6, <1>7, <1>9, <1>10, <1>11, <1>12, TameForOthers, PaidStep


\* The fields a step of a slot leaves alone.
LEMMA NextFrame ==
    ASSUME NEW f \in Frame, NEW pc \in Pcs
    PROVE  /\ [f EXCEPT !.pc = pc] \in Frame
           /\ [f EXCEPT !.pc = pc].pc = pc /\ [f EXCEPT !.pc = pc].op = f.op
           /\ [f EXCEPT !.pc = pc].job = f.job /\ [f EXCEPT !.pc = pc].dur = f.dur
           /\ [f EXCEPT !.pc = pc].st = f.st /\ [f EXCEPT !.pc = pc].bill = f.bill
           /\ [f EXCEPT !.pc = pc].exec = f.exec /\ [f EXCEPT !.pc = pc].mark = f.mark
  BY DEF Frame

LEMMA DispatchPaid ==
    ASSUME MoneyInv, PaidInv, NEW p \in Procs, NEW k \in Kinds,
           DispatchFails(p, k) \/ DispatchReady(p, k)
    PROVE  PaidInv'
  <1>1. proc[p].pc = "dispatch" /\ Working(proc[p]) /\ Early(proc[p])
    BY DEF DispatchFails, DispatchReady, At, Working, Early
  <1>2. PICK j \in Jobs : j = proc[p].job
    BY <1>1, AtWork
  <1>3. /\ row[j] \in Row /\ proc[p] \in Frame /\ Placed(p, proc[p]) /\ DebitsKept
        /\ RowFor(proc[p], row[j])
    BY <1>1, <1>2, AtWork, SameLedger DEF DispatchFails, DispatchReady
  <1>4. "running" \in Statuses /\ "failed" \in Statuses /\ "text" \in Marks /\ "none" \in Execs
    BY DEF Statuses, Blocked, Terminal, Marks, Execs
  <1>5. CASE DispatchFails(p, k)
    <2>1. PICK a \in Row : a = WithStatus(row[j], "failed")
      BY <1>3, <1>4, RowTypes
    <2>2. PICK b \in Row : b = WithError(a, "text", "none", 0)
      BY <1>4, ErrorRow
    <2>3. PICK r \in Row : r = WithKind(b, k)
      BY KindRow
    <2>4. r.status = "failed"
      BY <1>3, <2>1, <2>2, <2>3, WrittenFields
    <2>5. row' = [row EXCEPT ![j] = r] /\ Finish(p)
      BY <1>2, <1>5, <2>1, <2>2, <2>3 DEF DispatchFails, Update
    <2>6. OthersGoOn(p, j, r) /\ PaidRow(r, debits'[j])
      BY <1>1, <1>2, <2>4, EarlyIsAlone DEF PaidRow
    <2> QED BY <1>3, <2>5, <2>6, EndsPaid
  <1>6. CASE DispatchReady(p, k)
    <2>1. PICK a \in Row : a = WithStatus(row[j], "running")
      BY <1>3, <1>4, RowTypes
    <2>2. PICK r \in Row : r = WithKind(a, k)
      BY KindRow
    <2>3. r.status = "running" /\ r.mark = row[j].mark
      BY <1>3, <2>1, <2>2, WrittenFields
    <2>4. PICK g : g = [proc[p] EXCEPT !.pc = "poll", !.kind = k]
      OBVIOUS
    <2>5. g \in Frame /\ g.pc = "poll" /\ g.op = "execute" /\ g.job = j
      BY <1>1, <1>2, <1>3, <2>4 DEF Frame, Pcs, Working
    <2>6. row' = [row EXCEPT ![j] = r] /\ proc' = [proc EXCEPT ![p] = g]
      BY <1>2, <1>6, <2>1, <2>2, <2>4 DEF DispatchReady, Update
    <2>7. OthersGoOn(p, j, r) /\ PaidRow(r, debits'[j])
      BY <1>1, <1>2, <2>3, EarlyIsAlone DEF PaidRow
    <2>8. Shape(g) /\ Placed(p, g) /\ MayBecome(p, g, j) /\ DebitFor(g, debits'[j])
      BY <1>1, <1>2, <1>3, <2>5 DEF Shape, Placed, MayBecome, DebitFor, Working, After, Completing
    <2>9. RowFor(g, r)
      BY <1>1, <1>3, <2>3, <2>5 DEF RowFor, Early, Working, After
    <2> QED BY <1>3, <2>5, <2>6, <2>7, <2>8, <2>9, PaidStep
  <1> QED BY <1>5, <1>6

LEMMA PollPaid ==
    ASSUME MoneyInv, PaidInv, NEW p \in Procs, NEW st \in Raw \cup {"timeout"}, NEW d \in Durations, PollEnds(p, st, d)
    PROVE  PaidInv'
  <1>1. proc[p].pc = "poll" /\ proc[p].op = "execute" /\ proc[p].pc # "idle" /\ Early(proc[p]) /\ row' = row
    BY DEF PollEnds, At, Working, Early
  <1>2. proc[p] \in Frame /\ DebitsKept /\ proc[p].job \in Jobs /\ RowFor(proc[p], row[proc[p].job])
    BY <1>1, AtWork, SameLedger DEF PollEnds
  <1>3. PICK g : g = [proc[p] EXCEPT !.pc = "read", !.st = st, !.dur = d]
    OBVIOUS
  <1>4. g \in Frame /\ g.pc = "read" /\ g.op = "execute" /\ g.job = proc[p].job /\ g.st = st
    BY <1>1, <1>2, <1>3 DEF Frame, Pcs, Raw, Statuses, Blocked, Terminal
  <1>5. proc' = [proc EXCEPT ![p] = g]
    BY <1>3 DEF PollEnds
  <1>6. Shape(g) /\ DebitFor(g, debits'[proc[p].job])
    BY <1>2, <1>4 DEF Shape, DebitFor, Working, After, Completing
  <1>7. RowFor(g, row[proc[p].job])
    BY <1>1, <1>2, <1>4 DEF RowFor, Early, Working, After
  <1> QED BY <1>1, <1>2, <1>4, <1>5, <1>6, <1>7, ReadsPaid

\* finalize_job_billing hands its answer to the caller.
LEMMA ReturnPaid ==
    ASSUME MoneyInv, PaidInv, DebitsKept, NEW p \in Procs, proc[p].pc \in {"read", "debit", "meter"}, row' = row,
           NEW bill \in Billing \ {"none"}, Return(p, bill),
           bill = "skip" => row[proc[p].job].status \in Terminal \/ CostOf[proc[p].dur] = 0,
           bill \in {"ok", "mismatch"} => debits'[proc[p].job] # <<>>
    PROVE  PaidInv'
  <1> DEFINE f == proc[p]
  <1>1. f \in Frame /\ f.job \in Jobs /\ Shape(f) /\ RowFor(f, row[f.job]) /\ f.op # "none" /\ f.pc # "idle"
    BY AtWork
  <1>2. PICK g \in Frame : g = Returned(f, bill)
    <2>1. bill \in Billing /\ f \in Frame
      BY <1>1
    <2>2. Returned(f, bill) \in Frame
      BY ONLY <2>1, ReturnedFrame, Zenon
    <2> QED BY ONLY <2>2, Zenon
  <1>3. proc' = [proc EXCEPT ![p] = g]
    BY <1>2 DEF Return
  <1>4. CASE f.op \in {"execute", "sweep"}
    <2>1. g = [f EXCEPT !.pc = "write", !.bill = bill]
      BY <1>2, <1>4 DEF Returned
    <2>2. g.pc = "write" /\ g.bill = bill /\ g.op = f.op /\ g.job = f.job /\ g.dur = f.dur /\ g.st = f.st /\ g.exec = f.exec
      BY <1>1, <2>1 DEF Frame
    <2>3. Shape(g) /\ DebitFor(g, debits'[f.job]) /\ (Early(g) => Early(f))
      BY <1>1, <1>4, <2>2 DEF Shape, DebitFor, Early, Working, After, Completing
    <2>4. RowFor(g, row[f.job])
      BY <1>1, <1>4, <2>2 DEF RowFor, Early, Working, After
    <2> QED BY <1>1, <1>3, <2>2, <2>3, <2>4, ReadsPaid
  <1>5. CASE f.op \notin {"execute", "sweep"}
    <2>1. \/ g = Idle
          \/ bill = "ok" /\ g.pc \in {"write", "cleanup"} /\ g.op = f.op /\ g.job = f.job /\ f.op \in Completing
      BY <1>1, <1>2, <1>5 DEF Returned, Frame, Completing
    <2>2. CASE g = Idle
      BY <1>1, <1>3, <2>2, IdleIs, ReadsPaid
    <2>3. CASE bill = "ok" /\ g.pc \in {"write", "cleanup"} /\ g.op = f.op /\ g.job = f.job /\ f.op \in Completing
      <3>1. Shape(g) /\ DebitFor(g, debits'[f.job]) /\ ~Early(g) /\ ~Working(g) /\ ~After(g)
        BY <1>1, <1>5, <2>3 DEF Shape, DebitFor, Early, Working, After, Completing
      <3> QED BY <1>1, <1>3, <2>3, <3>1, BystanderRow, ReadsPaid
    <2> QED BY <2>1, <2>2, <2>3
  <1> QED BY <1>4, <1>5

\* finalize_job_billing goes on.
LEMMA GoesOnPaid ==
    ASSUME MoneyInv, PaidInv, DebitsKept, NEW p \in Procs, proc[p].pc \in {"read", "debit"}, row' = row,
           NEW pc \in {"debit", "meter"}, Goto(p, pc)
    PROVE  PaidInv'
  <1> DEFINE f == proc[p]
  <1>1. f \in Frame /\ f.job \in Jobs /\ Shape(f) /\ RowFor(f, row[f.job]) /\ f.op # "none" /\ f.pc # "idle" /\ pc \in Pcs
    BY AtWork DEF Pcs
  <1>2. PICK g \in Frame : g = [f EXCEPT !.pc = pc]
    BY <1>1, NextFrame
  <1>3. g.pc = pc /\ g.op = f.op /\ g.job = f.job /\ g.dur = f.dur /\ g.st = f.st /\ g.exec = f.exec
    BY <1>1, <1>2, NextFrame
  <1>4. proc' = [proc EXCEPT ![p] = g]
    BY <1>2 DEF Goto
  <1>5. Shape(g) /\ DebitFor(g, debits'[f.job]) /\ (Early(g) => Early(f))
    BY <1>1, <1>3 DEF Shape, DebitFor, Early, Working, After, Completing
  <1>6. RowFor(g, row[f.job])
    BY <1>1, <1>3 DEF RowFor, Early, Working, After
  <1> QED BY <1>1, <1>3, <1>4, <1>5, <1>6, ReadsPaid

LEMMA FinalizePaid ==
    ASSUME MoneyInv, PaidInv, NEW p \in Procs,
           \/ FinalizeRead(p) \/ FinalizeDebit(p) \/ FinalizeMeter(p)
           \/ FinalizeReadUnavailable(p) \/ FinalizeDebitUnavailable(p)
           \/ FinalizeMeterUnavailable(p)
    PROVE  PaidInv'
  <1>0. /\ proc[p].pc \in {"read", "debit", "meter"} /\ row' = row /\ LedgerGood
        /\ proc[p].job \in Jobs /\ Cost(p) \in Nat /\ Cost(p) = CostOf[proc[p].dur] /\ proc[p].kind \in Kinds
    BY AtWork, MoneyInvParts DEF FinalizeRead, FinalizeDebit, FinalizeMeter, FinalizeReadUnavailable,
                  FinalizeDebitUnavailable, FinalizeMeterUnavailable, Cost, Frame
  <1>2. "skip" \in Billing \ {"none"} /\ "pg_error" \in Billing \ {"none"} /\ "ok" \in Billing \ {"none"}
    BY DEF Billing
  <1>3. CASE FinalizeRead(p) \/ FinalizeReadUnavailable(p)
    <2>1. DebitsKept /\ proc[p].pc = "read"
      BY <1>3, SameLedger DEF FinalizeRead, FinalizeReadUnavailable
    <2>2. \/ Return(p, "skip") /\ (row[proc[p].job].status \in Terminal \/ CostOf[proc[p].dur] = 0)
          \/ Return(p, "pg_error") \/ Goto(p, "debit")
      BY <1>0, <1>3 DEF FinalizeRead, FinalizeReadUnavailable
    <2> QED BY <1>0, <1>2, <2>1, <2>2, ReturnPaid, GoesOnPaid
  <1>4. CASE FinalizeDebit(p) \/ FinalizeDebitUnavailable(p)
    <2>1. PICK answer \in {"debited", "no_funds", "mismatch", "pg_error"} :
             /\ \/ DebitIfFunds(proc[p].job, Cost(p), answer)
                \/ DebitUnavailable(proc[p].job, Cost(p), answer)
             /\ AfterDebit(p, answer)
      BY <1>4 DEF FinalizeDebit, FinalizeDebitUnavailable
    <2>2. DebitsKept /\ (answer = "debited" => debits'[proc[p].job] = <<Cost(p)>>)
      BY <1>0, <2>1, DebitAnswer
    <2>3. answer = "mismatch" => debits'[proc[p].job] # <<>>
      BY <2>1 DEF DebitIfFunds, DebitUnavailable, NoDebitRow, IdemLookup, ledgerVars
    <2>4. proc[p].pc = "debit"
      BY <1>4 DEF FinalizeDebit, FinalizeDebitUnavailable
    <2>5. CASE answer = "debited"
      BY <1>0, <2>1, <2>2, <2>4, <2>5, GoesOnPaid DEF AfterDebit
    <2>6. CASE answer # "debited"
      <3>1. answer \in Billing \ {"none"} /\ answer # "ok" /\ answer # "skip" /\ Return(p, answer)
        BY <2>1, <2>6 DEF Billing, AfterDebit
      <3> QED BY <1>0, <2>2, <2>3, <3>1, ReturnPaid
    <2> QED BY <2>5, <2>6
  <1>5. CASE FinalizeMeter(p) \/ FinalizeMeterUnavailable(p)
    <2>1. debits[proc[p].job] = <<Cost(p)>>
      BY <1>0, <1>5 DEF MoneyInv, FrameInv, Debited, FinalizeMeter, FinalizeMeterUnavailable
    <2>2. debits' = debits
      BY <1>5 DEF FinalizeMeter, FinalizeMeterUnavailable, RecordUsage, ledgerVars
    <2>3. DebitsKept /\ debits'[proc[p].job] # <<>>
      BY <1>0, <2>1, <2>2, OneElement DEF DebitsKept
    <2>4. Return(p, "ok") \/ Return(p, "pg_error")
      BY <1>5 DEF FinalizeMeter, FinalizeMeterUnavailable
    <2> QED BY <1>0, <1>2, <2>3, <2>4, ReturnPaid
  <1> QED BY <1>3, <1>4, <1>5


-----------------------------------------------------------------------------
\* A slot that ends and leaves the row as it is.
LEMMA LeavesPaid ==
    ASSUME MoneyInv, PaidInv, DebitsKept, NEW p \in Procs, proc[p].pc # "idle", Finish(p), row' = row
    PROVE  PaidInv'
  <1>1. PICK j \in Jobs : j = proc[p].job
    BY AtWork
  <1>2. row[j] \in Row /\ row' = [row EXCEPT ![j] = row[j]]
    BY SameRow
  <1>3. OthersGoOn(p, j, row[j])
    BY TameSame, TameForOthers
  <1>4. PaidRow(row[j], debits'[j])
    BY <1>1, AtWork, PaidKept
  <1> QED BY <1>2, <1>3, <1>4, EndsPaid

\* What the task writes when it ends the job.
LEMMA FinalRowIs ==
    ASSUME MoneyInv, NEW p \in Procs, At(p, "write", "execute"), proc[p].job \in Jobs
    PROVE  /\ FinalRow(p).status = WriteStatus(proc[p].st, proc[p].bill) /\ FinalRow(p).dur = proc[p].dur
           /\ proc[p].bill = "ok" => FinalRow(p).cost = Cost(p)
  <1> DEFINE f == proc[p]
             st == WriteStatus(f.st, f.bill)
  <1>1. row[f.job] \in Row /\ f \in Frame
    BY DEF MoneyInv, TypeOK
  <1>2. st \in Statuses
    <2>1. f.st \in Statuses
      BY <1>1 DEF Frame
    <2>2. st \in {f.st, "error", "billing_pending"}
      BY DEF WriteStatus
    <2> QED BY <2>1, <2>2 DEF Statuses, Blocked
  <1>3. PICK a \in Row : a = WithStatus(row[f.job], st)
    BY <1>1, <1>2, RowTypes
  <1>4. a.status = st
    BY <1>1, <1>3, WrittenFields
  <1>5. \E m \in Marks, e \in Execs : WriteError(a, f.st, f.bill) = WithError(a, m, e, 0)
    <2>1. ExecOf(f.st) \in Execs
      BY DEF ExecOf, Execs
    <2> QED BY <2>1 DEF WriteError, Marks, Execs
  <1>6. PICK m \in Marks, e \in Execs : WriteError(a, f.st, f.bill) = WithError(a, m, e, 0)
    BY <1>5
  <1>7. PICK b \in Row : b = WithError(a, m, e, 0)
    BY <1>6, ErrorRow
  <1>8. b.status = st
    BY <1>4, <1>7, WrittenFields
  <1>9. FinalRow(p) = WithBill(b, f.dur, IF f.bill = "ok" THEN Cost(p) ELSE 0)
    BY <1>3, <1>6, <1>7 DEF FinalRow
  <1> HIDE DEF st
  <1>10. FinalRow(p).status = st /\ FinalRow(p).dur = f.dur /\ (f.bill = "ok" => FinalRow(p).cost = Cost(p))
    BY <1>8, <1>9, WrittenFields
  <1> QED BY <1>10 DEF st

LEMMA TaskWritePaid ==
    ASSUME MoneyInv, PaidInv, NEW p \in Procs, TaskWrite(p)
    PROVE  PaidInv'
  <1> DEFINE f == proc[p]
  <1>1. /\ f.pc = "write" /\ f.op = "execute" /\ f.pc # "idle" /\ Early(f) /\ Working(f)
        /\ At(p, "write", "execute") /\ DebitsKept /\ debits' = debits
    BY SameLedger DEF TaskWrite, At, Early, Working
  <1>2. /\ f \in Frame /\ Shape(f) /\ Placed(p, f) /\ f.job \in Jobs /\ row[f.job] \in Row
        /\ RowFor(f, row[f.job]) /\ DebitFor(f, debits[f.job])
    BY <1>1, AtWork
  <1>3. PICK pc \in {"check", "cleanup"} : Goto(p, pc) /\ (row[f.job].status \notin Blocked => pc = "cleanup")
    BY DEF TaskWrite
  <1>4. "check" \in Pcs /\ "cleanup" \in Pcs
    BY DEF Pcs
  <1>5. PICK g \in Frame : g = [f EXCEPT !.pc = pc]
    BY <1>2, <1>3, <1>4, NextFrame
  <1>6. g.pc = pc /\ g.op = "execute" /\ g.job = f.job
    BY <1>1, <1>2, <1>4, <1>5, NextFrame
  <1>7. proc' = [proc EXCEPT ![p] = g]
    BY <1>3, <1>5 DEF Goto
  <1>8. Shape(g) /\ Placed(p, g) /\ DebitFor(g, debits'[f.job]) /\ ~Early(g) /\ MayBecome(p, g, f.job)
    BY <1>1, <1>2, <1>3, <1>6 DEF Shape, Placed, DebitFor, Early, Working, After, Completing, MayBecome
  <1>9. CASE row[f.job].status \in Blocked
    <2>1. row' = row
      BY <1>2, <1>9, Conditional, SameRow DEF TaskWrite, MoneyInv, TypeOK
    <2>2. RowFor(g, row[f.job])
      BY <1>1, <1>2, <1>3, <1>6, <1>8 DEF RowFor, Working, After
    <2> QED BY <1>1, <1>2, <1>6, <1>7, <1>8, <2>1, <2>2, ReadsPaid
  <1>10. CASE row[f.job].status \notin Blocked
    <2>1. PICK r \in Row : r = FinalRow(p)
      BY <1>1, FinalRowGood
    <2>2. r.status = WriteStatus(f.st, f.bill) /\ r.dur = f.dur
      BY <1>1, <1>2, <2>1, FinalRowIs
    <2>3. row' = [row EXCEPT ![f.job] = r]
      BY <1>2, <1>10, <2>1, Conditional DEF TaskWrite
    <2>4. f.st \in Raw \cup {"timeout"} /\ f.bill # "none" /\ f.bill \in Billing
      BY <1>1, <1>2 DEF Shape, Frame
    <2>5. r.status \notin {"absent", "queued"}
      BY <2>2, <2>4 DEF WriteStatus, Raw
    <2>6. RowFor(g, r)
      BY <1>3, <1>6, <1>8, <1>10, <2>5 DEF RowFor, Working, After
    <2>7. PaidRow(r, debits'[f.job])
      <3> SUFFICES ASSUME r.status = "completed" PROVE debits'[f.job] # <<>> \/ CostOf[r.dur] = 0
        BY <2>5 DEF PaidRow
      <3>1. f.bill \in {"ok", "skip"}
        BY <2>2, <2>4 DEF WriteStatus, Billing
      <3>2. f.bill = "ok" => debits'[f.job] # <<>>
        BY <1>1, <1>2 DEF DebitFor
      <3>3. f.bill = "skip" => CostOf[r.dur] = 0
        BY <1>1, <1>2, <1>10, <2>2 DEF RowFor, Blocked
      <3> QED BY <3>1, <3>2, <3>3
    <2>8. OthersGoOn(p, f.job, r)
      BY <1>1, EarlyIsAlone
    <2> QED BY <1>1, <1>2, <1>6, <1>7, <1>8, <2>3, <2>6, <2>7, <2>8, PaidStep
  <1> QED BY <1>9, <1>10

\* After its write the task looks whether it owes a refund, and pays it.
LEMMA TaskRefundPaid ==
    ASSUME MoneyInv, PaidInv, NEW p \in Procs, TaskCheck(p) \/ TaskRefund(p) \/ TaskRefundUnavailable(p)
    PROVE  PaidInv'
  <1> DEFINE f == proc[p]
  <1>1. /\ f.pc \in {"check", "refund"} /\ f.op = "execute" /\ f.pc # "idle" /\ row' = row /\ debits' = debits
    BY DEF TaskCheck, TaskRefund, TaskRefundUnavailable, At, Refund, ledgerVars
  <1>2. DebitsKept /\ f \in Frame /\ f.job \in Jobs /\ RowFor(f, row[f.job])
    BY <1>1, AtWork DEF DebitsKept
  <1>3. PICK pc \in {"refund", "mark", "cleanup"}, n \in 0..3 :
           /\ proc' = [proc EXCEPT ![p] = Attempt(f, n, pc)]
           /\ pc \in {"refund", "mark"} => row[f.job].status \in Terminal
    <2>1. CASE TaskCheck(p)
      <3>1. proc' = [proc EXCEPT ![p] = Attempt(f, 0, IF row[f.job].status = "cancelled" THEN "refund" ELSE "cleanup")]
        BY <2>1 DEF TaskCheck, Attempt
      <3>2. "cancelled" \in Terminal /\ 0 \in 0..3
        BY DEF Terminal
      <3> QED BY <3>1, <3>2
    <2>2. CASE TaskRefund(p)
      <3>1. f = [f EXCEPT !.tries = f.tries] /\ f.tries \in 0..3
        BY <1>2 DEF Frame
      <3>2. [f EXCEPT !.pc = "cleanup"] = Attempt(f, f.tries, "cleanup")
        BY <1>2, <3>1 DEF Attempt, Frame
      <3>3. proc' = [proc EXCEPT ![p] = Attempt(f, f.tries, "cleanup")]
        BY <2>2, <3>2 DEF TaskRefund, Goto
      <3> QED BY <3>1, <3>3
    <2>3. CASE TaskRefundUnavailable(p)
      <3>1. proc' = [proc EXCEPT ![p] = Attempt(f, f.tries + 1, IF f.tries = 2 THEN "mark" ELSE "refund")]
        BY <2>3 DEF TaskRefundUnavailable, Attempt
      <3>2. f.tries + 1 \in 0..3 /\ f.pc = "refund"
        BY <1>2, <2>3 DEF TaskRefundUnavailable, At, MoneyInv, FrameInv, Frame
      <3>3. row[f.job].status \in Terminal
        BY <1>1, <1>2, <3>2 DEF RowFor, Working
      <3> QED BY <3>1, <3>2, <3>3
    <2> QED BY <2>1, <2>2, <2>3
  <1>4. PICK g \in Frame : g = Attempt(f, n, pc) /\ g.pc = pc /\ g.op = "execute" /\ g.job = f.job
    <2>1. pc \in Pcs /\ f \in Frame /\ f.op = "execute" /\ n \in 0..3
      BY <1>1, <1>2, <1>3 DEF Pcs
    <2>2. /\ Attempt(f, n, pc) \in Frame /\ Attempt(f, n, pc).pc = pc
          /\ Attempt(f, n, pc).op = "execute" /\ Attempt(f, n, pc).job = f.job
      BY ONLY <2>1 DEF Attempt, Frame
    <2> QED BY <2>2
  <1>5. Shape(g) /\ DebitFor(g, debits'[f.job]) /\ ~Early(g)
    BY <1>2, <1>3, <1>4 DEF Shape, DebitFor, Early, Working, After, Completing
  <1>6. RowFor(g, row[f.job])
    BY <1>1, <1>2, <1>3, <1>4, <1>5 DEF RowFor, Working, After
  <1> QED BY <1>1, <1>2, <1>3, <1>4, <1>5, <1>6, ReadsPaid

LEMMA TaskMarkPaid ==
    ASSUME MoneyInv, PaidInv, NEW p \in Procs, TaskMark(p)
    PROVE  PaidInv'
  <1> DEFINE f == proc[p]
  <1>1. f.pc = "mark" /\ f.op = "execute" /\ f.pc # "idle" /\ Working(f) /\ DebitsKept
    BY SameLedger DEF TaskMark, At, Working
  <1>2. /\ f \in Frame /\ Placed(p, f) /\ f.job \in Jobs /\ row[f.job] \in Row /\ Cost(p) \in Nat
        /\ row[f.job].status \in Terminal
    BY <1>1, AtWork DEF RowFor
  <1>3. "refund_pending" \in Marks /\ "none" \in Execs /\ "cleanup" \in Pcs
    BY DEF Marks, Execs, Pcs
  <1>4. PICK r \in Row : r = WithError(row[f.job], "refund_pending", "none", Cost(p))
    BY <1>2, <1>3, ErrorRow
  <1>5. r.status = row[f.job].status /\ r.dur = row[f.job].dur
    BY <1>2, <1>4, WrittenFields
  <1>6. PICK g \in Frame : g = [f EXCEPT !.pc = "cleanup"]
    BY <1>2, <1>3, NextFrame
  <1>7. g.pc = "cleanup" /\ g.op = "execute" /\ g.job = f.job
    BY <1>1, <1>2, <1>3, <1>6, NextFrame
  <1>8. row' = [row EXCEPT ![f.job] = r] /\ proc' = [proc EXCEPT ![p] = g]
    BY <1>4, <1>6 DEF TaskMark, Update, Goto
  <1>9. Shape(g) /\ Placed(p, g) /\ DebitFor(g, debits'[f.job]) /\ ~Early(g) /\ MayBecome(p, g, f.job)
    BY <1>1, <1>2, <1>7 DEF Shape, Placed, DebitFor, Early, Working, After, Completing, MayBecome
  <1>10. RowFor(g, r) /\ PaidRow(r, debits'[f.job])
    <2>1. PaidRow(row[f.job], debits'[f.job])
      BY <1>1, <1>2, AtWork, PaidKept
    <2> QED BY <1>2, <1>5, <1>7, <1>9, <2>1 DEF RowFor, PaidRow, Working, After, Terminal
  <1>11. OthersGoOn(p, f.job, r)
    <2> SUFFICES ASSUME NEW q \in Procs, q # p, proc[q].op # "none", proc[q].job = f.job PROVE RowFor(proc[q], r)
      BY DEF OthersGoOn
    <2>1. RowFor(proc[q], row[f.job]) /\ ~Working(proc[q]) /\ ~Early(proc[q])
      BY <1>1 DEF PaidInv, SlotInv, OneTask, Early
    <2> QED BY <1>2, <1>5, <2>1 DEF RowFor, Terminal
  <1> QED BY <1>1, <1>2, <1>7, <1>8, <1>9, <1>10, <1>11, PaidStep

LEMMA InterruptedPaid ==
    ASSUME MoneyInv, PaidInv, NEW p \in Procs, TaskCleanup(p) \/ DrainInflight(p) \/ Crash(p)
    PROVE  PaidInv'
  <1>1. DebitsKept /\ debits' = debits /\ Finish(p)
    BY SameLedger DEF TaskCleanup, DrainInflight, Crash
  <1>2. CASE TaskCleanup(p)
    BY <1>1, <1>2, LeavesPaid DEF TaskCleanup, At
  <1>3. CASE Crash(p)
    <2>1. proc[p] # Idle /\ row' = row
      BY <1>3 DEF Crash
    <2>2. Shape(proc[p])
      BY DEF PaidInv, SlotInv
    <2>3. proc[p].pc # "idle"
      BY <2>1, <2>2 DEF Shape
    <2> QED BY <1>1, <2>1, <2>3, LeavesPaid
  <1>4. CASE DrainInflight(p)
    <2>1. proc[p].pc # "idle"
      BY <1>4 DEF DrainInflight, Awaiting
    <2>2. PICK j \in Jobs : j = proc[p].job
      BY <2>1, AtWork
    <2>3. row[j] \in Row /\ PaidRow(row[j], debits'[j])
      BY <1>1, <2>1, <2>2, AtWork
    <2>4. "cancelled" \in Statuses /\ "text" \in Marks /\ "none" \in Execs
      BY DEF Statuses, Blocked, Terminal, Marks, Execs
    <2>5. PICK a \in Row : a = WithStatus(row[j], "cancelled")
      BY <2>3, <2>4, RowTypes
    <2>6. PICK b \in Row : b = WithError(a, "text", "none", 0)
      BY <2>4, ErrorRow
    <2>7. b.status = "cancelled" /\ b.dur = row[j].dur /\ b.mark = "text"
      BY <2>3, <2>5, <2>6, WrittenFields
    <2>8. PICK r \in Row : r = IF row[j].status \in Blocked THEN row[j] ELSE b
      BY <2>3
    <2>9. row' = [row EXCEPT ![j] = r]
      BY <1>4, <2>2, <2>5, <2>6, <2>8, Conditional DEF DrainInflight
    <2>10. Tame(row[j], r) /\ PaidRow(r, debits'[j])
      BY <2>3, <2>7, <2>8, TameSame DEF Tame, PaidRow, Terminal
    <2> QED BY <1>1, <2>9, <2>10, TameForOthers, EndsPaid
  <1> QED BY <1>2, <1>3, <1>4


-----------------------------------------------------------------------------
\* How a sweeper starts on a job.
LEMMA PickedFrame ==
    ASSUME MoneyInv, NEW p \in Procs, NEW j \in Jobs, SweepPick(p, j) \/ RefundSweepPick(p, j)
    PROVE  \E g \in Frame :
           /\ proc' = [proc EXCEPT ![p] = g] /\ g.job = j
           /\ \/ g.pc = "read" /\ g.op = "sweep" /\ g.dur = row[j].dur /\ g.exec = row[j].exec
                 /\ row[j].status = "billing_pending"
              \/ g.pc = "refund" /\ g.op = "refund_sweep" /\ row[j].status = "cancelled"
  <1>0. row[j] \in Row
    BY DEF MoneyInv, TypeOK
  <1>1. Idle \in Frame
    BY IdleFrame
  <1>2. CASE SweepPick(p, j)
    <2> DEFINE g == [Idle EXCEPT !.pc = "read", !.op = "sweep", !.job = j,
                       !.exec = row[j].exec, !.mark = row[j].mark, !.dur = row[j].dur,
                       !.kind = row[j].kind]
    <2>1. g \in Frame /\ g.job = j /\ g.pc = "read" /\ g.op = "sweep" /\ g.dur = row[j].dur /\ g.exec = row[j].exec
      BY <1>0, <1>1 DEF Frame, Row, Pcs, Ops
    <2>2. proc' = [proc EXCEPT ![p] = g] /\ row[j].status = "billing_pending"
      BY <1>2 DEF SweepPick
    <2> HIDE DEF g
    <2> QED BY <2>1, <2>2
  <1>3. CASE RefundSweepPick(p, j)
    <2> DEFINE g == [Idle EXCEPT !.pc = "refund", !.op = "refund_sweep", !.job = j, !.owed = row[j].owed]
    <2>1. g \in Frame /\ g.job = j /\ g.pc = "refund" /\ g.op = "refund_sweep"
      BY <1>0, <1>1 DEF Frame, Row, Pcs, Ops
    <2>2. proc' = [proc EXCEPT ![p] = g] /\ row[j].status = "cancelled"
      BY <1>3 DEF RefundSweepPick
    <2> HIDE DEF g
    <2> QED BY <2>1, <2>2
  <1> QED BY <1>2, <1>3

LEMMA PickedPaid ==
    ASSUME MoneyInv, PaidInv, NEW p \in Procs, NEW j \in Jobs, SweepPick(p, j) \/ RefundSweepPick(p, j)
    PROVE  PaidInv'
  <1>1. DebitsKept /\ debits' = debits /\ row' = row /\ p \in Sweepers
    BY SameLedger DEF SweepPick, RefundSweepPick
  <1>2. row[j] \in Row /\ row' = [row EXCEPT ![j] = row[j]] /\ OthersGoOn(p, j, row[j]) /\ PaidRow(row[j], debits'[j])
    BY <1>1, SameRow, TameSame, TameForOthers DEF PaidInv
  <1>3. \A q \in Procs : Early(proc[q]) => proc[q].job # j
    BY DEF SweepPick, RefundSweepPick, PaidInv, SlotInv, RowFor, Early, Working
  <1>4. PICK g \in Frame :
           /\ proc' = [proc EXCEPT ![p] = g] /\ g.job = j
           /\ \/ g.pc = "read" /\ g.op = "sweep" /\ g.dur = row[j].dur /\ g.exec = row[j].exec
                 /\ row[j].status = "billing_pending"
              \/ g.pc = "refund" /\ g.op = "refund_sweep" /\ row[j].status = "cancelled"
    BY PickedFrame
  <1>5. Shape(g) /\ Placed(p, g) /\ DebitFor(g, debits'[j]) /\ ~Early(g) /\ ~Working(g)
    BY <1>1, <1>4 DEF Shape, Placed, DebitFor, Early, Working, After, Completing
  <1>6. MayBecome(p, g, j)
    BY <1>3, <1>5 DEF MayBecome
  <1>7. RowFor(g, row[j])
    BY <1>4, <1>5 DEF RowFor, After, Terminal
  <1> QED BY <1>1, <1>2, <1>4, <1>5, <1>6, <1>7, PaidStep

\* What the billing sweeper leaves in the row.
LEMMA SweepWrites ==
    ASSUME MoneyInv, PaidInv, NEW p \in Procs, SweepWrite(p), NEW j \in Jobs, j = proc[p].job
    PROVE  \E r \in Row :
              /\ row' = [row EXCEPT ![j] = r] /\ r.dur = row[j].dur
              /\ \/ r = row[j]
                 \/ r.status = row[j].status /\ r.exec = proc[p].exec /\ r.mark = "no_funds"
                 \/ /\ row[j].status \notin Terminal
                    /\ proc[p].bill \in {"ok", "skip"} /\ r.status = Restored(proc[p], "completed") /\ r.mark = "none"
                 \/ /\ row[j].status \notin Terminal
                    /\ proc[p].bill = "mismatch" /\ r.status = Restored(proc[p], "error") /\ r.mark = "mismatch"
  <1> DEFINE f == proc[p]
             Closed(st, mark, cost) ==
                   WithBill(WithError(WithStatus(row[j], st), mark, "none", 0),
                            row[j].dur, cost)
  <1>1. f.pc # "idle"
    BY DEF SweepWrite, At
  <1>2. row[j] \in Row /\ f \in Frame /\ Cost(p) \in Nat
    BY <1>1, AtWork
  <1>3. f.exec \in Execs /\ row[j].dur \in Durations /\ row[j].cost \in Nat
    BY <1>2 DEF Frame, Row
  <1>4. Restored(f, "completed") \in Statuses /\ Restored(f, "error") \in Statuses
    BY <1>3 DEF Restored, Execs, Statuses, Blocked, Terminal
  <1>5. "none" \in Marks /\ "mismatch" \in Marks /\ "no_funds" \in Marks /\ "none" \in Execs
    BY DEF Marks, Execs
  <1>6. ASSUME NEW st \in Statuses, NEW m \in Marks, NEW c \in Nat
        PROVE  Closed(st, m, c) \in Row /\ Closed(st, m, c).status = st /\ Closed(st, m, c).mark = m /\ Closed(st, m, c).dur = row[j].dur
    <2>1. PICK a \in Row : a = WithStatus(row[j], st)
      BY <1>2, RowTypes
    <2>2. PICK b \in Row : b = WithError(a, m, "none", 0)
      BY <1>5, ErrorRow
    <2>3. b.status = st /\ b.mark = m
      BY <1>2, <2>1, <2>2, WrittenFields
    <2>4. WithBill(b, row[j].dur, c) \in Row
      BY <1>3, BillRow
    <2> QED BY <2>1, <2>2, <2>3, <2>4, WrittenFields
  <1>7. \/ f.bill = "ok" /\ UpdateIfNotIn(j, Terminal, Closed(Restored(f, "completed"), "none", Cost(p)))
        \/ f.bill = "skip" /\ UpdateIfNotIn(j, Terminal, Closed(Restored(f, "completed"), "none", row[j].cost))
        \/ f.bill = "mismatch" /\ UpdateIfNotIn(j, Terminal, Closed(Restored(f, "error"), "mismatch", row[j].cost))
        \/ Update(j, WithError(row[j], "no_funds", f.exec, 0))
        \/ UNCHANGED row
    BY DEF SweepWrite
  <1> HIDE DEF Closed
  <1>8. ASSUME NEW st \in Statuses, NEW m \in Marks, NEW c \in Nat,
               UpdateIfNotIn(j, Terminal, Closed(st, m, c))
        PROVE  \E r \in Row : /\ row' = [row EXCEPT ![j] = r] /\ r.dur = row[j].dur
                              /\ r = row[j] \/ (row[j].status \notin Terminal /\ r.status = st /\ r.mark = m)
    <2>1. row' = [row EXCEPT ![j] = IF row[j].status \in Terminal THEN row[j] ELSE Closed(st, m, c)]
      BY <1>8, Conditional
    <2>2. CASE row[j].status \in Terminal
      BY <1>2, <2>1, <2>2
    <2>3. CASE row[j].status \notin Terminal
      <3>1. PICK r \in Row : r = Closed(st, m, c)
        BY <1>6
      <3>2. r.status = st /\ r.mark = m /\ r.dur = row[j].dur
        BY <1>6, <3>1
      <3> QED BY <1>8, <2>1, <2>3, <3>1, <3>2
    <2> QED BY <2>2, <2>3
  <1>9. CASE f.bill = "ok" /\ UpdateIfNotIn(j, Terminal, Closed(Restored(f, "completed"), "none", Cost(p)))
    <2>1. PICK r \in Row :
             /\ row' = [row EXCEPT ![j] = r] /\ r.dur = row[j].dur
             /\ r = row[j] \/ (row[j].status \notin Terminal /\ r.status = Restored(f, "completed") /\ r.mark = "none")
      BY <1>2, <1>4, <1>5, <1>8, <1>9
    <2> QED BY <1>9, <2>1
  <1>10. CASE f.bill = "skip" /\ UpdateIfNotIn(j, Terminal, Closed(Restored(f, "completed"), "none", row[j].cost))
    BY <1>3, <1>4, <1>5, <1>8, <1>10
  <1>11. CASE f.bill = "mismatch" /\ UpdateIfNotIn(j, Terminal, Closed(Restored(f, "error"), "mismatch", row[j].cost))
    <2>1. PICK r \in Row :
             /\ row' = [row EXCEPT ![j] = r] /\ r.dur = row[j].dur
             /\ r = row[j] \/ (row[j].status \notin Terminal /\ r.status = Restored(f, "error") /\ r.mark = "mismatch")
      BY <1>3, <1>4, <1>5, <1>8, <1>11
    <2> QED BY <1>11, <2>1
  <1>12. CASE Update(j, WithError(row[j], "no_funds", f.exec, 0))
    <2>1. PICK r \in Row : r = WithError(row[j], "no_funds", f.exec, 0)
      BY <1>2, <1>3, <1>5, ErrorRow
    <2>2. r.status = row[j].status /\ r.dur = row[j].dur /\ r.exec = f.exec /\ r.mark = "no_funds"
      BY <1>2, <2>1, WrittenFields
    <2> QED BY <1>12, <2>1, <2>2 DEF Update
  <1>13. CASE UNCHANGED row
    BY <1>2, <1>13, SameRow
  <1> QED BY <1>7, <1>9, <1>10, <1>11, <1>12, <1>13

LEMMA SweepWritePaid ==
    ASSUME MoneyInv, PaidInv, NEW p \in Procs, SweepWrite(p)
    PROVE  PaidInv'
  <1> DEFINE f == proc[p]
  <1>1. f.pc = "write" /\ f.op = "sweep" /\ f.pc # "idle" /\ After(f) /\ DebitsKept /\ debits' = debits /\ Finish(p)
    BY SameLedger DEF SweepWrite, At, After
  <1>2. PICK j \in Jobs : j = f.job
    BY <1>1, AtWork
  <1>3. /\ row[j] \in Row /\ f \in Frame /\ RowFor(f, row[j]) /\ DebitFor(f, debits[j])
        /\ PaidRow(row[j], debits[j])
    BY <1>1, <1>2, AtWork
  <1>4. PICK r \in Row :
              /\ row' = [row EXCEPT ![j] = r] /\ r.dur = row[j].dur
              /\ \/ r = row[j]
                 \/ r.status = row[j].status /\ r.exec = f.exec /\ r.mark = "no_funds"
                 \/ /\ row[j].status \notin Terminal
                    /\ f.bill \in {"ok", "skip"} /\ r.status = Restored(f, "completed") /\ r.mark = "none"
                 \/ /\ row[j].status \notin Terminal
                    /\ f.bill = "mismatch" /\ r.status = Restored(f, "error") /\ r.mark = "mismatch"
    BY <1>2, SweepWrites
  <1>5. f.exec \in {"none", "timeout", "failed"}
    BY <1>3 DEF Frame, Execs
  <1>6. row[j].dur = f.dur /\ (row[j].status = "billing_pending" => row[j].exec = f.exec)
        /\ (f.bill = "skip" => row[j].status \in Terminal \/ CostOf[f.dur] = 0)
        /\ (f.bill \in {"ok", "mismatch"} => debits[j] # <<>>)
        /\ row[j].status \notin {"absent", "queued"}
    BY <1>1, <1>3 DEF RowFor, DebitFor
  <1>7. Tame(row[j], r) /\ PaidRow(r, debits'[j])
    <2>1. CASE r = row[j]
      BY <1>1, <1>3, <2>1, TameSame
    <2>2. CASE r.status = row[j].status /\ r.exec = f.exec /\ r.mark = "no_funds"
      BY <1>1, <1>3, <1>4, <1>6, <2>2 DEF Tame, PaidRow
    <2>3. CASE /\ row[j].status \notin Terminal /\ f.bill \in {"ok", "skip", "mismatch"}
               /\ r.status \in {"completed", "error", "timeout", "failed"} /\ r.mark # "refund_pending"
      BY <1>1, <1>4, <1>6, <2>3 DEF Tame, PaidRow
    <2> QED BY <1>4, <1>5, <2>1, <2>2, <2>3 DEF Restored
  <1> QED BY <1>1, <1>4, <1>7, TameForOthers, EndsPaid

LEMMA RefundSweepPaid ==
    ASSUME MoneyInv, PaidInv, NEW p \in Procs,
           RefundSweepPay(p) \/ RefundSweepUnavailable(p) \/ RefundSweepClear(p)
    PROVE  PaidInv'
  <1> DEFINE f == proc[p]
  <1>1. f.pc \in {"refund", "clear"} /\ f.op = "refund_sweep" /\ f.pc # "idle" /\ debits' = debits
    BY DEF RefundSweepPay, RefundSweepUnavailable, RefundSweepClear, At, Refund, ledgerVars
  <1>2. /\ DebitsKept /\ f \in Frame /\ f.job \in Jobs /\ RowFor(f, row[f.job]) /\ row[f.job] \in Row
        /\ PaidRow(row[f.job], debits'[f.job])
    BY <1>1, AtWork DEF DebitsKept
  <1>3. CASE RefundSweepPay(p)
    <2>1. "clear" \in Pcs /\ row' = row /\ Goto(p, "clear")
      BY <1>3 DEF Pcs, RefundSweepPay
    <2>2. PICK g \in Frame : g = [f EXCEPT !.pc = "clear"]
      BY <1>2, <2>1, NextFrame
    <2>3. g.pc = "clear" /\ g.op = "refund_sweep" /\ g.job = f.job
      BY <1>1, <1>2, <2>1, <2>2, NextFrame
    <2>4. proc' = [proc EXCEPT ![p] = g]
      BY <2>1, <2>2 DEF Goto
    <2>5. Shape(g) /\ DebitFor(g, debits'[f.job]) /\ ~Early(g)
      BY <1>2, <2>3 DEF Shape, DebitFor, Early, Working, After, Completing
    <2>6. RowFor(g, row[f.job])
      BY <1>1, <1>2, <2>3, <2>5 DEF RowFor, Working, After
    <2> QED BY <1>1, <1>2, <2>1, <2>3, <2>4, <2>5, <2>6, ReadsPaid
  <1>4. CASE RefundSweepUnavailable(p)
    BY <1>1, <1>2, <1>4, LeavesPaid DEF RefundSweepUnavailable
  <1>5. CASE RefundSweepClear(p)
    <2>1. "none" \in Marks /\ "none" \in Execs
      BY DEF Marks, Execs
    <2>2. PICK r \in Row : r = WithError(row[f.job], "none", "none", 0)
      BY <1>2, <2>1, ErrorRow
    <2>3. r.status = row[f.job].status /\ r.dur = row[f.job].dur /\ r.mark = "none"
      BY <1>2, <2>2, WrittenFields
    <2>4. row' = [row EXCEPT ![f.job] = r] /\ Finish(p)
      BY <1>5, <2>2 DEF RefundSweepClear, Update
    <2>5. row[f.job].status \in Terminal
      BY <1>1, <1>2 DEF RowFor
    <2>6. Tame(row[f.job], r) /\ PaidRow(r, debits'[f.job])
      BY <1>2, <2>3, <2>5 DEF Tame, PaidRow, Terminal
    <2> QED BY <1>2, <2>4, <2>6, TameForOthers, EndsPaid
  <1> QED BY <1>3, <1>4, <1>5

-----------------------------------------------------------------------------
LEMMA AskPaid ==
    ASSUME MoneyInv, PaidInv, NEW p \in Procs, NEW j \in Jobs, NEW op \in Completing, Ask(p, op, j)
    PROVE  PaidInv'
  <1>1. DebitsKept /\ debits' = debits /\ row' = row /\ p \in Handlers
    BY SameLedger DEF Ask
  <1>2. row[j] \in Row /\ row' = [row EXCEPT ![j] = row[j]] /\ OthersGoOn(p, j, row[j]) /\ PaidRow(row[j], debits'[j])
    BY <1>1, SameRow, TameSame, TameForOthers DEF PaidInv
  <1>3. PICK g \in Frame : proc' = [proc EXCEPT ![p] = g] /\ g.pc = "asked" /\ g.op = op /\ g.job = j
    <2> DEFINE g == [Idle EXCEPT !.pc = "asked", !.op = op, !.job = j, !.kind = row[j].kind]
    <2>1. "asked" \in Pcs /\ op \in Ops /\ row[j].kind \in Kinds /\ Idle \in Frame
      BY <1>2, IdleFrame DEF Pcs, Ops, Completing, Row
    <2>2. g \in Frame /\ g.pc = "asked" /\ g.op = op /\ g.job = j
      BY <2>1 DEF Frame
    <2>3. proc' = [proc EXCEPT ![p] = g]
      BY DEF Ask
    <2> HIDE DEF g
    <2> QED BY <2>2, <2>3
  <1>4. Shape(g) /\ Placed(p, g) /\ DebitFor(g, debits'[j]) /\ ~Early(g) /\ ~Working(g) /\ ~After(g)
    BY <1>1, <1>3 DEF Shape, Placed, DebitFor, Early, Working, After, Completing
  <1>5. MayBecome(p, g, j) /\ RowFor(g, row[j])
    BY <1>4, BystanderRow DEF MayBecome
  <1> QED BY <1>1, <1>2, <1>3, <1>4, <1>5, PaidStep

LEMMA HandledPaid ==
    ASSUME MoneyInv, PaidInv, NEW p \in Procs,
           \/ \E d \in Durations : DurationKnown(p, d)
           \/ DurationUnknown(p) \/ CompleteCleanup(p) \/ HandlerWrite(p)
    PROVE  PaidInv'
  <1> DEFINE f == proc[p]
  <1>1. f.pc # "idle" /\ DebitsKept /\ debits' = debits
    BY SameLedger DEF DurationKnown, DurationUnknown, CompleteCleanup, HandlerWrite, At
  <1>2. /\ f \in Frame /\ f.job \in Jobs /\ f.op # "none" /\ Shape(f) /\ Placed(p, f) /\ row[f.job] \in Row
        /\ DebitFor(f, debits'[f.job]) /\ PaidRow(row[f.job], debits'[f.job])
    BY <1>1, AtWork
  <1>3. CASE \E d \in Durations : DurationKnown(p, d)
    <2>1. PICK d \in Durations : DurationKnown(p, d)
      BY <1>3
    <2>2. f.pc = "asked" /\ row' = row
      BY <2>1 DEF DurationKnown
    <2>3. f.op \in Completing
      BY <1>2, <2>2 DEF Shape, Working
    <2>4. PICK g \in Frame : proc' = [proc EXCEPT ![p] = g] /\ g.pc = "read" /\ g.op = f.op /\ g.job = f.job
      <3> DEFINE g == [f EXCEPT !.pc = "read", !.dur = d]
      <3>1. "read" \in Pcs
        BY DEF Pcs
      <3>2. g \in Frame /\ g.pc = "read" /\ g.op = f.op /\ g.job = f.job
        BY <1>2, <3>1 DEF Frame
      <3>3. proc' = [proc EXCEPT ![p] = g]
        BY <2>1 DEF DurationKnown
      <3> HIDE DEF g
      <3> QED BY <3>2, <3>3
    <2>5. Shape(g) /\ DebitFor(g, debits'[f.job]) /\ ~Early(g) /\ ~Working(g) /\ ~After(g)
      BY <1>2, <2>3, <2>4 DEF Shape, DebitFor, Early, Working, After, Completing
    <2> QED BY <1>1, <1>2, <2>2, <2>4, <2>5, BystanderRow, ReadsPaid
  <1>4. CASE DurationUnknown(p)
    BY <1>1, <1>4, LeavesPaid DEF DurationUnknown
  <1>5. CASE CompleteCleanup(p)
    <2>1. f.pc = "cleanup" /\ f.op = "complete" /\ row' = row /\ Goto(p, "write") /\ "write" \in Pcs
      BY <1>5 DEF CompleteCleanup, At, Pcs
    <2>2. PICK g \in Frame : g = [f EXCEPT !.pc = "write"]
      BY <1>2, <2>1, NextFrame
    <2>3. g.pc = "write" /\ g.op = "complete" /\ g.job = f.job
      BY <1>2, <2>1, <2>2, NextFrame
    <2>4. proc' = [proc EXCEPT ![p] = g]
      BY <2>1, <2>2 DEF Goto
    <2>5. Shape(g) /\ DebitFor(g, debits'[f.job]) /\ ~Early(g) /\ ~Working(g) /\ ~After(g)
      BY <1>2, <2>1, <2>3 DEF Shape, DebitFor, Early, Working, After, Completing
    <2> QED BY <1>1, <1>2, <2>1, <2>3, <2>4, <2>5, BystanderRow, ReadsPaid
  <1>6. CASE HandlerWrite(p)
    <2>1. p \in Handlers /\ f.pc = "write" /\ Finish(p)
      BY <1>6 DEF HandlerWrite
    <2>2. f.op \in Completing
      BY <1>2, <2>1, JobAssumption DEF Shape, Placed, Working, After
    <2>3. debits'[f.job] # <<>> /\ Target(f.op) = "completed" /\ "completed" \in Statuses
      BY <1>2, <2>1, <2>2 DEF DebitFor, Target, Completing, Statuses, Blocked, Terminal
    <2>4. PICK s \in Row : s = WithStatus(row[f.job], "completed")
      BY <1>2, <2>3, RowTypes
    <2>5. s.status = "completed" /\ s.dur = row[f.job].dur /\ s.mark = row[f.job].mark
      BY <1>2, <2>4, WrittenFields
    <2>6. PICK r \in Row : row' = [row EXCEPT ![f.job] = r] /\ r \in {row[f.job], s}
      <3>1. CASE f.op = "complete"
        <4>1. UpdateIfNotIn(f.job, Terminal, s)
          BY <1>6, <2>3, <2>4, <3>1 DEF HandlerWrite
        <4> QED BY <1>2, <4>1, Conditional
      <3>2. CASE f.op \in {"v1_complete", "ack_complete"}
        BY <1>6, <2>3, <2>4, <3>2 DEF HandlerWrite, Update
      <3> QED BY <2>2, <3>1, <3>2 DEF Completing
    <2>7. Tame(row[f.job], r) /\ PaidRow(r, debits'[f.job])
      BY <1>2, <2>3, <2>5, <2>6, TameSame DEF Tame, PaidRow, Terminal
    <2> QED BY <1>1, <1>2, <2>1, <2>6, <2>7, TameForOthers, EndsPaid
  <1> QED BY <1>3, <1>4, <1>5, <1>6


-----------------------------------------------------------------------------
LEMMA PaidSame ==
    ASSUME PaidInv, row' = row, proc' = proc, debits' = debits
    PROVE  PaidInv'
  BY DEF PaidInv, SlotInv, OneTask

LEMMA PaidInit == Init => PaidInv
  <1> SUFFICES ASSUME Init PROVE PaidInv
    OBVIOUS
  <1>1. (\A p \in Procs : proc[p] = Idle) /\ \A j \in Jobs : row[j] = NoRow
    BY DEF Init
  <1>2. \A p \in Procs : SlotInv(p)
    BY <1>1, IdleIs DEF SlotInv
  <1>3. OneTask
    BY <1>1, IdleIs DEF OneTask
  <1>4. \A j \in Jobs : PaidRow(row[j], debits[j])
    BY <1>1 DEF PaidRow, NoRow
  <1> QED BY <1>2, <1>3, <1>4 DEF PaidInv

LEMMA PaidNext ==
    ASSUME Events \cap Rewriting = {}, MoneyInv, PaidInv, [Next]_vars
    PROVE  PaidInv'
  <1>1. CASE UNCHANGED vars
    BY <1>1, PaidSame DEF vars, jobVars, ledgerVars
  <1>2. ASSUME NEW t \in Tenants, TopUpTenant(t) PROVE PaidInv'
    BY <1>2, PaidSame DEF TopUpTenant, TopUp, jobVars
  <1>3. ASSUME NEW j \in Jobs, NEW kind \in Kinds, SubmitTask(j, kind) PROVE PaidInv'
    BY <1>3, RowActionsPaid
  <1>4. ASSUME NEW j \in Jobs, CancelJob(j) \/ SweepOrphan(j) PROVE PaidInv'
    <2>1. "cpu_execution" \in Kinds
      BY DEF Kinds
    <2> QED BY <1>4, <2>1, RowActionsPaid
  <1>5. ASSUME NEW j \in Jobs, PauseEnds(j) PROVE PaidInv'
    BY <1>5, PaidSame DEF PauseEnds, ledgerVars
  <1>6. ASSUME NEW p \in Procs, NEW j \in Jobs,
               ClaimQueued(p, j) \/ SweepPick(p, j) \/ RefundSweepPick(p, j)
        PROVE  PaidInv'
    BY <1>6, ClaimPaid, PickedPaid
  <1>7. ASSUME NEW p \in Procs, NEW j \in Jobs, NEW op \in Requests, Ask(p, op, j)
        PROVE  PaidInv'
    <2>1. op \in Completing
      BY <1>7 DEF Ask, Requests, Rewriting
    <2> QED BY <1>7, <2>1, AskPaid
  <1>8. ASSUME NEW p \in Procs, TaskStep(p) \/ SweepStep(p) \/ HandlerStep(p)
        PROVE  PaidInv'
    BY <1>8, DispatchPaid, PollPaid, FinalizePaid, TaskWritePaid, TaskRefundPaid, TaskMarkPaid,
       InterruptedPaid, SweepWritePaid, RefundSweepPaid, HandledPaid
    DEF TaskStep, SweepStep, HandlerStep, Finalize
  <1>9. ASSUME NEW p \in Procs, Unavailable(p) \/ DrainInflight(p) \/ Crash(p)
        PROVE  PaidInv'
    BY <1>9, FinalizePaid, TaskRefundPaid, RefundSweepPaid, InterruptedPaid DEF Unavailable
  <1> QED BY <1>1, <1>2, <1>3, <1>4, <1>5, <1>6, <1>7, <1>8, <1>9 DEF Next

LEMMA PaidInvariant ==
    ASSUME Events \cap Rewriting = {}
    PROVE  Spec => []PaidInv
  <1>1. MoneyInv /\ PaidInv /\ [Next]_vars => PaidInv'
    BY PaidNext
  <1> QED BY <1>1, PaidInit, MoneyInvariant, PTL DEF Spec

(* Where no agent endpoint rewrites a row, a job that is shown as          *)
(* completed was debited or cost nothing, whoever completed it: its task,  *)
(* the billing sweeper or a completing endpoint, with crashes, drains and  *)
(* PostgreSQL failures at any statement.                                   *)
THEOREM CompletedWorkIsPaid ==
    ASSUME Events \cap Rewriting = {}
    PROVE  Spec => []CompletedIsPaid
  <1>1. PaidInv => CompletedIsPaid
    BY DEF PaidInv, PaidRow, CompletedIsPaid
  <1> QED BY <1>1, PaidInvariant, PTL

\* A row that leaves billing_pending has been written by a sweeper or a
\* completing endpoint that knows it paid.
LEMMA LeftPaid ==
    ASSUME Events \cap Rewriting = {}, MoneyInv, PaidInv, [Next]_vars,
           NEW j \in Jobs, row[j].status = "billing_pending", row'[j].status # "billing_pending"
    PROVE  debits[j] # <<>> \/ CostOf[row[j].dur] = 0
  <1>0. row \in [Jobs -> Row] /\ "billing_pending" \in Blocked
    BY DEF MoneyInv, TypeOK, Blocked
  <1>1. ASSUME NEW i \in Jobs, NEW r \in Row, row' = [row EXCEPT ![i] = r] PROVE i = j /\ r.status # "billing_pending"
    BY <1>0, <1>1
  <1>2. row' # row
    OBVIOUS
  <1>3. ASSUME NEW i \in Jobs, NEW r, UpdateIfNotIn(i, Blocked, r) PROVE FALSE
    BY <1>0, <1>3, Conditional
  <1>4. ASSUME NEW i \in Jobs, NEW kind \in Kinds, SubmitTask(i, kind) PROVE FALSE
    BY <1>0, <1>4 DEF SubmitTask, Update
  <1>5. ASSUME NEW i \in Jobs, CancelJob(i) \/ SweepOrphan(i) PROVE FALSE
    BY <1>0, <1>3, <1>5 DEF CancelJob, SweepOrphan, Update
  <1>6. ASSUME NEW p \in Procs, NEW i \in Jobs, ClaimQueued(p, i) PROVE FALSE
    BY <1>0, <1>6 DEF ClaimQueued, Update
  <1>7. ASSUME NEW p \in Procs, NEW k \in Kinds, DispatchFails(p, k) \/ DispatchReady(p, k) PROVE FALSE
    <2>1. Early(proc[p]) /\ proc[p].pc # "idle"
      BY <1>7 DEF DispatchFails, DispatchReady, At, Working, Early
    <2>2. row[proc[p].job].status # "billing_pending"
      BY <2>1, AtWork DEF RowFor
    <2> QED BY <1>0, <1>7, <2>2 DEF DispatchFails, DispatchReady, Update
  <1>8. ASSUME NEW p \in Procs, TaskWrite(p) \/ DrainInflight(p) PROVE FALSE
    <2>1. proc[p].pc # "idle"
      BY <1>8 DEF TaskWrite, DrainInflight, Awaiting, At
    <2>2. proc[p].job \in Jobs
      BY <2>1, AtWork
    <2> QED BY <1>3, <1>8, <2>2 DEF TaskWrite, DrainInflight
  <1>9. ASSUME NEW p \in Procs, TaskMark(p) \/ RefundSweepClear(p) PROVE FALSE
    <2>1. proc[p].pc # "idle"
      BY <1>9 DEF TaskMark, RefundSweepClear, At
    <2>2. row[proc[p].job] \in Row /\ proc[p].job \in Jobs /\ row[proc[p].job].status \in Terminal
      BY <1>9, <2>1, AtWork DEF TaskMark, RefundSweepClear, At, RowFor, Working
    <2> QED BY <1>0, <1>9, <2>2 DEF TaskMark, RefundSweepClear, Update, Terminal
  <1>10. ASSUME NEW p \in Procs, SweepWrite(p) PROVE debits[j] # <<>> \/ CostOf[row[j].dur] = 0
    <2>1. proc[p].pc = "write" /\ proc[p].op = "sweep" /\ proc[p].pc # "idle" /\ After(proc[p])
      BY <1>10 DEF SweepWrite, At, After
    <2>2. PICK i \in Jobs : i = proc[p].job
      BY <2>1, AtWork
    <2>3. RowFor(proc[p], row[i]) /\ DebitFor(proc[p], debits[i])
      BY <2>1, <2>2, AtWork
    <2>4. i = j /\ proc[p].bill \in {"ok", "skip", "mismatch"}
      BY <1>0, <1>1, <1>10, <2>2, SweepWrites
    <2> QED BY <2>1, <2>3, <2>4 DEF RowFor, DebitFor, Terminal
  <1>11. ASSUME NEW p \in Procs, HandlerWrite(p) PROVE debits[j] # <<>> \/ CostOf[row[j].dur] = 0
    <2>1. p \in Handlers /\ proc[p].pc = "write" /\ proc[p].pc # "idle"
      BY <1>11 DEF HandlerWrite
    <2>2. /\ proc[p].op # "none" /\ Shape(proc[p]) /\ Placed(p, proc[p]) /\ proc[p].job \in Jobs
          /\ DebitFor(proc[p], debits[proc[p].job])
      BY <2>1, AtWork
    <2>3. proc[p].op \in Completing
      BY <2>1, <2>2, JobAssumption DEF Shape, Placed, Working, After
    <2>4. proc[p].job = j
      BY <1>0, <1>11, <2>2, <2>3 DEF HandlerWrite, UpdateIfNotIn, Update, Completing
    <2> QED BY <2>1, <2>2, <2>3, <2>4 DEF DebitFor
  <1>12. CASE UNCHANGED row
    BY <1>2, <1>12
  <1>13. \/ UNCHANGED row
         \/ \E i \in Jobs, kind \in Kinds : SubmitTask(i, kind)
         \/ \E i \in Jobs : CancelJob(i) \/ SweepOrphan(i)
         \/ \E p \in Procs, i \in Jobs : ClaimQueued(p, i)
         \/ \E p \in Procs, k \in Kinds : DispatchFails(p, k) \/ DispatchReady(p, k)
         \/ \E p \in Procs : \/ TaskWrite(p) \/ DrainInflight(p) \/ TaskMark(p) \/ RefundSweepClear(p)
                             \/ SweepWrite(p) \/ HandlerWrite(p)
    <2>1. CASE UNCHANGED vars
      BY <2>1 DEF vars, jobVars
    <2>2. ASSUME NEW p \in Procs, Finalize(p) \/ Unavailable(p) PROVE UNCHANGED row
      BY <2>2 DEF Finalize, Unavailable, FinalizeRead, FinalizeDebit, FinalizeMeter, FinalizeReadUnavailable,
           FinalizeDebitUnavailable, FinalizeMeterUnavailable, TaskRefundUnavailable, RefundSweepUnavailable
    <2>3. ASSUME NEW p \in Procs, TaskStep(p)
          PROVE  \/ UNCHANGED row \/ TaskWrite(p) \/ TaskMark(p)
                 \/ \E k \in Kinds : DispatchFails(p, k) \/ DispatchReady(p, k)
      <3>1. \A st, d : PollEnds(p, st, d) => UNCHANGED row
        BY DEF PollEnds
      <3>2. TaskCheck(p) \/ TaskRefund(p) \/ TaskCleanup(p) => UNCHANGED row
        BY DEF TaskCheck, TaskRefund, TaskCleanup
      <3> QED BY <2>2, <2>3, <3>1, <3>2 DEF TaskStep
    <2>4. ASSUME NEW p \in Procs, SweepStep(p) \/ HandlerStep(p)
          PROVE  UNCHANGED row \/ RefundSweepClear(p) \/ SweepWrite(p) \/ HandlerWrite(p)
      BY <2>2, <2>4 DEF SweepStep, HandlerStep, RefundSweepPay, DurationKnown, DurationUnknown, CompleteCleanup
    <2>5. CASE \E p \in Procs : TaskStep(p) \/ SweepStep(p) \/ HandlerStep(p)
      BY <2>3, <2>4, <2>5
    <2>6. CASE \E p \in Procs : Unavailable(p) \/ DrainInflight(p) \/ Crash(p)
      BY <2>2, <2>6 DEF Crash
    <2>7. CASE \/ \E t \in Tenants : TopUpTenant(t)
               \/ \E i \in Jobs, kind \in Kinds : SubmitTask(i, kind)
               \/ \E i \in Jobs : CancelJob(i) \/ SweepOrphan(i) \/ PauseEnds(i)
               \/ \E p \in Procs, i \in Jobs : ClaimQueued(p, i) \/ SweepPick(p, i) \/ RefundSweepPick(p, i)
               \/ \E p \in Procs, i \in Jobs, op \in Requests : Ask(p, op, i)
      <3>1. \A t, i : TopUpTenant(t) \/ PauseEnds(i) => UNCHANGED row
        BY DEF TopUpTenant, jobVars, PauseEnds
      <3>2. \A p, i, op : SweepPick(p, i) \/ RefundSweepPick(p, i) \/ Ask(p, op, i) => UNCHANGED row
        BY DEF SweepPick, RefundSweepPick, Ask
      <3> QED BY <2>7, <3>1, <3>2
    <2> QED BY <2>1, <2>5, <2>6, <2>7 DEF Next
  <1> QED BY <1>4, <1>5, <1>6, <1>7, <1>8, <1>9, <1>10, <1>11, <1>12, <1>13

(* Under the same condition no sweep, cancel, drain, crash or completion   *)
(* takes a job out of billing_pending, and so out of the billing sweeper's *)
(* reach, before it is debited (or cost nothing).                          *)
THEOREM PendingJobsLeavePaid ==
    ASSUME Events \cap Rewriting = {}
    PROVE  Spec => PendingLeftPaid
  <1>1. MoneyInv /\ PaidInv /\ [Next]_vars
        => [\A j \in Jobs :
               row[j].status = "billing_pending" /\ row'[j].status # "billing_pending"
                   => debits[j] # <<>> \/ CostOf[row[j].dur] = 0]_vars
    BY LeftPaid
  <1> QED BY <1>1, MoneyInvariant, PaidInvariant, PTL DEF Spec, PendingLeftPaid

LEMMA SettledRestores ==
    ASSUME MoneyInv, PaidInv, NEW p \in Sweepers, SweepWrite(p),
           row[proc[p].job].status = "billing_pending", row'[proc[p].job].status # "billing_pending"
    PROVE  row'[proc[p].job].status = IF row[proc[p].job].exec # "none" THEN row[proc[p].job].exec
                                      ELSE IF row'[proc[p].job].mark = "mismatch" THEN "error"
                                      ELSE "completed"
  <1>1. p \in Procs /\ proc[p].op = "sweep" /\ proc[p].pc # "idle"
    BY DEF Procs, SweepWrite, At
  <1>2. PICK j \in Jobs : j = proc[p].job
    BY <1>1, AtWork
  <1>3. row[j].exec = proc[p].exec /\ row \in [Jobs -> Row]
    BY <1>1, <1>2, AtWork DEF RowFor, MoneyInv, TypeOK
  <1>4. PICK r \in Row :
              /\ row' = [row EXCEPT ![j] = r] /\ r.dur = row[j].dur
              /\ \/ r = row[j]
                 \/ r.status = row[j].status /\ r.exec = proc[p].exec /\ r.mark = "no_funds"
                 \/ /\ row[j].status \notin Terminal
                    /\ proc[p].bill \in {"ok", "skip"} /\ r.status = Restored(proc[p], "completed") /\ r.mark = "none"
                 \/ /\ row[j].status \notin Terminal
                    /\ proc[p].bill = "mismatch" /\ r.status = Restored(proc[p], "error") /\ r.mark = "mismatch"
    BY <1>1, <1>2, SweepWrites
  <1>5. row'[j] = r
    BY <1>3, <1>4
  <1>6. \/ r.status = Restored(proc[p], "completed") /\ r.mark = "none"
        \/ r.status = Restored(proc[p], "error") /\ r.mark = "mismatch"
    BY <1>2, <1>4, <1>5
  <1> QED BY <1>2, <1>3, <1>5, <1>6 DEF Restored

(* Under the same condition the billing sweeper gives a job back the       *)
(* status its execution ended with: what the sweeper read when it listed   *)
(* the job is still what the marker says when it writes.                   *)
THEOREM SweeperRestoresStatus ==
    ASSUME Events \cap Rewriting = {}
    PROVE  Spec => ExecStatusRestored
  <1>1. MoneyInv /\ PaidInv /\ [Next]_vars
        => [\A p \in Sweepers :
             LET j == proc[p].job
                 settled == /\ SweepWrite(p)
                            /\ row[j].status = "billing_pending"
                            /\ row'[j].status # "billing_pending"
             IN  settled => row'[j].status = IF row[j].exec # "none" THEN row[j].exec
                                             ELSE IF row'[j].mark = "mismatch" THEN "error"
                                             ELSE "completed"]_vars
    BY SettledRestores
  <1> QED BY <1>1, MoneyInvariant, PaidInvariant, PTL DEF Spec, ExecStatusRestored


-----------------------------------------------------------------------------
(* A debit on a cancelled job leaves a trace.  Between the debit and the   *)
(* decision on a refund there is no await but the attempts to pay it, so   *)
(* only a cancel, an orphan sweep or a failing refund can come in between. *)
Lenient == {"cancel", "refund_fault", "orphan"}

\* The task of a job that has debited it and has not settled the refund.
Carries(f) ==
    /\ Working(f)
    /\ f.pc \in {"meter", "check", "refund", "mark"} \/ (f.pc = "write" /\ f.bill = "ok")

\* What a slot at work relies on, in the row r, the DEBIT rows ds and the
\* refund rows rs of its job.
LeanOn(f, r, ds, rs) ==
    /\ f.op \notin Completing
    /\ Early(f) /\ ~Carries(f) => ds = <<>>
    /\ Working(f) /\ (f.pc \in {"debit", "meter"} \/ (f.pc = "write" /\ f.bill = "ok")) => CostOf[f.dur] # 0
    /\ Working(f) /\ f.pc = "check" => r.status \in Blocked
    /\ f.op = "sweep" => r.status \in Blocked \ {"cancelled"}
    /\ f.pc = "clear" => rs # <<>>

\* A row that accounts for the debit of its job.
Settled(r, rs) ==
    \/ r.status \in Blocked \ {"cancelled"}
    \/ r.status = "cancelled" /\ (r.cost # 0 \/ rs # <<>> \/ r.mark = "refund_pending")

Traced(j) ==
    debits[j] # <<>> => \/ Settled(row[j], refunds[j])
                        \/ \E p \in Procs : Carries(proc[p]) /\ proc[p].job = j

TraceInv ==
    /\ \A p \in Procs : proc[p].op # "none" =>
          LeanOn(proc[p], row[proc[p].job], debits[proc[p].job], refunds[proc[p].job])
    /\ \A j \in Jobs : Traced(j)

LEMMA IdleLean == ~Carries(Idle)
  BY IdleIs DEF Carries

\* The slots other than p at work on j go on, with the row r and the ledger
\* rows ds and rs.
OthersLean(p, j, r, ds, rs) ==
    \A q \in Procs : q # p /\ proc[q].op # "none" /\ proc[q].job = j => LeanOn(proc[q], r, ds, rs)

\* The debit of job j is accounted for after a step of p, which becomes g.
StillTraced(p, g, j, r, ds, rs) ==
    ds # <<>> => \/ Settled(r, rs) \/ Carries(g)
                 \/ \E q \in Procs : q # p /\ Carries(proc[q]) /\ proc[q].job = j

OnlyLedgerOf(j) == \A i \in Jobs : i # j => debits'[i] = debits[i] /\ refunds'[i] = refunds[i]

LEMMA TraceStep ==
    ASSUME MoneyInv, PaidInv, TraceInv,
           NEW p \in Procs, NEW g \in Frame, proc' = [proc EXCEPT ![p] = g],
           NEW j \in Jobs, NEW r \in Row, row' = [row EXCEPT ![j] = r], OnlyLedgerOf(j),
           proc[p].op = "none" \/ proc[p].job = j,
           g.op # "none" => g.job = j /\ LeanOn(g, r, debits'[j], refunds'[j]),
           OthersLean(p, j, r, debits'[j], refunds'[j]),
           StillTraced(p, g, j, r, debits'[j], refunds'[j])
    PROVE  TraceInv'
  <1>1. proc'[p] = g /\ \A q \in Procs : q # p => proc'[q] = proc[q]
    BY FrameUpdate DEF MoneyInv, TypeOK
  <1>2. row'[j] = r /\ \A i \in Jobs : i # j => row'[i] = row[i]
    BY RowUpdate DEF MoneyInv, TypeOK
  <1>3. ASSUME NEW q \in Procs, proc'[q].op # "none"
        PROVE  LeanOn(proc'[q], row'[proc'[q].job], debits'[proc'[q].job], refunds'[proc'[q].job])
    <2>1. CASE q = p
      BY <1>1, <1>2, <1>3, <2>1
    <2>2. CASE q # p
      <3>1. proc'[q] = proc[q] /\ Shape(proc[q])
        BY <1>1, <2>2 DEF PaidInv, SlotInv
      <3>2. proc[q].job \in Jobs
        BY <1>3, <3>1 DEF Shape
      <3>3. CASE proc[q].job = j
        BY <1>2, <1>3, <2>2, <3>1, <3>3 DEF OthersLean
      <3>4. CASE proc[q].job # j
        <4>1. LeanOn(proc[q], row[proc[q].job], debits[proc[q].job], refunds[proc[q].job])
          BY <1>3, <3>1 DEF TraceInv
        <4>2. row'[proc[q].job] = row[proc[q].job] /\ debits'[proc[q].job] = debits[proc[q].job]
              /\ refunds'[proc[q].job] = refunds[proc[q].job]
          BY <1>2, <3>2, <3>4 DEF OnlyLedgerOf
        <4> QED BY <3>1, <4>1, <4>2
      <3> QED BY <3>3, <3>4
    <2> QED BY <2>1, <2>2
  <1>4. ASSUME NEW i \in Jobs, debits'[i] # <<>>
        PROVE  Settled(row'[i], refunds'[i]) \/ \E q \in Procs : Carries(proc'[q]) /\ proc'[q].job = i
    <2>1. CASE i = j
      <3>1. Carries(g) => g.job = j
        BY DEF Carries, Working
      <3> QED BY <1>1, <1>2, <1>4, <2>1, <3>1 DEF StillTraced
    <2>2. CASE i # j
      <3>1. row'[i] = row[i] /\ debits'[i] = debits[i] /\ refunds'[i] = refunds[i]
        BY <1>2, <2>2 DEF OnlyLedgerOf
      <3>2. CASE Settled(row[i], refunds[i])
        BY <3>1, <3>2
      <3>3. CASE \E q \in Procs : Carries(proc[q]) /\ proc[q].job = i
        <4>1. PICK q \in Procs : Carries(proc[q]) /\ proc[q].job = i
          BY <3>3
        <4>2. proc[q].op # "none"
          BY <4>1 DEF Carries, Working
        <4>3. q # p
          BY <2>2, <4>1, <4>2
        <4> QED BY <1>1, <4>1, <4>3
      <3> QED BY <1>4, <3>1, <3>2, <3>3 DEF TraceInv, Traced
    <2> QED BY <2>1, <2>2
  <1> QED BY <1>3, <1>4 DEF TraceInv, Traced

\* A write that no other slot minds.
Calm(r, s) ==
    /\ r.status \in Blocked => s.status \in Blocked
    /\ r.status \in Blocked \ {"cancelled"} => s.status \in Blocked \ {"cancelled"}

LEMMA CalmSame == \A r : Calm(r, r)
  BY DEF Calm

LEMMA LeanKept ==
    ASSUME NEW f, NEW r, NEW s, NEW ds, NEW rs, NEW ts, LeanOn(f, r, ds, rs), Calm(r, s), rs # <<>> => ts # <<>>
    PROVE  LeanOn(f, s, ds, ts)
  BY DEF LeanOn, Calm

LEMMA CalmForOthers ==
    ASSUME TraceInv, NEW p, NEW j, NEW r, Calm(row[j], r), debits'[j] = debits[j],
           refunds[j] # <<>> => refunds'[j] # <<>>
    PROVE  OthersLean(p, j, r, debits'[j], refunds'[j])
  <1> SUFFICES ASSUME NEW q \in Procs, q # p, proc[q].op # "none", proc[q].job = j
               PROVE  LeanOn(proc[q], r, debits'[j], refunds'[j])
    BY DEF OthersLean
  <1>1. LeanOn(proc[q], row[j], debits[j], refunds[j])
    BY DEF TraceInv
  <1>2. LeanOn(proc[q], r, debits[j], refunds'[j])
    BY <1>1, LeanKept
  <1> QED BY <1>2

\* A task that has not written yet is the only slot at work on its job.
LEMMA EarlyOnly ==
    ASSUME PaidInv, TraceInv, NEW p \in Procs, Early(proc[p]), NEW r, NEW ds, NEW rs
    PROVE  OthersLean(p, proc[p].job, r, ds, rs)
  <1> SUFFICES ASSUME NEW q \in Procs, q # p, proc[q].op # "none", proc[q].job = proc[p].job PROVE FALSE
    BY DEF OthersLean
  <1>1. Working(proc[p])
    BY DEF Early
  <1>2. ~Working(proc[q]) /\ ~After(proc[q])
    BY <1>1 DEF PaidInv, OneTask
  <1>3. Shape(proc[q]) /\ proc[q].op \notin Completing
    BY DEF PaidInv, SlotInv, TraceInv, LeanOn
  <1> QED BY <1>2, <1>3 DEF Shape, Working, After

\* A step of a slot that carries nothing, and leaves the ledger alone.
LEMMA QuietTrace ==
    ASSUME TraceInv, NEW p \in Procs, NEW g, NEW j \in Jobs, NEW r, debits'[j] = debits[j], refunds'[j] = refunds[j],
           Carries(proc[p]) => Carries(g), Settled(row[j], refunds[j]) => Settled(r, refunds[j])
    PROVE  StillTraced(p, g, j, r, debits'[j], refunds'[j])
  BY DEF TraceInv, Traced, StillTraced

\* What the invariant says of a slot at work.
LEMMA AtLean ==
    ASSUME MoneyInv, PaidInv, TraceInv, NEW p \in Procs, proc[p].pc # "idle"
    PROVE  /\ LeanOn(proc[p], row[proc[p].job], debits[proc[p].job], refunds[proc[p].job])
           /\ proc[p].op \in {"execute", "sweep", "refund_sweep"}
  <1>1. proc[p].op # "none" /\ Shape(proc[p])
    BY AtWork
  <1>2. LeanOn(proc[p], row[proc[p].job], debits[proc[p].job], refunds[proc[p].job])
    BY <1>1 DEF TraceInv
  <1> QED BY <1>1, <1>2 DEF Shape, LeanOn

LEMMA QuietLedger ==
    ASSUME UNCHANGED ledgerVars, NEW j
    PROVE  OnlyLedgerOf(j) /\ debits' = debits /\ refunds' = refunds
  BY DEF ledgerVars, OnlyLedgerOf

\* A slot that carries nothing, reads and goes on.
LEMMA ReadsTraced ==
    ASSUME MoneyInv, PaidInv, TraceInv, UNCHANGED ledgerVars, NEW p \in Procs, proc[p].pc # "idle", row' = row,
           NEW g \in Frame, proc' = [proc EXCEPT ![p] = g], Carries(proc[p]) => Carries(g),
           g.op # "none" => g.job = proc[p].job
                            /\ LeanOn(g, row[proc[p].job], debits[proc[p].job], refunds[proc[p].job])
    PROVE  TraceInv'
  <1>1. PICK j \in Jobs : j = proc[p].job
    BY AtWork
  <1>2. row[j] \in Row /\ row' = [row EXCEPT ![j] = row[j]]
    BY SameRow
  <1>3. OnlyLedgerOf(j) /\ debits' = debits /\ refunds' = refunds
    BY QuietLedger
  <1>4. OthersLean(p, j, row[j], debits'[j], refunds'[j])
    BY <1>3, CalmSame, CalmForOthers
  <1>5. StillTraced(p, g, j, row[j], debits'[j], refunds'[j])
    BY <1>3, QuietTrace
  <1> QED BY <1>1, <1>2, <1>3, <1>4, <1>5, TraceStep


LEMMA RowActionsTraced ==
    ASSUME MoneyInv, PaidInv, TraceInv, NEW j \in Jobs, NEW kind \in Kinds,
           SubmitTask(j, kind) \/ CancelJob(j) \/ SweepOrphan(j)
    PROVE  TraceInv'
  <1>1. proc' = proc /\ row \in [Jobs -> Row] /\ debits' = debits /\ refunds' = refunds
    BY DEF SubmitTask, CancelJob, SweepOrphan, MoneyInv, TypeOK, ledgerVars
  <1>2. PICK r : /\ row' = [row EXCEPT ![j] = r] /\ Calm(row[j], r)
                 /\ Settled(row[j], refunds[j]) => Settled(r, refunds[j])
    <2>1. row[j] \in Row /\ "queued" \in Statuses /\ "cancelled" \in Statuses /\ "timeout" \in Statuses
      BY <1>1 DEF Statuses, Blocked, Terminal
    <2>2. CASE SubmitTask(j, kind)
      <3>1. row[j].status = "absent" /\ row' = [row EXCEPT ![j] = WithKind(WithStatus(row[j], "queued"), kind)]
        BY <2>2 DEF SubmitTask, Update
      <3> QED BY <3>1 DEF Calm, Settled, Blocked, Terminal
    <2>3. CASE CancelJob(j)
      <3>1. row[j].status \notin Blocked /\ UpdateIfNotIn(j, Blocked, WithStatus(row[j], "cancelled"))
        BY <2>3 DEF CancelJob
      <3>2. row' = [row EXCEPT ![j] = WithStatus(row[j], "cancelled")]
        BY <3>1, Conditional
      <3> QED BY <3>1, <3>2 DEF Calm, Settled, Blocked, Terminal
    <2>4. CASE SweepOrphan(j)
      <3>1. row[j].status = "running" /\ row' = [row EXCEPT ![j] = WithError(WithStatus(row[j], "timeout"), "text", "none", 0)]
        BY <2>4 DEF SweepOrphan, Update
      <3> QED BY <3>1 DEF Calm, Settled, Blocked, Terminal
    <2> QED BY <2>2, <2>3, <2>4
  <1>3. row'[j] = r /\ \A i \in Jobs : i # j => row'[i] = row[i]
    BY <1>1, <1>2
  <1>4. ASSUME NEW q \in Procs, proc[q].op # "none"
        PROVE  LeanOn(proc[q], row'[proc[q].job], debits[proc[q].job], refunds[proc[q].job])
    <2>1. proc[q].job \in Jobs /\ LeanOn(proc[q], row[proc[q].job], debits[proc[q].job], refunds[proc[q].job])
      BY <1>4 DEF PaidInv, SlotInv, Shape, TraceInv
    <2>2. Calm(row[proc[q].job], row'[proc[q].job])
      BY <1>2, <1>3, <2>1, CalmSame
    <2> QED BY <2>1, <2>2, LeanKept
  <1>5. ASSUME NEW i \in Jobs, debits[i] # <<>>
        PROVE  Settled(row'[i], refunds[i]) \/ \E q \in Procs : Carries(proc[q]) /\ proc[q].job = i
    BY <1>2, <1>3, <1>5 DEF TraceInv, Traced
  <1> QED BY <1>1, <1>4, <1>5 DEF TraceInv, Traced

LEMMA ClaimTraced ==
    ASSUME MoneyInv, PaidInv, TraceInv, NEW p \in Procs, NEW j \in Jobs, ClaimQueued(p, j)
    PROVE  TraceInv'
  <1>1. /\ OnlyLedgerOf(j) /\ debits' = debits /\ refunds' = refunds
        /\ row[j] \in Row /\ row[j].status = "queued" /\ proc[p] = Idle
    BY QuietLedger DEF ClaimQueued, MoneyInv, TypeOK
  <1>2. PICK g : g = [Idle EXCEPT !.pc = "dispatch", !.op = "execute", !.job = j]
    OBVIOUS
  <1>3. g \in Frame /\ g.pc = "dispatch" /\ g.op = "execute" /\ g.job = j
    BY <1>2, IdleFrame DEF Frame, Pcs, Ops
  <1>4. PICK r \in Row : r = WithStatus(row[j], "running")
    <2>1. "running" \in Statuses
      BY DEF Statuses
    <2> QED BY <1>1, <2>1, RowTypes
  <1>5. row' = [row EXCEPT ![j] = r] /\ proc' = [proc EXCEPT ![p] = g]
    BY <1>2, <1>4 DEF ClaimQueued, Update
  <1>6. debits[j] = <<>>
    <2>1. \A q \in Procs : Working(proc[q]) => proc[q].job # j
      BY <1>1 DEF PaidInv, SlotInv, RowFor, Working
    <2>2. ~Settled(row[j], refunds[j])
      BY <1>1 DEF Settled, Blocked, Terminal
    <2> QED BY <2>1, <2>2 DEF TraceInv, Traced, Carries
  <1>7. Calm(row[j], r)
    BY <1>1 DEF Calm, Blocked, Terminal
  <1>8. OthersLean(p, j, r, debits'[j], refunds'[j])
    BY <1>1, <1>7, CalmForOthers
  <1>9. StillTraced(p, g, j, r, debits'[j], refunds'[j])
    BY <1>1, <1>6 DEF StillTraced
  <1>10. LeanOn(g, r, debits'[j], refunds'[j])
    BY <1>1, <1>3, <1>6 DEF LeanOn, Completing
  <1>11. proc[p].op = "none"
    BY <1>1, IdleIs
  <1> QED BY <1>1, <1>3, <1>5, <1>8, <1>9, <1>10, <1>11, TraceStep

LEMMA DispatchTraced ==
    ASSUME MoneyInv, PaidInv, TraceInv, NEW p \in Procs, NEW k \in Kinds,
           DispatchFails(p, k) \/ DispatchReady(p, k)
    PROVE  TraceInv'
  <1>1. proc[p].pc = "dispatch" /\ proc[p].op = "execute" /\ Working(proc[p]) /\ Early(proc[p]) /\ ~Carries(proc[p])
    BY DEF DispatchFails, DispatchReady, At, Working, Early, Carries
  <1>2. PICK j \in Jobs : j = proc[p].job
    BY <1>1, AtWork
  <1>3. /\ row[j] \in Row /\ proc[p] \in Frame /\ OnlyLedgerOf(j) /\ debits' = debits /\ refunds' = refunds
    BY <1>1, <1>2, AtWork, QuietLedger DEF DispatchFails, DispatchReady
  <1>4. debits[j] = <<>>
    BY <1>1, <1>2, AtLean DEF LeanOn
  <1>5. \A r : OthersLean(p, j, r, debits'[j], refunds'[j])
    BY <1>1, <1>2, EarlyOnly
  <1>6. \A g, r : StillTraced(p, g, j, r, debits'[j], refunds'[j])
    BY <1>3, <1>4 DEF StillTraced
  <1>7. PICK r \in Row : row' = [row EXCEPT ![j] = r]
    <2>1. "running" \in Statuses /\ "failed" \in Statuses /\ "text" \in Marks /\ "none" \in Execs
      BY DEF Statuses, Blocked, Terminal, Marks, Execs
    <2>2. CASE DispatchFails(p, k)
      <3>1. PICK a \in Row : a = WithStatus(row[j], "failed")
        BY <1>3, <2>1, RowTypes
      <3>2. PICK b \in Row : b = WithError(a, "text", "none", 0)
        BY <2>1, ErrorRow
      <3>3. WithKind(b, k) \in Row
        BY KindRow
      <3> QED BY <1>2, <2>2, <3>1, <3>2, <3>3 DEF DispatchFails, Update
    <2>3. CASE DispatchReady(p, k)
      <3>1. PICK a \in Row : a = WithStatus(row[j], "running")
        BY <1>3, <2>1, RowTypes
      <3>2. WithKind(a, k) \in Row
        BY KindRow
      <3> QED BY <1>2, <2>3, <3>1, <3>2 DEF DispatchReady, Update
    <2> QED BY <2>2, <2>3
  <1>8. PICK g \in Frame : proc' = [proc EXCEPT ![p] = g] /\ (g = Idle \/ (g.pc = "poll" /\ g.op = "execute" /\ g.job = j))
    <2>1. CASE DispatchFails(p, k)
      BY <2>1, IdleFrame DEF DispatchFails, Finish
    <2>2. CASE DispatchReady(p, k)
      <3> DEFINE g == [proc[p] EXCEPT !.pc = "poll", !.kind = k]
      <3>1. g \in Frame /\ g.pc = "poll" /\ g.op = "execute" /\ g.job = j
        BY <1>1, <1>2, <1>3 DEF Frame, Pcs
      <3>2. proc' = [proc EXCEPT ![p] = g]
        BY <2>2 DEF DispatchReady
      <3> HIDE DEF g
      <3> QED BY <3>1, <3>2
    <2> QED BY <2>1, <2>2
  <1>9. g.op # "none" => g.job = j /\ LeanOn(g, r, debits'[j], refunds'[j])
    BY <1>3, <1>4, <1>8, IdleIs DEF LeanOn, Completing
  <1> QED BY <1>2, <1>3, <1>5, <1>6, <1>7, <1>8, <1>9, TraceStep

LEMMA PollTraced ==
    ASSUME MoneyInv, PaidInv, TraceInv, NEW p \in Procs,
           NEW st \in Raw \cup {"timeout"}, NEW d \in Durations, PollEnds(p, st, d)
    PROVE  TraceInv'
  <1>1. /\ proc[p].pc = "poll" /\ proc[p].op = "execute" /\ proc[p].pc # "idle" /\ Early(proc[p]) /\ ~Carries(proc[p])
        /\ row' = row /\ UNCHANGED ledgerVars
    BY DEF PollEnds, At, Working, Early, Carries
  <1>2. proc[p] \in Frame
    BY <1>1, AtWork
  <1>3. PICK g : g = [proc[p] EXCEPT !.pc = "read", !.st = st, !.dur = d]
    OBVIOUS
  <1>4. g \in Frame /\ g.pc = "read" /\ g.op = "execute" /\ g.job = proc[p].job
    BY <1>1, <1>2, <1>3 DEF Frame, Pcs, Raw, Statuses, Blocked, Terminal
  <1>5. proc' = [proc EXCEPT ![p] = g]
    BY <1>3 DEF PollEnds
  <1>6. LeanOn(g, row[proc[p].job], debits[proc[p].job], refunds[proc[p].job])
    BY <1>1, <1>4, AtLean DEF LeanOn
  <1> QED BY <1>1, <1>4, <1>5, <1>6, ReadsTraced

LEMMA FinalizeReadTraced ==
    ASSUME MoneyInv, PaidInv, TraceInv, NEW p \in Procs, FinalizeRead(p)
    PROVE  TraceInv'
  <1> DEFINE f == proc[p]
  <1>1. f.pc = "read" /\ f.pc # "idle" /\ row' = row /\ UNCHANGED ledgerVars /\ ~Carries(f)
    BY DEF FinalizeRead, Carries
  <1>2. f \in Frame /\ Cost(p) = CostOf[f.dur] /\ Shape(f)
    BY <1>1, AtWork DEF Cost
  <1>3. LeanOn(f, row[f.job], debits[f.job], refunds[f.job]) /\ f.op \in {"execute", "sweep"}
    BY <1>1, <1>2, AtLean DEF Shape
  <1>4. CASE Return(p, "skip")
    <2>1. PICK g : g = [f EXCEPT !.pc = "write", !.bill = "skip"]
      OBVIOUS
    <2>2. g \in Frame /\ g.pc = "write" /\ g.bill = "skip" /\ g.op = f.op /\ g.job = f.job
      BY <1>2, <2>1 DEF Frame, Pcs, Billing
    <2>3. proc' = [proc EXCEPT ![p] = g]
      BY <1>3, <1>4, <2>1 DEF Return, Returned
    <2>4. LeanOn(g, row[f.job], debits[f.job], refunds[f.job])
      BY <1>1, <1>3, <2>2 DEF LeanOn, Early, Carries, Working
    <2> QED BY <1>1, <2>2, <2>3, <2>4, ReadsTraced
  <1>5. CASE Goto(p, "debit") /\ Cost(p) # 0
    <2>1. "debit" \in Pcs
      BY DEF Pcs
    <2>2. PICK g \in Frame : g = [f EXCEPT !.pc = "debit"]
      BY <1>2, <2>1, NextFrame
    <2>3. g.pc = "debit" /\ g.op = f.op /\ g.job = f.job /\ g.dur = f.dur
      BY <1>2, <2>1, <2>2, NextFrame
    <2>4. proc' = [proc EXCEPT ![p] = g]
      BY <1>5, <2>2 DEF Goto
    <2>5. LeanOn(g, row[f.job], debits[f.job], refunds[f.job])
      BY <1>1, <1>2, <1>3, <1>5, <2>3 DEF LeanOn, Early, Carries, Working
    <2> QED BY <1>1, <2>3, <2>4, <2>5, ReadsTraced
  <1> QED BY <1>4, <1>5 DEF FinalizeRead

\* A sweeper works on a job that is parked or settled.
LEMMA SweptIsSettled ==
    ASSUME MoneyInv, PaidInv, TraceInv, NEW p \in Procs, proc[p].op = "sweep", proc[p].pc # "idle", NEW ds, NEW rs
    PROVE  /\ Settled(row[proc[p].job], rs) /\ ~Carries(proc[p])
           /\ OthersLean(p, proc[p].job, row[proc[p].job], ds, refunds[proc[p].job])
  <1>1. row[proc[p].job].status \in Blocked \ {"cancelled"}
    BY AtLean DEF LeanOn
  <1>2. ASSUME NEW q \in Procs, q # p, proc[q].op # "none", proc[q].job = proc[p].job
        PROVE  LeanOn(proc[q], row[proc[p].job], ds, refunds[proc[p].job])
    <2>1. After(proc[p])
      BY DEF After
    <2>2. ~Early(proc[q])
      BY <1>2, <2>1 DEF PaidInv, OneTask
    <2>3. LeanOn(proc[q], row[proc[p].job], debits[proc[p].job], refunds[proc[p].job])
      BY <1>2 DEF TraceInv
    <2> QED BY <2>2, <2>3 DEF LeanOn
  <1> QED BY <1>1, <1>2 DEF Settled, OthersLean, Carries, Working


LEMMA FinalizeDebitTraced ==
    ASSUME MoneyInv, PaidInv, TraceInv, NEW p \in Procs, FinalizeDebit(p)
    PROVE  TraceInv'
  <1> DEFINE f == proc[p]
  <1>1. f.pc = "debit" /\ f.pc # "idle" /\ row' = row /\ ~Carries(f)
    BY DEF FinalizeDebit, Carries
  <1>2. PICK j \in Jobs : j = f.job
    BY <1>1, AtWork
  <1>3. f \in Frame /\ Shape(f) /\ row[j] \in Row /\ row' = [row EXCEPT ![j] = row[j]] /\ Cost(p) \in Nat
    BY <1>1, <1>2, AtWork, SameRow
  <1>4. LeanOn(f, row[j], debits[j], refunds[j]) /\ f.op \in {"execute", "sweep"}
    BY <1>1, <1>2, <1>3, AtLean DEF Shape
  <1>5. PICK answer \in {"debited", "no_funds", "mismatch"} : DebitIfFunds(j, Cost(p), answer) /\ AfterDebit(p, answer)
    BY <1>2 DEF FinalizeDebit
  <1>6. OnlyLedgerOf(j) /\ refunds' = refunds /\ (answer # "debited" => debits' = debits)
    BY <1>5 DEF DebitIfFunds, DebitRow, NoDebitRow, OnlyLedgerOf, ledgerVars, MoneyInv, TypeOK, LedgerTypeOK
  <1>7. PICK g \in Frame : /\ proc' = [proc EXCEPT ![p] = g] /\ g.op = f.op /\ g.job = j /\ g.dur = f.dur
                           /\ \/ answer = "debited" /\ g.pc = "meter"
                              \/ answer # "debited" /\ g.pc = "write" /\ g.bill = answer
    <2>1. CASE answer = "debited"
      <3>1. "meter" \in Pcs /\ Goto(p, "meter")
        BY <1>5, <2>1 DEF Pcs, AfterDebit
      <3>2. PICK g \in Frame : g = [f EXCEPT !.pc = "meter"]
        BY <1>3, <3>1, NextFrame
      <3>3. g.pc = "meter" /\ g.op = f.op /\ g.job = f.job /\ g.dur = f.dur
        BY <1>3, <3>1, <3>2, NextFrame
      <3> QED BY <1>2, <2>1, <3>1, <3>2, <3>3 DEF Goto
    <2>2. CASE answer # "debited"
      <3> DEFINE g == [f EXCEPT !.pc = "write", !.bill = answer]
      <3>1. answer \in Billing /\ "write" \in Pcs /\ Return(p, answer)
        BY <1>5, <2>2 DEF Billing, Pcs, AfterDebit
      <3>2. g \in Frame /\ g.pc = "write" /\ g.bill = answer /\ g.op = f.op /\ g.job = f.job /\ g.dur = f.dur
        BY <1>3, <3>1 DEF Frame
      <3>3. proc' = [proc EXCEPT ![p] = g]
        BY <1>4, <3>1 DEF Return, Returned
      <3> HIDE DEF g
      <3> QED BY <1>2, <2>2, <3>2, <3>3
    <2> QED BY <2>1, <2>2
  <1>8. CASE f.op = "execute"
    <2>1. debits[j] = <<>> /\ CostOf[f.dur] # 0 /\ Early(f)
      BY <1>1, <1>4, <1>8 DEF LeanOn, Early, Working
    <2>2. answer # "debited" => debits'[j] = <<>> /\ answer = "no_funds"
      BY <1>5, <1>6, <2>1 DEF DebitIfFunds, IdemLookup
    <2>3. LeanOn(g, row[j], debits'[j], refunds'[j]) /\ (answer = "debited" => Carries(g))
      BY <1>7, <1>8, <2>1, <2>2 DEF LeanOn, Carries, Working, Completing
    <2>4. StillTraced(p, g, j, row[j], debits'[j], refunds'[j])
      BY <2>2, <2>3 DEF StillTraced
    <2>5. OthersLean(p, j, row[j], debits'[j], refunds'[j])
      BY <1>2, <2>1, EarlyOnly
    <2> QED BY <1>2, <1>3, <1>6, <1>7, <2>3, <2>4, <2>5, TraceStep
  <1>9. CASE f.op = "sweep"
    <2>1. Settled(row[j], refunds'[j]) /\ OthersLean(p, j, row[j], debits'[j], refunds[j])
      BY <1>1, <1>2, <1>9, SweptIsSettled
    <2>2. LeanOn(g, row[j], debits'[j], refunds'[j])
      BY <1>4, <1>7, <1>9 DEF LeanOn, Early, Working
    <2> QED BY <1>2, <1>3, <1>6, <1>7, <2>1, <2>2, TraceStep DEF StillTraced
  <1> QED BY <1>4, <1>8, <1>9

LEMMA FinalizeMeterTraced ==
    ASSUME MoneyInv, PaidInv, TraceInv, NEW p \in Procs, FinalizeMeter(p)
    PROVE  TraceInv'
  <1> DEFINE f == proc[p]
  <1>1. f.pc = "meter" /\ f.pc # "idle" /\ row' = row /\ debits' = debits /\ refunds' = refunds
    BY DEF FinalizeMeter, RecordUsage
  <1>2. PICK j \in Jobs : j = f.job
    BY <1>1, AtWork
  <1>3. f \in Frame /\ Shape(f) /\ row[j] \in Row /\ row' = [row EXCEPT ![j] = row[j]] /\ OnlyLedgerOf(j)
    BY <1>1, <1>2, AtWork, SameRow DEF OnlyLedgerOf
  <1>4. LeanOn(f, row[j], debits[j], refunds[j]) /\ f.op \in {"execute", "sweep"}
    BY <1>1, <1>2, <1>3, AtLean DEF Shape
  <1>5. PICK g : g = [f EXCEPT !.pc = "write", !.bill = "ok"]
    OBVIOUS
  <1>6. g \in Frame /\ g.pc = "write" /\ g.bill = "ok" /\ g.op = f.op /\ g.job = j /\ g.dur = f.dur
    BY <1>2, <1>3, <1>5 DEF Frame, Pcs, Billing
  <1>7. proc' = [proc EXCEPT ![p] = g]
    BY <1>4, <1>5 DEF FinalizeMeter, Return, Returned
  <1>8. LeanOn(g, row[j], debits'[j], refunds'[j]) /\ (Carries(f) => Carries(g))
    BY <1>1, <1>4, <1>6 DEF LeanOn, Carries, Early, Working
  <1>9. StillTraced(p, g, j, row[j], debits'[j], refunds'[j])
    BY <1>1, <1>8, QuietTrace
  <1>10. OthersLean(p, j, row[j], debits'[j], refunds'[j])
    BY <1>1, CalmSame, CalmForOthers
  <1> QED BY <1>2, <1>3, <1>6, <1>7, <1>8, <1>9, <1>10, TraceStep

LEMMA TaskWriteTraced ==
    ASSUME MoneyInv, PaidInv, TraceInv, NEW p \in Procs, TaskWrite(p)
    PROVE  TraceInv'
  <1> DEFINE f == proc[p]
  <1>1. /\ f.pc = "write" /\ f.op = "execute" /\ f.pc # "idle" /\ Early(f) /\ Working(f)
        /\ At(p, "write", "execute") /\ UNCHANGED ledgerVars
    BY DEF TaskWrite, At, Early, Working
  <1>2. PICK j \in Jobs : j = f.job
    BY <1>1, AtWork
  <1>3. f \in Frame /\ Shape(f) /\ row[j] \in Row /\ Cost(p) = CostOf[f.dur]
    BY <1>1, <1>2, AtWork DEF Cost
  <1>4. OnlyLedgerOf(j) /\ debits' = debits /\ refunds' = refunds /\ LeanOn(f, row[j], debits[j], refunds[j])
    BY <1>1, <1>2, AtLean, QuietLedger
  <1>5. PICK pc \in {"check", "cleanup"} :
           Goto(p, pc) /\ pc = IF row[j].status \in Blocked /\ f.bill = "ok" THEN "check" ELSE "cleanup"
    BY <1>2 DEF TaskWrite
  <1>6. "check" \in Pcs /\ "cleanup" \in Pcs
    BY DEF Pcs
  <1>7. PICK g \in Frame : g = [f EXCEPT !.pc = pc]
    BY <1>3, <1>5, <1>6, NextFrame
  <1>8. g.pc = pc /\ g.op = "execute" /\ g.job = j
    BY <1>1, <1>2, <1>3, <1>6, <1>7, NextFrame
  <1>9. proc' = [proc EXCEPT ![p] = g]
    BY <1>5, <1>7 DEF Goto
  <1>10. \A r : OthersLean(p, j, r, debits'[j], refunds'[j])
    BY <1>1, <1>2, EarlyOnly
  <1>11. f.bill # "ok" => debits[j] = <<>>
    BY <1>1, <1>4 DEF LeanOn, Carries
  <1>12. CASE row[j].status \in Blocked
    <2>1. row' = [row EXCEPT ![j] = row[j]]
      BY <1>2, <1>12, Conditional DEF TaskWrite
    <2>2. LeanOn(g, row[j], debits'[j], refunds'[j])
      BY <1>5, <1>8, <1>12 DEF LeanOn, Early, Carries, Working, Completing
    <2>3. StillTraced(p, g, j, row[j], debits'[j], refunds'[j])
      <3>1. f.bill = "ok" => Carries(g)
        BY <1>5, <1>8, <1>12 DEF Carries, Working
      <3> QED BY <1>4, <1>11, <3>1 DEF StillTraced
    <2> QED BY <1>2, <1>3, <1>4, <1>8, <1>9, <1>10, <2>1, <2>2, <2>3, TraceStep
  <1>13. CASE row[j].status \notin Blocked
    <2>1. PICK r \in Row : r = FinalRow(p)
      BY <1>1, FinalRowGood, SameLedger
    <2>2. r.status = WriteStatus(f.st, f.bill) /\ (f.bill = "ok" => r.cost = Cost(p))
      BY <1>1, <1>2, <2>1, FinalRowIs
    <2>3. row' = [row EXCEPT ![j] = r]
      BY <1>2, <1>13, <2>1, Conditional DEF TaskWrite
    <2>4. LeanOn(g, r, debits'[j], refunds'[j])
      BY <1>5, <1>8, <1>13 DEF LeanOn, Early, Carries, Working, Completing
    <2>5. StillTraced(p, g, j, r, debits'[j], refunds'[j])
      <3>1. ASSUME f.bill = "ok" PROVE Settled(r, refunds'[j])
        <4>1. f.st \in Raw \cup {"timeout"} /\ CostOf[f.dur] # 0
          BY <1>1, <1>3, <1>4, <3>1 DEF Shape, LeanOn
        <4>2. r.status = f.st
          BY <2>2, <3>1 DEF WriteStatus
        <4> QED BY <1>3, <2>2, <3>1, <4>1, <4>2 DEF Settled, Raw, Blocked, Terminal
      <3> QED BY <1>4, <1>11, <3>1 DEF StillTraced
    <2> QED BY <1>2, <1>4, <1>8, <1>9, <1>10, <2>3, <2>4, <2>5, TraceStep
  <1> QED BY <1>12, <1>13

LEMMA TaskCheckTraced ==
    ASSUME MoneyInv, PaidInv, TraceInv, NEW p \in Procs, TaskCheck(p)
    PROVE  TraceInv'
  <1> DEFINE f == proc[p]
             pc == IF row[f.job].status = "cancelled" THEN "refund" ELSE "cleanup"
  <1>1. f.pc = "check" /\ f.op = "execute" /\ f.pc # "idle" /\ Working(f) /\ UNCHANGED ledgerVars /\ row' = row
    BY DEF TaskCheck, At, Working
  <1>2. PICK j \in Jobs : j = f.job
    BY <1>1, AtWork
  <1>3. f \in Frame /\ row[j] \in Row /\ row' = [row EXCEPT ![j] = row[j]]
    BY <1>1, <1>2, AtWork, SameRow
  <1>4. OnlyLedgerOf(j) /\ debits' = debits /\ refunds' = refunds /\ row[j].status \in Blocked
    BY <1>1, <1>2, AtLean, QuietLedger DEF LeanOn
  <1>5. PICK g \in Frame : proc' = [proc EXCEPT ![p] = g] /\ g.pc = pc /\ g.op = "execute" /\ g.job = j
    <2>1. pc \in Pcs /\ 0 \in 0..3
      BY DEF Pcs
    <2>2. proc' = [proc EXCEPT ![p] = Attempt(f, 0, pc)]
      BY DEF TaskCheck, Attempt
    <2> HIDE DEF pc
    <2>3. /\ Attempt(f, 0, pc) \in Frame /\ Attempt(f, 0, pc).pc = pc
          /\ Attempt(f, 0, pc).op = f.op /\ Attempt(f, 0, pc).job = f.job
      BY ONLY <1>3, <2>1 DEF Attempt, Frame
    <2> QED BY <1>1, <1>2, <2>2, <2>3
  <1>6. LeanOn(g, row[j], debits'[j], refunds'[j])
    BY <1>5 DEF LeanOn, Early, Carries, Working, Completing
  <1>7. StillTraced(p, g, j, row[j], debits'[j], refunds'[j])
    <2>1. CASE row[j].status = "cancelled"
      BY <1>2, <1>5, <2>1 DEF StillTraced, Carries, Working
    <2>2. CASE row[j].status # "cancelled"
      BY <1>4, <2>2 DEF StillTraced, Settled
    <2> QED BY <2>1, <2>2
  <1>8. OthersLean(p, j, row[j], debits'[j], refunds'[j])
    BY <1>4, CalmSame, CalmForOthers
  <1> QED BY <1>2, <1>3, <1>4, <1>5, <1>6, <1>7, <1>8, TraceStep


LEMMA RefundIsKept ==
    ASSUME MoneyInv, NEW j \in Jobs, NEW a \in Nat, Refund(j, a)
    PROVE  OnlyLedgerOf(j) /\ debits' = debits /\ refunds'[j] # <<>>
  <1>1. refunds \in [Jobs -> Seq(Nat)]
    BY DEF MoneyInv, TypeOK, LedgerTypeOK
  <1>2. CASE refunds[j] = <<>>
    <2>1. refunds' = [refunds EXCEPT ![j] = Append(refunds[j], a)] /\ debits' = debits
      BY <1>2 DEF Refund
    <2>2. Append(refunds[j], a) = <<a>> /\ <<a>> # <<>>
      BY <1>2, OneElement
    <2>3. refunds'[j] = <<a>> /\ \A i \in Jobs : i # j => refunds'[i] = refunds[i]
      BY <1>1, <2>1, <2>2
    <2> QED BY <2>1, <2>2, <2>3 DEF OnlyLedgerOf
  <1>3. CASE refunds[j] # <<>>
    BY <1>3 DEF Refund, OnlyLedgerOf, ledgerVars
  <1> QED BY <1>2, <1>3

\* A refund of job j, or an attempt at one: the slot p goes on as g.
LEMMA RefundTraced ==
    ASSUME MoneyInv, PaidInv, TraceInv, NEW p \in Procs, proc[p].pc # "idle", row' = row, NEW a \in Nat,
           NEW paid, paid => Refund(proc[p].job, a), ~paid => UNCHANGED ledgerVars,
           row[proc[p].job].status \in Terminal,
           NEW g \in Frame, proc' = [proc EXCEPT ![p] = g], Carries(proc[p]) => paid \/ Carries(g),
           g.op # "none" => g.job = proc[p].job /\ g.op \in {"execute", "refund_sweep"} /\ ~Early(g)
                            /\ g.pc # "check" /\ (g.pc = "clear" => paid)
    PROVE  TraceInv'
  <1>1. PICK j \in Jobs : j = proc[p].job
    BY AtWork
  <1>2. row[j] \in Row /\ row' = [row EXCEPT ![j] = row[j]]
    BY SameRow
  <1>3. OnlyLedgerOf(j) /\ debits' = debits /\ (paid => refunds'[j] # <<>>) /\ (~paid => refunds' = refunds)
    BY <1>1, RefundIsKept, QuietLedger
  <1>4. refunds[j] # <<>> => refunds'[j] # <<>>
    BY <1>3
  <1>5. OthersLean(p, j, row[j], debits'[j], refunds'[j])
    BY <1>3, <1>4, CalmSame, CalmForOthers
  <1>6. StillTraced(p, g, j, row[j], debits'[j], refunds'[j])
    <2>1. CASE paid
      BY <1>1, <1>3, <2>1 DEF StillTraced, Settled, Blocked
    <2>2. CASE ~paid
      BY <1>3, <2>2, QuietTrace
    <2> QED BY <2>1, <2>2
  <1>7. g.op # "none" => g.job = j /\ LeanOn(g, row[j], debits'[j], refunds'[j])
    <2>1. ASSUME g.op # "none" PROVE LeanOn(g, row[j], debits'[j], refunds'[j])
      <3>1. ~(Working(g) /\ (g.pc \in {"debit", "meter"} \/ (g.pc = "write" /\ g.bill = "ok")))
        BY <2>1 DEF Early
      <3> QED BY <1>3, <2>1, <3>1 DEF LeanOn, Completing
    <2> QED BY <1>1, <2>1
  <1> QED BY <1>1, <1>2, <1>3, <1>5, <1>6, <1>7, TraceStep

LEMMA TaskRefundTraced ==
    ASSUME MoneyInv, PaidInv, TraceInv, NEW p \in Procs, TaskRefund(p) \/ TaskRefundUnavailable(p)
    PROVE  TraceInv'
  <1> DEFINE f == proc[p]
  <1>1. f.pc = "refund" /\ f.op = "execute" /\ f.pc # "idle" /\ Working(f) /\ row' = row
    BY DEF TaskRefund, TaskRefundUnavailable, At, Working
  <1>2. f \in Frame /\ Cost(p) \in Nat /\ row[f.job].status \in Terminal
    BY <1>1, AtWork DEF RowFor
  <1>3. CASE TaskRefund(p)
    <2>1. "cleanup" \in Pcs /\ Goto(p, "cleanup") /\ Refund(f.job, Cost(p))
      BY <1>3 DEF Pcs, TaskRefund
    <2>2. PICK g \in Frame : g = [f EXCEPT !.pc = "cleanup"]
      BY <1>2, <2>1, NextFrame
    <2>3. g.pc = "cleanup" /\ g.op = "execute" /\ g.job = f.job
      BY <1>1, <1>2, <2>1, <2>2, NextFrame
    <2>4. proc' = [proc EXCEPT ![p] = g] /\ ~Early(g)
      BY <2>1, <2>2, <2>3 DEF Goto, Early
    <2> DEFINE paid == TRUE
    <2>5. paid => Refund(f.job, Cost(p))
      BY <2>1
    <2> QED BY <1>1, <1>2, <2>3, <2>4, <2>5, RefundTraced
  <1>4. CASE TaskRefundUnavailable(p)
    <2> DEFINE paid == Refund(f.job, Cost(p))
               pc == IF f.tries = 2 THEN "mark" ELSE "refund"
    <2>1. paid \/ UNCHANGED ledgerVars
      BY <1>4 DEF TaskRefundUnavailable
    <2>2. pc \in Pcs /\ f.tries + 1 \in 0..3 /\ pc \in {"mark", "refund"}
      BY <1>2, <1>4 DEF TaskRefundUnavailable, At, MoneyInv, FrameInv, Frame, Pcs
    <2>3. proc' = [proc EXCEPT ![p] = Attempt(f, f.tries + 1, pc)]
      BY <1>4 DEF TaskRefundUnavailable, Attempt
    <2> HIDE DEF pc
    <2>4. PICK n \in 0..3 : n = f.tries + 1
      BY <2>2
    <2>5. /\ Attempt(f, n, pc) \in Frame /\ Attempt(f, n, pc).pc = pc
          /\ Attempt(f, n, pc).op = f.op /\ Attempt(f, n, pc).job = f.job
      BY ONLY <1>2, <2>2, <2>4 DEF Attempt, Frame
    <2>6. PICK g \in Frame : proc' = [proc EXCEPT ![p] = g] /\ g.pc = pc /\ g.op = "execute" /\ g.job = f.job
      BY <1>1, <2>3, <2>4, <2>5
    <2>7. Carries(g) /\ ~Early(g)
      BY <2>2, <2>6 DEF Carries, Early, Working
    <2>8. g.pc # "check" /\ g.pc # "clear"
      BY <2>2, <2>6
    <2>9. CASE paid
      <3> HIDE DEF paid
      <3> QED BY <1>1, <1>2, <2>6, <2>7, <2>8, <2>9, RefundTraced DEF paid
    <2>10. CASE UNCHANGED ledgerVars
      BY <1>1, <1>2, <2>6, <2>7, <2>8, <2>10, RefundTraced
    <2> QED BY <2>1, <2>9, <2>10
  <1> QED BY <1>3, <1>4


\* A slot that writes the row r of its job and goes on as g, or ends.
LEMMA WritesTraced ==
    ASSUME MoneyInv, PaidInv, TraceInv, UNCHANGED ledgerVars, NEW p \in Procs, proc[p].pc # "idle",
           NEW g \in Frame, proc' = [proc EXCEPT ![p] = g], NEW r \in Row, row' = [row EXCEPT ![proc[p].job] = r],
           Calm(row[proc[p].job], r), g.op # "none" => g.job = proc[p].job /\ g.op = "execute" /\ g.pc = "cleanup",
           \/ Settled(r, refunds[proc[p].job])
           \/ ~Carries(proc[p]) /\ (Settled(row[proc[p].job], refunds[proc[p].job]) => Settled(r, refunds[proc[p].job]))
    PROVE  TraceInv'
  <1>1. PICK j \in Jobs : j = proc[p].job
    BY AtWork
  <1>2. OnlyLedgerOf(j) /\ debits' = debits /\ refunds' = refunds
    BY QuietLedger
  <1>3. OthersLean(p, j, r, debits'[j], refunds'[j])
    BY <1>1, <1>2, CalmForOthers
  <1>4. StillTraced(p, g, j, r, debits'[j], refunds'[j])
    <2>1. CASE Settled(r, refunds[j])
      BY <1>2, <2>1 DEF StillTraced
    <2>2. CASE ~Settled(r, refunds[j])
      BY <1>1, <1>2, <2>2, QuietTrace
    <2> QED BY <2>1, <2>2
  <1>5. g.op # "none" => g.job = j /\ LeanOn(g, r, debits'[j], refunds'[j])
    BY <1>1 DEF LeanOn, Early, Carries, Working, Completing
  <1> QED BY <1>1, <1>2, <1>3, <1>4, <1>5, TraceStep

LEMMA TaskMarkTraced ==
    ASSUME MoneyInv, PaidInv, TraceInv, NEW p \in Procs, TaskMark(p)
    PROVE  TraceInv'
  <1> DEFINE f == proc[p]
  <1>1. f.pc = "mark" /\ f.op = "execute" /\ f.pc # "idle" /\ Working(f) /\ UNCHANGED ledgerVars
    BY DEF TaskMark, At, Working
  <1>2. f \in Frame /\ f.job \in Jobs /\ row[f.job] \in Row /\ Cost(p) \in Nat /\ row[f.job].status \in Terminal
    BY <1>1, AtWork DEF RowFor
  <1>3. "refund_pending" \in Marks /\ "none" \in Execs /\ "cleanup" \in Pcs
    BY DEF Marks, Execs, Pcs
  <1>4. PICK r \in Row : r = WithError(row[f.job], "refund_pending", "none", Cost(p))
    BY <1>2, <1>3, ErrorRow
  <1>5. r.status = row[f.job].status /\ r.mark = "refund_pending"
    BY <1>2, <1>4, WrittenFields
  <1>6. PICK g \in Frame : g = [f EXCEPT !.pc = "cleanup"]
    BY <1>2, <1>3, NextFrame
  <1>7. g.pc = "cleanup" /\ g.op = "execute" /\ g.job = f.job
    BY <1>1, <1>2, <1>3, <1>6, NextFrame
  <1>8. row' = [row EXCEPT ![f.job] = r] /\ proc' = [proc EXCEPT ![p] = g]
    BY <1>4, <1>6 DEF TaskMark, Update, Goto
  <1>9. Calm(row[f.job], r) /\ Settled(r, refunds[f.job])
    BY <1>2, <1>5 DEF Calm, Settled, Blocked
  <1> QED BY <1>1, <1>7, <1>8, <1>9, WritesTraced

LEMMA PickedTraced ==
    ASSUME MoneyInv, PaidInv, TraceInv, NEW p \in Procs, NEW j \in Jobs, SweepPick(p, j) \/ RefundSweepPick(p, j)
    PROVE  TraceInv'
  <1>1. /\ OnlyLedgerOf(j) /\ debits' = debits /\ refunds' = refunds
        /\ row[j] \in Row /\ row' = [row EXCEPT ![j] = row[j]] /\ proc[p] = Idle
    BY QuietLedger, SameRow DEF SweepPick, RefundSweepPick
  <1>2. PICK g \in Frame :
           /\ proc' = [proc EXCEPT ![p] = g] /\ g.job = j
           /\ \/ g.pc = "read" /\ g.op = "sweep" /\ row[j].status = "billing_pending"
              \/ g.pc = "refund" /\ g.op = "refund_sweep"
    BY PickedFrame
  <1>3. LeanOn(g, row[j], debits'[j], refunds'[j])
    BY <1>2 DEF LeanOn, Early, Carries, Working, Completing, Blocked, Terminal
  <1>4. StillTraced(p, g, j, row[j], debits'[j], refunds'[j])
    BY <1>1, IdleLean, QuietTrace
  <1>5. OthersLean(p, j, row[j], debits'[j], refunds'[j])
    BY <1>1, CalmSame, CalmForOthers
  <1> QED BY <1>1, <1>2, <1>3, <1>4, <1>5, IdleIs, TraceStep

LEMMA SweepWriteTraced ==
    ASSUME MoneyInv, PaidInv, TraceInv, NEW p \in Procs, SweepWrite(p)
    PROVE  TraceInv'
  <1> DEFINE f == proc[p]
  <1>1. f.op = "sweep" /\ f.pc # "idle" /\ UNCHANGED ledgerVars /\ proc' = [proc EXCEPT ![p] = Idle]
    BY DEF SweepWrite, At, Finish
  <1>2. PICK j \in Jobs : j = f.job
    BY <1>1, AtWork
  <1>3. row[j].status \in Blocked \ {"cancelled"} /\ f \in Frame
    BY <1>1, <1>2, AtLean, AtWork DEF LeanOn
  <1>4. PICK r \in Row :
              /\ row' = [row EXCEPT ![j] = r] /\ r.dur = row[j].dur
              /\ \/ r = row[j]
                 \/ r.status = row[j].status /\ r.exec = f.exec /\ r.mark = "no_funds"
                 \/ /\ row[j].status \notin Terminal
                    /\ f.bill \in {"ok", "skip"} /\ r.status = Restored(f, "completed") /\ r.mark = "none"
                 \/ /\ row[j].status \notin Terminal
                    /\ f.bill = "mismatch" /\ r.status = Restored(f, "error") /\ r.mark = "mismatch"
    BY <1>2, SweepWrites
  <1>5. r.status \in Blocked \ {"cancelled"}
    <2>1. f.exec \in {"none", "timeout", "failed"}
      BY <1>3 DEF Frame, Execs
    <2> QED BY <1>3, <1>4, <2>1 DEF Restored, Blocked, Terminal
  <1>6. Calm(row[j], r) /\ Settled(r, refunds[j])
    BY <1>5 DEF Calm, Settled
  <1> QED BY <1>1, <1>2, <1>4, <1>6, IdleIs, IdleFrame, WritesTraced

LEMMA RefundSweepTraced ==
    ASSUME MoneyInv, PaidInv, TraceInv, NEW p \in Procs,
           RefundSweepPay(p) \/ RefundSweepUnavailable(p) \/ RefundSweepClear(p)
    PROVE  TraceInv'
  <1> DEFINE f == proc[p]
  <1>1. f.pc \in {"refund", "clear"} /\ f.op = "refund_sweep" /\ f.pc # "idle" /\ ~Carries(f)
    BY DEF RefundSweepPay, RefundSweepUnavailable, RefundSweepClear, At, Carries, Working
  <1>2. f \in Frame /\ f.job \in Jobs /\ row[f.job] \in Row /\ row[f.job].status \in Terminal /\ f.owed \in Nat
    BY <1>1, AtWork DEF RowFor, Frame
  <1>3. CASE RefundSweepPay(p)
    <2>1. "clear" \in Pcs /\ Goto(p, "clear") /\ Refund(f.job, f.owed) /\ row' = row
      BY <1>3 DEF Pcs, RefundSweepPay
    <2>2. PICK g \in Frame : g = [f EXCEPT !.pc = "clear"]
      BY <1>2, <2>1, NextFrame
    <2>3. g.pc = "clear" /\ g.op = "refund_sweep" /\ g.job = f.job
      BY <1>1, <1>2, <2>1, <2>2, NextFrame
    <2>4. proc' = [proc EXCEPT ![p] = g] /\ ~Early(g)
      BY <2>1, <2>2, <2>3 DEF Goto, Early
    <2> DEFINE paid == TRUE
    <2>5. paid => Refund(f.job, f.owed)
      BY <2>1
    <2> QED BY <1>1, <1>2, <2>1, <2>3, <2>4, <2>5, RefundTraced
  <1>4. CASE RefundSweepUnavailable(p)
    <2>1. /\ Refund(f.job, f.owed) \/ UNCHANGED ledgerVars
          /\ row' = row /\ proc' = [proc EXCEPT ![p] = Idle]
      BY <1>4 DEF RefundSweepUnavailable, Finish
    <2>2. CASE Refund(f.job, f.owed)
      <3> DEFINE paid == TRUE
      <3>1. paid => Refund(f.job, f.owed)
        BY <2>2
      <3> QED BY <1>1, <1>2, <2>1, <3>1, IdleIs, IdleFrame, RefundTraced
    <2>3. CASE UNCHANGED ledgerVars
      BY <1>1, <2>1, <2>3, IdleIs, IdleFrame, ReadsTraced
    <2> QED BY <2>1, <2>2, <2>3
  <1>5. CASE RefundSweepClear(p)
    <2>1. "none" \in Marks /\ "none" \in Execs
      BY DEF Marks, Execs
    <2>2. PICK r \in Row : r = WithError(row[f.job], "none", "none", 0)
      BY <1>2, <2>1, ErrorRow
    <2>3. r.status = row[f.job].status
      BY <1>2, <2>2, WrittenFields
    <2>4. row' = [row EXCEPT ![f.job] = r] /\ proc' = [proc EXCEPT ![p] = Idle] /\ UNCHANGED ledgerVars
      BY <1>5, <2>2 DEF RefundSweepClear, Update, Finish
    <2>5. refunds[f.job] # <<>>
      BY <1>1, <1>5, AtLean DEF LeanOn, RefundSweepClear, At
    <2>6. Calm(row[f.job], r) /\ Settled(r, refunds[f.job])
      BY <1>2, <2>3, <2>5 DEF Calm, Settled, Blocked
    <2> QED BY <1>1, <2>4, <2>6, IdleIs, IdleFrame, WritesTraced
  <1> QED BY <1>3, <1>4, <1>5

\* Without requests no handler is at work.
LEMMA NoHandlers ==
    ASSUME MoneyInv, PaidInv, TraceInv, NEW p \in Procs,
           \/ \E d \in Durations : DurationKnown(p, d)
           \/ DurationUnknown(p) \/ CompleteCleanup(p) \/ HandlerWrite(p)
    PROVE  FALSE
  <1>1. /\ proc[p].pc \in {"asked", "cleanup", "write"} /\ proc[p].pc # "idle"
        /\ proc[p].pc = "cleanup" => proc[p].op = "complete"
        /\ proc[p].pc = "write" => p \in Handlers
    BY DEF DurationKnown, DurationUnknown, CompleteCleanup, HandlerWrite, At
  <1>2. Shape(proc[p]) /\ Placed(p, proc[p]) /\ proc[p].op \in {"execute", "sweep", "refund_sweep"}
    BY <1>1, AtWork, AtLean
  <1> QED BY <1>1, <1>2, JobAssumption DEF Shape, Placed, Working, After

LEMMA TraceSame ==
    ASSUME TraceInv, row' = row, proc' = proc, debits' = debits, refunds' = refunds
    PROVE  TraceInv'
  BY DEF TraceInv, Traced

LEMMA TraceInit == Init => TraceInv
  <1> SUFFICES ASSUME Init PROVE TraceInv
    OBVIOUS
  <1>1. (\A p \in Procs : proc[p] = Idle) /\ \A j \in Jobs : debits[j] = <<>>
    BY DEF Init, LedgerInit
  <1> QED BY <1>1, IdleIs DEF TraceInv, Traced

LEMMA TraceNext ==
    ASSUME Events \subseteq Lenient, MoneyInv, PaidInv, TraceInv, [Next]_vars
    PROVE  TraceInv'
  <1>0. \A kind : Fault(kind) => kind \in Lenient
    BY DEF Fault
  <1>1. CASE UNCHANGED vars
    BY <1>1, TraceSame DEF vars, jobVars, ledgerVars
  <1>2. ASSUME NEW t \in Tenants, TopUpTenant(t) PROVE TraceInv'
    BY <1>2, TraceSame DEF TopUpTenant, TopUp, jobVars
  <1>3. ASSUME NEW j \in Jobs, NEW kind \in Kinds, SubmitTask(j, kind) PROVE TraceInv'
    BY <1>3, RowActionsTraced
  <1>4. ASSUME NEW j \in Jobs, CancelJob(j) \/ SweepOrphan(j) PROVE TraceInv'
    <2>1. "cpu_execution" \in Kinds
      BY DEF Kinds
    <2> QED BY <1>4, <2>1, RowActionsTraced
  <1>5. ASSUME NEW j \in Jobs, PauseEnds(j) PROVE TraceInv'
    BY <1>5, TraceSame DEF PauseEnds, ledgerVars
  <1>6. ASSUME NEW p \in Procs, NEW j \in Jobs,
               ClaimQueued(p, j) \/ SweepPick(p, j) \/ RefundSweepPick(p, j)
        PROVE  TraceInv'
    BY <1>6, ClaimTraced, PickedTraced
  <1>7. ASSUME NEW p \in Procs, NEW j \in Jobs, NEW op \in Requests, Ask(p, op, j)
        PROVE  FALSE
    BY <1>7 DEF Ask, Requests, Completing, Lenient
  <1>8. ASSUME NEW p \in Procs, TaskCleanup(p) PROVE TraceInv'
    <2>1. proc[p].pc = "cleanup" /\ proc[p].pc # "idle" /\ row' = row /\ UNCHANGED ledgerVars
          /\ proc' = [proc EXCEPT ![p] = Idle] /\ ~Carries(proc[p])
      BY <1>8 DEF TaskCleanup, At, Finish, Carries
    <2> QED BY <2>1, IdleIs, IdleFrame, ReadsTraced
  <1>9. ASSUME NEW p \in Procs, TaskStep(p) \/ SweepStep(p) \/ HandlerStep(p)
        PROVE  TraceInv'
    BY <1>8, <1>9, DispatchTraced, PollTraced, FinalizeReadTraced, FinalizeDebitTraced, FinalizeMeterTraced,
       TaskWriteTraced, TaskCheckTraced, TaskRefundTraced, TaskMarkTraced, SweepWriteTraced, RefundSweepTraced,
       NoHandlers
    DEF TaskStep, SweepStep, HandlerStep, Finalize
  <1>10. ASSUME NEW p \in Procs, Unavailable(p) \/ DrainInflight(p) \/ Crash(p)
         PROVE  TraceInv'
    <2>1. ~DrainInflight(p) /\ ~Crash(p)
      BY <1>0 DEF DrainInflight, Crash, Lenient
    <2>2. ~FinalizeReadUnavailable(p) /\ ~FinalizeDebitUnavailable(p) /\ ~FinalizeMeterUnavailable(p)
      BY <1>0 DEF FinalizeReadUnavailable, FinalizeDebitUnavailable, FinalizeMeterUnavailable, Lenient
    <2> QED BY <1>10, <2>1, <2>2, TaskRefundTraced, RefundSweepTraced DEF Unavailable
  <1> QED BY <1>1, <1>2, <1>3, <1>4, <1>5, <1>6, <1>7, <1>9, <1>10 DEF Next

(* With cancels, orphan sweeps and failing refunds, in any number and at   *)
(* any moment, no debit stays silently on a cancelled job: its task is     *)
(* still on its way to the refund, or the refund marker is on the row.     *)
THEOREM DebitsLeaveATrace ==
    ASSUME Events \subseteq Lenient
    PROVE  Spec => []NoSilentDebit
  <1>1. Events \cap Rewriting = {}
    BY DEF Lenient, Rewriting
  <1>2. Spec => []PaidInv
    BY <1>1, PaidInvariant
  <1>3. MoneyInv /\ PaidInv /\ TraceInv /\ [Next]_vars => TraceInv'
    BY TraceNext
  <1>4. Spec => []TraceInv
    BY <1>2, <1>3, TraceInit, MoneyInvariant, PTL DEF Spec
  <1>5. PaidInv /\ TraceInv => NoSilentDebit
    <2> SUFFICES ASSUME PaidInv, TraceInv, NEW j \in Jobs, SilentDebit(j), row[j].mark # "refund_pending"
                 PROVE  \E p \in Tasks : /\ proc[p].job = j
                                         /\ proc[p].pc \in {"meter", "write", "check", "refund", "mark"}
      BY DEF NoSilentDebit
    <2>1. debits[j] # <<>> /\ ~Settled(row[j], refunds[j])
      BY DEF SilentDebit, Settled
    <2>2. PICK p \in Procs : Carries(proc[p]) /\ proc[p].job = j
      BY <2>1 DEF TraceInv, Traced
    <2>3. p \in Tasks
      BY <2>2 DEF PaidInv, SlotInv, Placed, Carries
    <2> QED BY <2>2, <2>3 DEF Carries
  <1> QED BY <1>2, <1>4, <1>5, PTL

-----------------------------------------------------------------------------
(* JobBilling implements BillingContract.  Whatever a worker, sweeper,     *)
(* handler or failure does, it does one of four things to the money        *)
(* (MoneyStep): nothing, a top-up, a first DEBIT row within the balance,   *)
(* or the refund of a standing DEBIT row in full.  Each maps to a step of  *)
(* the contract or to a stutter.                                           *)

NoMoney == UNCHANGED <<credited, balance, debits, refunds>>

RefundRow(j, amount) ==
    /\ debits[j] = <<amount>> /\ refunds[j] = <<>>
    /\ refunds' = [refunds EXCEPT ![j] = Append(@, amount)]
    /\ balance' = [balance EXCEPT ![TenantOf[j]] = @ + amount]
    /\ UNCHANGED <<credited, debits>>

MoneyStep ==
    \/ NoMoney
    \/ \E t \in Tenants : TopUp(t, 1)
    \/ \E j \in Jobs, amount \in Nat : DebitRow(j, amount) \/ RefundRow(j, amount)

-----------------------------------------------------------------------------
(* Refund of the amount of the DEBIT row adds the row or changes nothing.  *)
LEMMA RefundIsMoneyStep ==
    ASSUME NEW j \in Jobs, NEW amount \in Nat, debits[j] = <<amount>>,
           Refund(j, amount)
    PROVE  MoneyStep
  <1>1. CASE refunds[j] = <<>>
    BY <1>1 DEF Refund, MoneyStep, RefundRow
  <1>2. CASE refunds[j] # <<>>
    BY <1>2 DEF Refund, MoneyStep, NoMoney, ledgerVars
  <1> QED BY <1>1, <1>2

(* The three steps of finalize_job_billing.                                *)
LEMMA FinalizeIsMoneyStep ==
    ASSUME MoneyInv, NEW p \in Procs,
           \/ Finalize(p) \/ FinalizeReadUnavailable(p) \/ FinalizeDebitUnavailable(p)
           \/ FinalizeMeterUnavailable(p)
    PROVE  MoneyStep
  <1>1. proc[p].pc # "idle" => proc[p].job \in Jobs
    BY DEF MoneyInv, FrameInv
  <1>2. Cost(p) \in Nat
    BY LedgerAssumption DEF MoneyInv, TypeOK, Frame, Cost
  <1>3. CASE FinalizeRead(p) \/ FinalizeReadUnavailable(p)
    BY <1>3 DEF FinalizeRead, FinalizeReadUnavailable, MoneyStep, NoMoney, ledgerVars
  <1>4. CASE FinalizeDebit(p) \/ FinalizeDebitUnavailable(p)
    <2>1. proc[p].job \in Jobs
      BY <1>1, <1>4 DEF FinalizeDebit, FinalizeDebitUnavailable
    <2>2. DebitRow(proc[p].job, Cost(p)) \/ UNCHANGED ledgerVars
      BY <1>4 DEF FinalizeDebit, FinalizeDebitUnavailable, DebitIfFunds,
                  DebitUnavailable, NoDebitRow
    <2> QED BY <1>2, <2>1, <2>2 DEF MoneyStep, NoMoney, ledgerVars
  <1>5. CASE FinalizeMeter(p) \/ FinalizeMeterUnavailable(p)
    BY <1>5 DEF FinalizeMeter, FinalizeMeterUnavailable, RecordUsage, MoneyStep,
                NoMoney, ledgerVars
  <1> QED BY <1>3, <1>4, <1>5 DEF Finalize

(* Refunds, of a task and of the refund sweeper: the amount is the one of  *)
(* the DEBIT row by FrameInv.                                              *)
LEMMA RefundersAreMoneySteps ==
    ASSUME MoneyInv, NEW p \in Procs,
           \/ TaskRefund(p) \/ TaskRefundUnavailable(p)
           \/ RefundSweepPay(p) \/ RefundSweepUnavailable(p)
    PROVE  MoneyStep
  <1>1. proc[p] \in Frame /\ FrameInv(proc[p], debits)
    BY DEF MoneyInv, TypeOK
  <1>2. CASE TaskRefund(p) \/ TaskRefundUnavailable(p)
    <2>1. /\ proc[p].job \in Jobs
          /\ debits[proc[p].job] = <<Cost(p)>>
      BY <1>1, <1>2 DEF TaskRefund, TaskRefundUnavailable, At, FrameInv, Debited, Cost
    <2>2. Cost(p) \in Nat
      BY <1>1, LedgerAssumption DEF Frame, Cost
    <2>3. Refund(proc[p].job, Cost(p)) \/ UNCHANGED ledgerVars
      BY <1>2 DEF TaskRefund, TaskRefundUnavailable
    <2> QED BY <2>1, <2>2, <2>3, RefundIsMoneyStep DEF MoneyStep, NoMoney, ledgerVars
  <1>3. CASE RefundSweepPay(p) \/ RefundSweepUnavailable(p)
    <2>1. /\ proc[p].job \in Jobs
          /\ debits[proc[p].job] = <<proc[p].owed>>
      BY <1>1, <1>3 DEF RefundSweepPay, RefundSweepUnavailable, At, FrameInv
    <2>2. proc[p].owed \in Nat
      BY <1>1 DEF Frame
    <2>3. Refund(proc[p].job, proc[p].owed) \/ UNCHANGED ledgerVars
      BY <1>3 DEF RefundSweepPay, RefundSweepUnavailable
    <2> QED BY <2>1, <2>2, <2>3, RefundIsMoneyStep DEF MoneyStep, NoMoney, ledgerVars
  <1> QED BY <1>2, <1>3

(* Every other action leaves the ledger alone.                             *)
LEMMA EveryStepIsMoneyStep ==
    ASSUME MoneyInv, [Next]_vars
    PROVE  MoneyStep
  <1>1. UNCHANGED ledgerVars => MoneyStep
    BY DEF MoneyStep, NoMoney, ledgerVars
  <1>2. CASE UNCHANGED vars
    BY <1>1, <1>2 DEF vars
  <1>3. ASSUME NEW t \in Tenants, TopUpTenant(t) PROVE MoneyStep
    BY <1>3 DEF TopUpTenant, MoneyStep
  <1>4. ASSUME NEW j \in Jobs, NEW kind \in Kinds, SubmitTask(j, kind) PROVE MoneyStep
    BY <1>1, <1>4 DEF SubmitTask
  <1>5. ASSUME NEW j \in Jobs, CancelJob(j) \/ SweepOrphan(j) \/ PauseEnds(j)
        PROVE  MoneyStep
    BY <1>1, <1>5 DEF CancelJob, SweepOrphan, PauseEnds
  <1>6. ASSUME NEW p \in Procs, NEW j \in Jobs,
               ClaimQueued(p, j) \/ SweepPick(p, j) \/ RefundSweepPick(p, j)
        PROVE  MoneyStep
    BY <1>1, <1>6 DEF ClaimQueued, SweepPick, RefundSweepPick
  <1>7. ASSUME NEW p \in Procs, NEW j \in Jobs, NEW op \in Requests, Ask(p, op, j)
        PROVE  MoneyStep
    BY <1>1, <1>7 DEF Ask
  <1>8. ASSUME NEW p \in Procs, TaskStep(p) PROVE MoneyStep
    BY <1>1, <1>8, FinalizeIsMoneyStep, RefundersAreMoneySteps
    DEF TaskStep, DispatchFails, DispatchReady, PollEnds, TaskWrite, TaskCheck,
        TaskMark, TaskCleanup
  <1>9. ASSUME NEW p \in Procs, SweepStep(p) PROVE MoneyStep
    BY <1>1, <1>9, FinalizeIsMoneyStep, RefundersAreMoneySteps
    DEF SweepStep, SweepWrite, RefundSweepClear
  <1>10. ASSUME NEW p \in Procs, HandlerStep(p) PROVE MoneyStep
    BY <1>1, <1>10, FinalizeIsMoneyStep
    DEF HandlerStep, DurationKnown, DurationUnknown, CompleteCleanup, HandlerWrite
  <1>11. ASSUME NEW p \in Procs, Unavailable(p) \/ DrainInflight(p) \/ Crash(p)
         PROVE  MoneyStep
    BY <1>1, <1>11, FinalizeIsMoneyStep, RefundersAreMoneySteps
    DEF Unavailable, DrainInflight, Crash
  <1> QED BY <1>2, <1>3, <1>4, <1>5, <1>6, <1>7, <1>8, <1>9, <1>10, <1>11 DEF Next

-----------------------------------------------------------------------------
(* The refinement mapping, step by step.                                   *)
Charges == [j \in Jobs |-> ChargeOf(j)]

LEMMA InitRefines == Init => Contract!Init
  BY DEF Init, LedgerInit, Contract!Init, Contract!Uncharged, ChargeOf

LEMMA NoMoneyRefines ==
    ASSUME NoMoney
    PROVE  UNCHANGED Contract!contractVars
  BY DEF NoMoney, Contract!contractVars, ChargeOf

LEMMA TopUpRefines ==
    ASSUME MoneyInv, NEW t \in Tenants, TopUp(t, 1)
    PROVE  Contract!Deposit(t)
  <1>1. credited \in [Tenants -> Nat] /\ balance \in [Tenants -> Int]
    BY DEF MoneyInv, TypeOK, LedgerTypeOK
  <1>2. credited' = [credited EXCEPT ![t] = credited[t] + 1]
        /\ balance' = [balance EXCEPT ![t] = balance[t] + 1]
        /\ UNCHANGED <<debits, refunds>>
    BY DEF TopUp
  <1>3. credited'[t] = credited[t] + 1
    BY <1>1, <1>2
  <1>4. credited' = [credited EXCEPT ![t] = credited'[t]]
    BY <1>2, <1>3
  <1>5. balance' = [balance EXCEPT ![t] = balance[t] + (credited'[t] - credited[t])]
    <2>1. credited'[t] - credited[t] = 1
      BY <1>1, <1>3
    <2> QED BY <1>2, <2>1
  <1>6. UNCHANGED Charges
    BY <1>2 DEF Charges, ChargeOf
  <1>7. credited'[t] \in Int /\ credited'[t] >= credited[t]
    BY <1>1, <1>3
  <1> QED BY <1>4, <1>5, <1>6, <1>7 DEF Contract!Deposit, Charges

LEMMA DebitRefines ==
    ASSUME MoneyInv, NEW j \in Jobs, NEW amount \in Nat, DebitRow(j, amount)
    PROVE  Contract!Charge(j)
  <1>1. /\ balance \in [Tenants -> Int] /\ debits \in [Jobs -> Seq(Nat)]
        /\ TenantOf[j] \in Tenants
    BY LedgerAssumption DEF MoneyInv, TypeOK, LedgerTypeOK
  <1>2. /\ debits[j] = <<>> /\ refunds[j] = <<>>
        /\ debits'[j] = <<amount>> /\ refunds' = refunds
        /\ \A i \in Jobs : i # j => debits'[i] = debits[i]
        /\ balance[TenantOf[j]] >= amount
    BY <1>1 DEF DebitRow, MoneyInv, RowsInv
  <1>3. /\ Charges[j] = [state |-> "none", amount |-> 0]
        /\ ChargeOf(j)' = [state |-> "charged", amount |-> amount]
        /\ \A i \in Jobs : i # j => ChargeOf(i)' = ChargeOf(i)
    BY <1>2 DEF Charges, ChargeOf
  <1>4. Charges' = [Charges EXCEPT ![j] = [state |-> "charged", amount |-> amount]]
    BY <1>3 DEF Charges
  <1>5. Charges'[j].amount = amount /\ Charges[j].state = "none"
    BY <1>3, <1>4 DEF Charges
  <1>6. balance' = [balance EXCEPT ![TenantOf[j]] = balance[TenantOf[j]] - amount]
        /\ UNCHANGED credited
    BY DEF DebitRow
  <1> QED BY <1>1, <1>2, <1>4, <1>5, <1>6 DEF Contract!Charge, Charges

LEMMA RefundRefines ==
    ASSUME MoneyInv, NEW j \in Jobs, NEW amount \in Nat, RefundRow(j, amount)
    PROVE  Contract!Return(j)
  <1>1. refunds \in [Jobs -> Seq(Nat)]
    BY DEF MoneyInv, TypeOK, LedgerTypeOK
  <1>2. /\ debits[j] = <<amount>> /\ refunds[j] = <<>> /\ debits' = debits
        /\ refunds'[j] = <<amount>>
        /\ \A i \in Jobs : i # j => refunds'[i] = refunds[i]
    BY <1>1 DEF RefundRow
  <1>3. /\ ChargeOf(j) = [state |-> "charged", amount |-> amount]
        /\ ChargeOf(j)' = [state |-> "returned", amount |-> amount]
        /\ \A i \in Jobs : i # j => ChargeOf(i)' = ChargeOf(i)
    BY <1>2 DEF ChargeOf
  <1>4. Charges' = [Charges EXCEPT ![j] = [state |-> "returned", amount |-> amount]]
    BY <1>3 DEF Charges
  <1>5. Charges[j].amount = amount /\ Charges[j].state = "charged"
    BY <1>3 DEF Charges
  <1>6. balance' = [balance EXCEPT ![TenantOf[j]] = balance[TenantOf[j]] + amount]
        /\ UNCHANGED credited
    BY DEF RefundRow
  <1> QED BY <1>4, <1>5, <1>6 DEF Contract!Return, Charges

(* JobBilling implements BillingContract for any number of tenants, jobs,  *)
(* workers, sweepers and handlers: the money only moves by deposits, one   *)
(* covered charge per job, and one full return of a standing charge.       *)
THEOREM BillingRefinesContract == Spec => ImplementsContract
  <1>1. MoneyInv /\ [Next]_vars => [Contract!Next]_Contract!contractVars
    <2> SUFFICES ASSUME MoneyInv, [Next]_vars
                 PROVE  Contract!Next \/ UNCHANGED Contract!contractVars
      OBVIOUS
    <2>1. MoneyStep
      BY EveryStepIsMoneyStep
    <2> QED BY <2>1, NoMoneyRefines, TopUpRefines, DebitRefines, RefundRefines
            DEF MoneyStep, Contract!Next
  <1> QED BY <1>1, InitRefines, MoneyInvariant, PTL DEF Spec, ImplementsContract, Contract!Spec
=============================================================================
