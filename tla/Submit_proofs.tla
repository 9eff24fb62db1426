---------------------------- MODULE Submit_proofs ----------------------------
(***************************************************************************)
(* What POST /submit promises about Idempotency-Keys, for any number of    *)
(* requests, replicas, tenants and keys and any number of crashes.         *)
(***************************************************************************)
EXTENDS Submit, TLAPS

(* A key is mapped to a request that carried it.                           *)
KeysOwned ==
    \A r \in Requests :
        Keyed(r) /\ Mapped(r) # None => Same(r, Mapped(r)) /\ Keyed(Mapped(r))

(* A request is served by one replica, is not answered before it leaves    *)
(* it, and meets the steps about keys only when it has one.                *)
FrameInv(p) ==
    at[p].pc # "free" =>
        /\ at[p].req \in served
        /\ answer[at[p].req] = None
        /\ \A q \in Replicas : q # p => at[q].req # at[p].req
        /\ at[p].pc \in {"find", "reserve", "winner"} => Keyed(at[p].req)
        /\ at[p].pc = "backend" => jobs[at[p].req] # "absent"

(* Nothing is known of a request that has not come yet.                    *)
FreshInv(r) == r \notin served => jobs[r] = "absent" /\ answer[r] = None

(* A request that came when the job of its key was there is still looking  *)
(* for it or is done, and has created nothing.                             *)
LateInv(r) ==
    /\ Keyed(r) /\ Visible(r)
    /\ jobs[r] = "absent" /\ answer[r] \in {None, Mapped(r)}
    /\ \A p \in Replicas : at[p].req = r => at[p].pc = "find"

SubmitInv ==
    /\ TypeOK
    /\ AnswerIsJob
    /\ KeysOwned
    /\ \A p \in Replicas : FrameInv(p)
    /\ \A r \in Requests : FreshInv(r)
    /\ \A r \in late : LateInv(r)

-----------------------------------------------------------------------------
LEMMA SubmitInit == Init => SubmitInv
  BY SubmitAssumption
  DEF Init, SubmitInv, TypeOK, AnswerIsJob, KeysOwned, FrameInv, FreshInv, Free,
      Mapped, Keyed, Pcs, Statuses

LEMMA BeginInv ==
    ASSUME SubmitInv, NEW p \in Replicas, NEW r \in Requests, Begin(p, r)
    PROVE  SubmitInv'
  <1> USE SubmitAssumption DEF SubmitInv
  <1>1. TypeOK'
    BY DEF Begin, TypeOK, Pcs
  <1>2. AnswerIsJob'
    BY DEF Begin, AnswerIsJob, TypeOK, Same
  <1>3. KeysOwned'
    BY DEF Begin, KeysOwned, Mapped, Keyed, Same
  <1>4. ASSUME NEW q \in Replicas PROVE FrameInv(q)'
    BY DEF Begin, FrameInv, FreshInv, TypeOK, Keyed
  <1>5. ASSUME NEW x \in Requests PROVE FreshInv(x)'
    BY DEF Begin, FreshInv
  <1>6. ASSUME NEW x \in late' PROVE LateInv(x)'
    <2>1. x \in Requests
      BY DEF Begin, TypeOK
    <2>2. UNCHANGED <<keys, jobs, answer>> /\ Visible(x)' = Visible(x) /\ Mapped(x)' = Mapped(x)
      BY DEF Begin, Visible, Mapped
    <2>3. CASE x = r
      <3>1. Keyed(x) /\ Visible(x) /\ jobs[x] = "absent" /\ answer[x] = None
        BY <2>3, <2>1 DEF Begin, FreshInv, LateInv, TypeOK
      <3>2. ASSUME NEW q \in Replicas, at'[q].req = x PROVE at'[q].pc = "find"
        BY <2>1, <2>3, <3>1, <3>2 DEF Begin, FrameInv, TypeOK
      <3> QED BY <2>2, <3>1, <3>2 DEF LateInv, Keyed
    <2>4. CASE x # r
      <3>1. x \in late /\ LateInv(x)
        BY <2>4 DEF Begin
      <3> QED BY <2>1, <2>2, <2>4, <3>1 DEF LateInv, Keyed, Begin, TypeOK
    <2> QED BY <2>3, <2>4
  <1> QED BY <1>1, <1>2, <1>3, <1>4, <1>5, <1>6

LEMMA FindInv ==
    ASSUME SubmitInv, NEW p \in Replicas, Find(p)
    PROVE  SubmitInv'
  <1> USE SubmitAssumption DEF SubmitInv
  <1>1. TypeOK'
    BY DEF Find, TypeOK, Pcs, Goto, Respond, Free, Visible, Mapped, FrameInv, Keyed
  <1>2. AnswerIsJob'
    BY DEF Find, AnswerIsJob, TypeOK, Same, Respond, Visible, FrameInv, KeysOwned, Mapped, Keyed
  <1>3. KeysOwned'
    BY DEF Find, KeysOwned, Mapped, Keyed, Same
  <1>4. ASSUME NEW q \in Replicas PROVE FrameInv(q)'
    BY DEF Find, FrameInv, TypeOK, Keyed, Respond, Goto, Free
  <1>5. ASSUME NEW x \in Requests PROVE FreshInv(x)'
    BY DEF Find, FreshInv, FrameInv, Respond, TypeOK
  <1>6. ASSUME NEW x \in late' PROVE LateInv(x)'
    <2>1. x \in Requests /\ LateInv(x)
      BY DEF Find, TypeOK
    <2>2. UNCHANGED <<keys, jobs>> /\ Visible(x)' = Visible(x) /\ Mapped(x)' = Mapped(x)
      BY DEF Find, Visible, Mapped
    <2>3. answer'[x] \in {None, Mapped(x)}
      BY <2>1 DEF Find, LateInv, Respond, TypeOK, FrameInv
    <2>4. ASSUME NEW q \in Replicas, at'[q].req = x PROVE at'[q].pc = "find"
      BY <2>1, <2>4 DEF Find, LateInv, Respond, Goto, TypeOK, Free
    <2> QED BY <2>1, <2>2, <2>3, <2>4 DEF LateInv, Keyed
  <1> QED BY <1>1, <1>2, <1>3, <1>4, <1>5, <1>6

LEMMA GateInv ==
    ASSUME SubmitInv, NEW p \in Replicas, Gate(p)
    PROVE  SubmitInv'
  <1> USE SubmitAssumption DEF SubmitInv
  <1>1. TypeOK'
    BY DEF Gate, TypeOK, Pcs, Statuses, Goto, Free
  <1>2. AnswerIsJob'
    BY DEF Gate, AnswerIsJob, TypeOK, Same
  <1>3. KeysOwned'
    BY DEF Gate, KeysOwned, Mapped, Keyed, Same
  <1>4. ASSUME NEW q \in Replicas PROVE FrameInv(q)'
    BY DEF Gate, FrameInv, TypeOK, Keyed, Goto, Free
  <1>5. ASSUME NEW x \in Requests PROVE FreshInv(x)'
    BY DEF Gate, FreshInv, FrameInv, TypeOK
  <1>6. ASSUME NEW x \in late' PROVE LateInv(x)'
    <2>1. x \in Requests /\ LateInv(x)
      BY DEF Gate, TypeOK
    <2>2. Mapped(x)' = Mapped(x)
      BY <2>1, SubmitAssumption DEF Gate, LateInv, Visible, Mapped, TypeOK, Keyed
    <2>3. Visible(x)' /\ jobs'[x] = "absent"
      BY <2>1, <2>2, SubmitAssumption DEF Gate, LateInv, Visible, Mapped, TypeOK, Keyed, Statuses, FrameInv
    <2>4. answer'[x] \in {None, Mapped(x)}
      BY <2>1 DEF Gate, LateInv, TypeOK, FrameInv
    <2>5. ASSUME NEW q \in Replicas, at'[q].req = x PROVE at'[q].pc = "find"
      BY <2>1, <2>5, SubmitAssumption DEF Gate, LateInv, TypeOK, Goto, Free
    <2> QED BY <2>1, <2>2, <2>3, <2>4, <2>5 DEF LateInv, Keyed
  <1> QED BY <1>1, <1>2, <1>3, <1>4, <1>5, <1>6

LEMMA ReserveInv ==
    ASSUME SubmitInv, NEW p \in Replicas, Reserve(p)
    PROVE  SubmitInv'
  <1> USE SubmitAssumption DEF SubmitInv
  <1>1. TypeOK'
    BY DEF Reserve, TypeOK, Pcs, Statuses, Goto, FrameInv, Keyed
  <1>2. AnswerIsJob'
    BY DEF Reserve, AnswerIsJob, TypeOK, Same, FrameInv
  <1>3. KeysOwned'
    BY DEF Reserve, KeysOwned, Mapped, Keyed, Same, TypeOK, FrameInv
  <1>4. ASSUME NEW q \in Replicas PROVE FrameInv(q)'
    BY DEF Reserve, FrameInv, TypeOK, Keyed, Goto
  <1>5. ASSUME NEW x \in Requests PROVE FreshInv(x)'
    BY DEF Reserve, FreshInv, FrameInv, TypeOK
  <1>6. ASSUME NEW x \in late' PROVE LateInv(x)'
    <2>1. x \in Requests /\ LateInv(x)
      BY DEF Reserve, TypeOK
    <2>2. Mapped(x)' = Mapped(x)
      BY <2>1, SubmitAssumption DEF Reserve, LateInv, Visible, Mapped, TypeOK, Keyed
    <2>3. Visible(x)' /\ jobs'[x] = "absent"
      BY <2>1, <2>2, SubmitAssumption DEF Reserve, LateInv, Visible, Mapped, TypeOK, Keyed, Statuses, FrameInv
    <2>4. answer'[x] \in {None, Mapped(x)}
      BY <2>1 DEF Reserve, LateInv, TypeOK, FrameInv
    <2>5. ASSUME NEW q \in Replicas, at'[q].req = x PROVE at'[q].pc = "find"
      BY <2>1, <2>5, SubmitAssumption DEF Reserve, LateInv, TypeOK, Goto
    <2> QED BY <2>1, <2>2, <2>3, <2>4, <2>5 DEF LateInv, Keyed
  <1> QED BY <1>1, <1>2, <1>3, <1>4, <1>5, <1>6

LEMMA WinnerInv ==
    ASSUME SubmitInv, NEW p \in Replicas, Winner(p)
    PROVE  SubmitInv'
  <1> USE SubmitAssumption DEF SubmitInv
  <1>1. TypeOK'
    BY DEF Winner, TypeOK, Pcs, Statuses, Goto, Respond, Free, Visible, Mapped, FrameInv, Keyed
  <1>2. AnswerIsJob'
    BY DEF Winner, AnswerIsJob, TypeOK, Same, Respond, Visible, FrameInv, KeysOwned, Mapped, Keyed
  <1>3. KeysOwned'
    BY DEF Winner, KeysOwned, Mapped, Keyed, Same
  <1>4. ASSUME NEW q \in Replicas PROVE FrameInv(q)'
    BY DEF Winner, FrameInv, TypeOK, Keyed, Respond, Goto, Free
  <1>5. ASSUME NEW x \in Requests PROVE FreshInv(x)'
    BY DEF Winner, FreshInv, FrameInv, TypeOK, Respond
  <1>6. ASSUME NEW x \in late' PROVE LateInv(x)'
    <2>1. x \in Requests /\ LateInv(x)
      BY DEF Winner, TypeOK
    <2>2. Mapped(x)' = Mapped(x)
      BY <2>1, SubmitAssumption DEF Winner, LateInv, Visible, Mapped, TypeOK, Keyed
    <2>3. Visible(x)' /\ jobs'[x] = "absent"
      BY <2>1, <2>2, SubmitAssumption DEF Winner, LateInv, Visible, Mapped, TypeOK, Keyed, Statuses, FrameInv
    <2>4. answer'[x] \in {None, Mapped(x)}
      BY <2>1 DEF Winner, LateInv, TypeOK, FrameInv, Respond
    <2>5. ASSUME NEW q \in Replicas, at'[q].req = x PROVE at'[q].pc = "find"
      <3>1. at[p].req # x
        BY <2>1 DEF Winner, LateInv
      <3>2. q # p
        BY <2>1, <2>5, <3>1 DEF Winner, TypeOK, Goto, Respond, Free
      <3>3. at'[q] = at[q]
        BY <3>2 DEF Winner, TypeOK, Goto, Respond
      <3> QED BY <2>1, <2>5, <3>3 DEF LateInv
    <2> QED BY <2>1, <2>2, <2>3, <2>4, <2>5 DEF LateInv, Keyed
  <1> QED BY <1>1, <1>2, <1>3, <1>4, <1>5, <1>6

LEMMA InsertInv ==
    ASSUME SubmitInv, NEW p \in Replicas, InsertJob(p)
    PROVE  SubmitInv'
  <1> USE SubmitAssumption DEF SubmitInv
  <1>1. TypeOK'
    BY DEF InsertJob, TypeOK, Pcs, Statuses, Goto
  <1>2. AnswerIsJob'
    BY DEF InsertJob, AnswerIsJob, TypeOK, Same
  <1>3. KeysOwned'
    BY DEF InsertJob, KeysOwned, Mapped, Keyed, Same
  <1>4. ASSUME NEW q \in Replicas PROVE FrameInv(q)'
    BY DEF InsertJob, FrameInv, TypeOK, Keyed, Goto, Statuses
  <1>5. ASSUME NEW x \in Requests PROVE FreshInv(x)'
    BY DEF InsertJob, FreshInv, FrameInv, TypeOK
  <1>6. ASSUME NEW x \in late' PROVE LateInv(x)'
    <2>1. x \in Requests /\ LateInv(x)
      BY DEF InsertJob, TypeOK
    <2>2. Mapped(x)' = Mapped(x)
      BY <2>1, SubmitAssumption DEF InsertJob, LateInv, Visible, Mapped, TypeOK, Keyed
    <2>3. Visible(x)' /\ jobs'[x] = "absent"
      BY <2>1, <2>2, SubmitAssumption DEF InsertJob, LateInv, Visible, Mapped, TypeOK, Keyed, Statuses, FrameInv
    <2>4. answer'[x] \in {None, Mapped(x)}
      BY <2>1 DEF InsertJob, LateInv, TypeOK, FrameInv
    <2>5. ASSUME NEW q \in Replicas, at'[q].req = x PROVE at'[q].pc = "find"
      BY <2>1, <2>5, SubmitAssumption DEF InsertJob, LateInv, TypeOK, Goto
    <2> QED BY <2>1, <2>2, <2>3, <2>4, <2>5 DEF LateInv, Keyed
  <1> QED BY <1>1, <1>2, <1>3, <1>4, <1>5, <1>6

LEMMA BackendInv ==
    ASSUME SubmitInv, NEW p \in Replicas, WriteBackend(p)
    PROVE  SubmitInv'
  <1> USE SubmitAssumption DEF SubmitInv
  <1>1. TypeOK'
    BY DEF WriteBackend, TypeOK, Pcs, Statuses, Respond, Free
  <1>2. AnswerIsJob'
    BY DEF WriteBackend, AnswerIsJob, TypeOK, Same, Respond, FrameInv
  <1>3. KeysOwned'
    BY DEF WriteBackend, KeysOwned, Mapped, Keyed, Same
  <1>4. ASSUME NEW q \in Replicas PROVE FrameInv(q)'
    BY DEF WriteBackend, FrameInv, TypeOK, Keyed, Respond, Free
  <1>5. ASSUME NEW x \in Requests PROVE FreshInv(x)'
    BY DEF WriteBackend, FreshInv, FrameInv, TypeOK, Respond
  <1>6. ASSUME NEW x \in late' PROVE LateInv(x)'
    <2>1. x \in Requests /\ LateInv(x)
      BY DEF WriteBackend, TypeOK
    <2>2. Mapped(x)' = Mapped(x)
      BY <2>1, SubmitAssumption DEF WriteBackend, LateInv, Visible, Mapped, TypeOK, Keyed
    <2>3. Visible(x)' /\ jobs'[x] = "absent"
      BY <2>1, <2>2, SubmitAssumption DEF WriteBackend, LateInv, Visible, Mapped, TypeOK, Keyed, Statuses, FrameInv
    <2>4. answer'[x] \in {None, Mapped(x)}
      BY <2>1 DEF WriteBackend, LateInv, TypeOK, FrameInv, Respond
    <2>5. ASSUME NEW q \in Replicas, at'[q].req = x PROVE at'[q].pc = "find"
      BY <2>1, <2>5, SubmitAssumption DEF WriteBackend, LateInv, TypeOK, Respond, Free
    <2> QED BY <2>1, <2>2, <2>3, <2>4, <2>5 DEF LateInv, Keyed
  <1> QED BY <1>1, <1>2, <1>3, <1>4, <1>5, <1>6

LEMMA CrashInv ==
    ASSUME SubmitInv, NEW p \in Replicas, Crash(p)
    PROVE  SubmitInv'
  <1> USE SubmitAssumption DEF SubmitInv
  <1>1. TypeOK'
    BY DEF Crash, TypeOK, Pcs, Statuses, Free
  <1>2. AnswerIsJob'
    BY DEF Crash, AnswerIsJob, TypeOK, Same
  <1>3. KeysOwned'
    BY DEF Crash, KeysOwned, Mapped, Keyed, Same
  <1>4. ASSUME NEW q \in Replicas PROVE FrameInv(q)'
    BY DEF Crash, FrameInv, TypeOK, Keyed, Free
  <1>5. ASSUME NEW x \in Requests PROVE FreshInv(x)'
    BY DEF Crash, FreshInv, FrameInv, TypeOK
  <1>6. ASSUME NEW x \in late' PROVE LateInv(x)'
    <2>1. x \in Requests /\ LateInv(x)
      BY DEF Crash, TypeOK
    <2>2. Mapped(x)' = Mapped(x)
      BY <2>1, SubmitAssumption DEF Crash, LateInv, Visible, Mapped, TypeOK, Keyed
    <2>3. Visible(x)' /\ jobs'[x] = "absent"
      BY <2>1, <2>2, SubmitAssumption DEF Crash, LateInv, Visible, Mapped, TypeOK, Keyed, Statuses, FrameInv
    <2>4. answer'[x] \in {None, Mapped(x)}
      BY <2>1 DEF Crash, LateInv, TypeOK, FrameInv
    <2>5. ASSUME NEW q \in Replicas, at'[q].req = x PROVE at'[q].pc = "find"
      BY <2>1, <2>5, SubmitAssumption DEF Crash, LateInv, TypeOK, Free
    <2> QED BY <2>1, <2>2, <2>3, <2>4, <2>5 DEF LateInv, Keyed
  <1> QED BY <1>1, <1>2, <1>3, <1>4, <1>5, <1>6

LEMMA ClaimInv ==
    ASSUME SubmitInv, NEW j \in Requests, Claim(j)
    PROVE  SubmitInv'
  <1> USE SubmitAssumption DEF SubmitInv
  <1>1. TypeOK'
    BY DEF Claim, TypeOK, Pcs, Statuses
  <1>2. AnswerIsJob'
    BY DEF Claim, AnswerIsJob, TypeOK, Same
  <1>3. KeysOwned'
    BY DEF Claim, KeysOwned, Mapped, Keyed, Same
  <1>4. ASSUME NEW q \in Replicas PROVE FrameInv(q)'
    BY DEF Claim, FrameInv, TypeOK, Keyed, Statuses
  <1>5. ASSUME NEW x \in Requests PROVE FreshInv(x)'
    BY DEF Claim, FreshInv, FrameInv, TypeOK
  <1>6. ASSUME NEW x \in late' PROVE LateInv(x)'
    <2>1. x \in Requests /\ LateInv(x)
      BY DEF Claim, TypeOK
    <2>2. Mapped(x)' = Mapped(x)
      BY <2>1, SubmitAssumption DEF Claim, LateInv, Visible, Mapped, TypeOK, Keyed
    <2>3. Visible(x)' /\ jobs'[x] = "absent"
      BY <2>1, <2>2, SubmitAssumption DEF Claim, LateInv, Visible, Mapped, TypeOK, Keyed, Statuses, FrameInv
    <2>4. answer'[x] \in {None, Mapped(x)}
      BY <2>1 DEF Claim, LateInv, TypeOK, FrameInv
    <2>5. ASSUME NEW q \in Replicas, at'[q].req = x PROVE at'[q].pc = "find"
      BY <2>1, <2>5, SubmitAssumption DEF Claim, LateInv, TypeOK
    <2> QED BY <2>1, <2>2, <2>3, <2>4, <2>5 DEF LateInv, Keyed
  <1> QED BY <1>1, <1>2, <1>3, <1>4, <1>5, <1>6

LEMMA SubmitStutters == SubmitInv /\ UNCHANGED vars => SubmitInv'
  <1> SUFFICES ASSUME SubmitInv, UNCHANGED vars PROVE SubmitInv'
    OBVIOUS
  <1> USE DEF vars, SubmitInv
  <1>1. TypeOK' /\ AnswerIsJob'
    BY DEF TypeOK, AnswerIsJob
  <1>2. KeysOwned'
    BY DEF KeysOwned, Mapped
  <1>3. ASSUME NEW p \in Replicas PROVE FrameInv(p)'
    BY DEF FrameInv
  <1>4. ASSUME NEW r \in Requests PROVE FreshInv(r)'
    BY DEF FreshInv
  <1>5. ASSUME NEW r \in late PROVE LateInv(r)'
    BY DEF LateInv, Mapped, Visible
  <1> QED BY <1>1, <1>2, <1>3, <1>4, <1>5

LEMMA SubmitNext == SubmitInv /\ [Next]_vars => SubmitInv'
  BY SubmitStutters, BeginInv, FindInv, GateInv, ReserveInv, WinnerInv, InsertInv,
     BackendInv, CrashInv, ClaimInv
  DEF Next, Step

-----------------------------------------------------------------------------
(* The invariant of submission holds throughout: keys name requests that   *)
(* carried them, a request is served once, and a late one creates nothing. *)
THEOREM SubmitInvariant == Spec => []SubmitInv
  BY SubmitInit, SubmitNext, PTL DEF Spec

(* The rows, the replicas and the answers keep their types.                *)
THEOREM SubmitTypes == Spec => []TypeOK
  <1>1. SubmitInv => TypeOK
    BY DEF SubmitInv
  <1> QED BY <1>1, SubmitInvariant, PTL

(* A 202 names a job that exists, of the tenant that asked and, unless it  *)
(* is the request's own, of the key that came with it.                     *)
THEOREM AnswersNameJobs == Spec => []AnswerIsJob
  <1>1. SubmitInv => AnswerIsJob
    BY DEF SubmitInv
  <1> QED BY <1>1, SubmitInvariant, PTL

(* Once the job of a key is there, no later request with the key creates   *)
(* one or is answered with another.                                        *)
THEOREM LateRequestsReplay == Spec => []SettledKeyReplays
  <1>1. SubmitInv => SettledKeyReplays
    BY DEF SubmitInv, LateInv, SettledKeyReplays
  <1> QED BY <1>1, SubmitInvariant, PTL
=============================================================================
