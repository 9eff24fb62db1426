-------------------------------- MODULE Jev --------------------------------
(***************************************************************************)
(* The Jev advisor.  Three uses of one client (core/jev_client.py):        *)
(*  - shadow observations of a verdict already given, run by a bounded     *)
(*    pool (core/jev_observer.py) and written to a rotated log             *)
(*    (core/jev_shadow_log.py);                                            *)
(*  - cascades, which may change what a deterministic engine said          *)
(*    (plugins/builtin/jev_policy.py, support_chat.py);                    *)
(*  - the sidecar, a process of its own that answers with an exit code     *)
(*    and a file (adapters/jev).                                           *)
(* Probabilities are in hundredths, risk levels in tenths.                 *)
(***************************************************************************)
EXTENDS Integers, Sequences, FiniteSets

CONSTANTS JevRequests,       \* threads of the hot path
          Observers,      \* the pool's threads
          QueueBudget,    \* observations running or waiting
          LogMax,         \* records a log file holds
          LogBackups,     \* backups kept
          MaxObserved, MaxLogFaults,
          MaxSidecars

ASSUME JevAssumption ==
    /\ QueueBudget \in Nat \ {0} /\ LogMax \in Nat \ {0} /\ LogBackups \in Nat \ {0}
    /\ IsFiniteSet(JevRequests) /\ IsFiniteSet(Observers)

VARIABLES slots,      \* free permits of the bounded semaphore
          asking,     \* requests between taking a permit and the executor
          backlog,    \* the executor's queue
          watching,   \* what each pool thread observes
          logs,       \* the live log (0) and its backups (1..LogBackups)
          written, discarded, logFaults, observed,
          rules,      \* PolicyEnginePlugin._rules
          routed,     \* what the engines said and what was answered
          sidecar, verdictFile, sidecars

shadowvars == <<slots, asking, backlog, watching, logs, written, discarded, logFaults, observed>>
routevars == <<rules, routed>>
sidevars == <<sidecar, verdictFile, sidecars>>
jevvars == <<shadowvars, routevars, sidevars>>

Points == {"R1", "R3"}       \* R5 (triage) is handled as R3 (policy) is
NoObservation == [id |-> 0, point |-> "R1", attempt |-> 0, pc |-> "idle"]
DefaultRules == <<"quota", "cost", "enterprise">>
Missing == -1
NaN == -2      \* json.loads accepts NaN, and no comparison with it holds
NoAnswer == [gate |-> Missing, choice |-> "none", p |-> Missing, confidence |-> Missing, risk |-> Missing]
NoRun == [pc |-> "none", attempts |-> 0, answer |-> NoAnswer, decision |-> "none", out |-> FALSE, exit |-> Missing, run |-> 0]

JevTypeOK ==
    /\ slots \in 0..QueueBudget
    /\ asking \in [JevRequests -> [id : 0..MaxObserved, point : Points]]
    /\ Len(backlog) <= QueueBudget
    /\ watching \in [Observers -> [id : 0..MaxObserved, point : Points, attempt : 0..2, pc : {"idle", "ask", "record", "done"}]]
    /\ DOMAIN logs = 0..LogBackups
    /\ \A i \in 0..LogBackups : Len(logs[i]) <= LogMax + logFaults
    /\ written \in 0..MaxObserved
    /\ rules \in Seq({"quota", "cost", "enterprise", "custom"})
    /\ sidecar.exit \in {Missing, 0, 2, 3, 4, 5}
    /\ sidecar.decision \in {"none", "execute", "confirm", "abort", "skip"}

JevInit ==
    /\ slots = QueueBudget /\ backlog = <<>>
    /\ asking = [r \in JevRequests |-> [id |-> 0, point |-> "R1"]]
    /\ watching = [o \in Observers |-> NoObservation]
    /\ logs = [i \in 0..LogBackups |-> <<>>]
    /\ written = 0 /\ discarded = {} /\ logFaults = 0 /\ observed = 0
    /\ rules = DefaultRules /\ routed = {}
    /\ sidecar = NoRun /\ verdictFile = "absent" /\ sidecars = 0

-----------------------------------------------------------------------------
(* core/jev_shadow_log.py: record, under one lock.  A rotation may fail    *)
(* after any of its renames, and the record is appended all the same.      *)

LogRotated(files, steps) ==
    LET moved(n) == n <= steps   \* the n-th rename, counted from the oldest backup
    IN  [i \in 0..LogBackups |->
           IF i > 0 /\ moved(LogBackups - i + 1) /\ (i = 1 \/ files[i - 1] # <<>>) THEN files[i - 1]
           ELSE IF i = LogBackups \/ moved(LogBackups - i) THEN <<>>
           ELSE files[i]]

InLogs(files) == UNION {{files[i][k].n : k \in DOMAIN files[i]} : i \in 0..LogBackups}

Record(id) ==
    /\ written' = written + 1
    /\ \E steps \in 0..LogBackups :
         /\ steps < LogBackups => logFaults < MaxLogFaults
         /\ IF Len(logs[0]) + 1 <= LogMax
            THEN /\ steps = LogBackups /\ discarded' = discarded
                 /\ logs' = [logs EXCEPT ![0] = Append(@, [n |-> written', id |-> id])]
            ELSE /\ logs' = [LogRotated(logs, steps) EXCEPT ![0] = Append(@, [n |-> written', id |-> id])]
                 /\ discarded' = discarded \cup (InLogs(logs) \ InLogs(LogRotated(logs, steps)))
         /\ logFaults' = logFaults + (IF steps < LogBackups THEN 1 ELSE 0)

-----------------------------------------------------------------------------
(* shadow_evaluate, shadow_policy, shadow_triage and submit_observation.   *)
(* The verdict is returned to the caller whatever happens to these steps.  *)

AcquireSlot(r, point) ==
    /\ asking[r].id = 0 /\ observed < MaxObserved
    /\ slots > 0                       \* otherwise dropped: nothing changes
    /\ observed' = observed + 1 /\ slots' = slots - 1
    /\ asking' = [asking EXCEPT ![r] = [id |-> observed', point |-> point]]
    /\ UNCHANGED <<backlog, watching, logs, written, discarded, logFaults>>

CaptureFails(r) ==            \* only R1 reads the database, and records that it could not
    /\ asking[r].id = 0 /\ observed < MaxObserved
    /\ observed' = observed + 1
    /\ Record(observed')
    /\ UNCHANGED <<slots, asking, backlog, watching>>

ToExecutor(r) ==
    /\ asking[r].id # 0
    /\ asking' = [asking EXCEPT ![r].id = 0]
    /\ backlog' = Append(backlog, asking[r])
    /\ UNCHANGED <<slots, watching, logs, written, discarded, logFaults, observed>>

ExecutorRefuses(r) ==
    /\ asking[r].id # 0
    /\ asking' = [asking EXCEPT ![r].id = 0]
    /\ slots' = slots + 1
    /\ UNCHANGED <<backlog, watching, logs, written, discarded, logFaults, observed>>

TakeUp(o) ==
    /\ watching[o].pc = "idle" /\ backlog # <<>>
    /\ watching' = [watching EXCEPT ![o] = [id |-> Head(backlog).id, point |-> Head(backlog).point, attempt |-> 0, pc |-> "ask"]]
    /\ backlog' = Tail(backlog)
    /\ UNCHANGED <<slots, asking, logs, written, discarded, logFaults, observed>>

(* JevClient.evaluate: a rate-limited call is repeated once.  R1 records   *)
(* that there was no usable answer, R3 and R5 record nothing; an answer    *)
(* that cannot be read as numbers raises and is swallowed.                 *)
Evaluate(o, outcome) ==
    LET w == watching[o]
    IN  /\ w.pc = "ask"
        /\ watching' = [watching EXCEPT
                          ![o].attempt = @ + 1,
                          ![o].pc = CASE outcome = "limited" /\ w.attempt = 0 -> "ask"
                                      [] outcome = "answer" -> "record"
                                      [] outcome = "garbled" -> "done"
                                      [] OTHER -> IF w.point = "R1" THEN "record" ELSE "done"]
        /\ UNCHANGED <<slots, asking, backlog, logs, written, discarded, logFaults, observed>>

ObserveOnce(o) ==
    /\ watching[o].pc = "record"
    /\ watching' = [watching EXCEPT ![o].pc = "done"]
    /\ Record(watching[o].id)
    /\ UNCHANGED <<slots, asking, backlog, observed>>

WriteFails(o) ==                       \* the log cannot be written: a warning, no record
    /\ watching[o].pc = "record" /\ logFaults < MaxLogFaults
    /\ watching' = [watching EXCEPT ![o].pc = "done"]
    /\ logFaults' = logFaults + 1
    /\ UNCHANGED <<slots, asking, backlog, logs, written, discarded, observed>>

ReleaseSlot(o) ==
    /\ watching[o].pc = "done"
    /\ watching' = [watching EXCEPT ![o] = NoObservation]
    /\ slots' = slots + 1
    /\ UNCHANGED <<asking, backlog, logs, written, discarded, logFaults, observed>>

ShadowNext ==
    /\ UNCHANGED <<routevars, sidevars>>
    /\    \/ \E r \in JevRequests :
               \/ \E point \in Points : AcquireSlot(r, point)
               \/ CaptureFails(r) \/ ToExecutor(r) \/ ExecutorRefuses(r)
          \/ \E o \in Observers :
               \/ TakeUp(o) \/ ObserveOnce(o) \/ WriteFails(o) \/ ReleaseSlot(o)
               \/ \E outcome \in {"answer", "garbled", "none", "limited", "error"} : Evaluate(o, outcome)

-----------------------------------------------------------------------------
(* PolicyEnginePlugin: the first rule that denies or escalates wins.       *)

RuleSays(rule, facts) ==
    CASE rule = "quota" -> IF {"free", "full"} \subseteq facts THEN "deny" ELSE "none"
      [] rule = "cost" -> IF "costly" \in facts THEN "escalate" ELSE "none"
      [] rule = "enterprise" -> IF "free" \in facts THEN "none" ELSE "allow"
      [] rule = "custom" -> IF "odd" \in facts THEN "deny" ELSE "none"

PolicyRun(facts) ==
    LET stops == {i \in DOMAIN rules : RuleSays(rules[i], facts) \in {"deny", "escalate"}}
    IN  IF stops = {} THEN "allow" ELSE RuleSays(rules[CHOOSE i \in stops : \A k \in stops : i <= k], facts)

(* cascade_once: the choice counts at 85 hundredths; without a confidence  *)
(* the probability of the choice stands in for it.                         *)
Confident(confidence, probability, threshold) ==
    LET c == IF confidence = Missing THEN probability ELSE confidence
    IN  c # NaN /\ c # Missing /\ c >= threshold

(* every outcome that is not an answer is "none" *)

CascadeRun(result, choice, confident) ==
    IF confident /\ choice \in {"violation", "escalate"} /\ result = "allow" THEN "escalate" ELSE result

CascadePolicy(facts, choice, confidence, probability) ==
    /\ routed' = {[engine |-> "policy", said |-> PolicyRun(facts), facts |-> facts,
                   answered |-> CascadeRun(PolicyRun(facts), choice, Confident(confidence, probability, 85))]}
    /\ UNCHANGED rules

(* SupportChatPlugin._detect_intent: any known category replaces the       *)
(* heuristic one.                                                          *)
DetectIntent(heuristic, choice, confidence, probability) ==
    /\ routed' = {[engine |-> "triage", said |-> heuristic, facts |-> {},
                   answered |-> IF Confident(confidence, probability, 90) /\ choice \in {"billing", "general"}
                                THEN choice ELSE heuristic]}
    /\ UNCHANGED rules

OnDisable == rules # <<>> /\ rules' = <<>> /\ UNCHANGED routed
OnEnable == rules = <<>> /\ rules' = DefaultRules /\ UNCHANGED routed
AddRule == "custom" \notin {rules[i] : i \in DOMAIN rules} /\ rules' = Append(rules, "custom") /\ UNCHANGED routed
RemoveRule(name) ==
    /\ \E i \in DOMAIN rules : rules[i] = name
    /\ LET i == CHOOSE k \in DOMAIN rules : rules[k] = name /\ \A l \in 1..(k - 1) : rules[l] # name
       IN  rules' = SubSeq(rules, 1, i - 1) \o SubSeq(rules, i + 1, Len(rules))
    /\ UNCHANGED routed

RouteNext ==
    \/ /\ UNCHANGED <<shadowvars, sidevars>>
       /\ \/ \E facts \in SUBSET {"free", "full", "costly", "odd"}, c \in {Missing, NaN, 84, 85}, p \in {0, 85},
                choice \in {"none", "compliant", "violation", "escalate"} : CascadePolicy(facts, choice, c, p)
          \/ \E h \in {"billing", "general"}, c \in {Missing, NaN, 89, 90}, p \in {0, 90},
                choice \in {"none", "billing", "general", "made up"} : DetectIntent(h, choice, c, p)
          \/ OnDisable \/ OnEnable \/ AddRule
          \/ \E name \in {"quota", "cost", "custom"} : RemoveRule(name)

-----------------------------------------------------------------------------
(* The sidecar: adapters/jev/run.py, adapter.py and contract.py.           *)

(* _risk_value: a raw score in tenths becomes a level of the scale 1..5,   *)
(* the halves upwards; what is off the scale is no level.                  *)
RiskValue(raw) == IF raw < 10 \/ raw > 50 THEN Missing ELSE (raw + 5) \div 10

Decide(a) ==
    IF \/ a.gate = Missing \/ a.choice = "none" \/ a.risk = Missing \/ a.confidence = Missing
       \/ a.confidence # NaN /\ a.confidence < 50
       \/ RiskValue(a.risk) = Missing THEN "skip"
    ELSE IF 10 * RiskValue(a.risk) > 35 THEN "confirm"
    ELSE IF a.gate >= 70 /\ a.choice = "run" /\ a.p >= 60 THEN "execute"
    ELSE IF a.gate >= 45 \/ a.choice = "ask" \/ a.p >= 45 THEN "confirm"
    ELSE "abort"

SideStart(out) ==
    /\ sidecar.pc = "none" /\ sidecars < MaxSidecars
    /\ sidecars' = sidecars + 1
    /\ sidecar' = [NoRun EXCEPT !.pc = "state", !.out = out, !.run = sidecars']
    /\ UNCHANGED verdictFile

SideStops(code) == sidecar' = [sidecar EXCEPT !.pc = "exited", !.exit = code]

StateUnreadable(code) == sidecar.pc = "state" /\ SideStops(code) /\ UNCHANGED <<verdictFile, sidecars>>

(* forbidden domain, bad or oversized state, or disabled: no call is made  *)
SkipsUnasked ==
    /\ sidecar.pc = "state"
    /\ sidecar' = [sidecar EXCEPT !.pc = "verdict", !.decision = "skip"]
    /\ UNCHANGED <<verdictFile, sidecars>>

AsksJev == sidecar.pc = "state" /\ sidecar' = [sidecar EXCEPT !.pc = "asking"] /\ UNCHANGED <<verdictFile, sidecars>>

Retries == sidecar.attempts < 1

JevAnswers(a) ==
    /\ sidecar.pc = "asking"
    /\ sidecar' = [sidecar EXCEPT !.pc = "verdict", !.attempts = @ + 1, !.answer = a, !.decision = Decide(a)]
    /\ UNCHANGED <<verdictFile, sidecars>>

JevFails(limited) ==
    /\ sidecar.pc = "asking"
    /\ sidecar' = IF limited /\ Retries THEN [sidecar EXCEPT !.attempts = @ + 1]
                  ELSE [sidecar EXCEPT !.pc = "verdict", !.attempts = @ + 1, !.decision = "skip"]
    /\ UNCHANGED <<verdictFile, sidecars>>

ExitCode == IF sidecar.decision = "skip" THEN 4 ELSE 0

SideEnds ==
    /\ sidecar.pc = "verdict"
    /\ SideStops(ExitCode)
    /\ verdictFile' = IF sidecar.out THEN sidecar.decision ELSE verdictFile
    /\ UNCHANGED sidecars

OutputFails ==                          \* _write_atomic leaves the file as it was
    /\ sidecar.pc = "verdict" /\ sidecar.out
    /\ SideStops(5)
    /\ UNCHANGED <<verdictFile, sidecars>>

CallerReads ==                          \* the caller has read the exit code
    /\ sidecar.pc = "exited"
    /\ sidecar' = NoRun
    /\ UNCHANGED <<verdictFile, sidecars>>

Killed == sidecar.pc \notin {"none", "exited"} /\ sidecar' = NoRun /\ UNCHANGED <<verdictFile, sidecars>>

SidecarNext ==
    \/ /\ UNCHANGED <<shadowvars, routevars>>
       /\ \/ \E out \in BOOLEAN : SideStart(out)
          \/ \E code \in {2, 3} : StateUnreadable(code)
          \/ SkipsUnasked \/ AsksJev \/ SideEnds \/ OutputFails \/ CallerReads \/ Killed
          \/ \E limited \in BOOLEAN : JevFails(limited)
          \/ \E gate \in {Missing, 44, 45, 70}, choice \in {"none", "run", "ask", "abort"}, p \in {Missing, 45, 60},
                c \in {Missing, NaN, 49, 50}, risk \in {Missing, 9, 34, 35, 51} :
               JevAnswers([gate |-> gate, choice |-> choice, p |-> p, confidence |-> c, risk |-> risk])

JevNext == ShadowNext \/ RouteNext \/ SidecarNext

-----------------------------------------------------------------------------

(* Every permit that is not free is held by one observation, between the   *)
(* caller that took it and the callback that gives it back: the budget     *)
(* neither leaks nor grows (submit_observation).                           *)
SlotsAreHeld ==
    slots + Len(backlog) + Cardinality({r \in JevRequests : asking[r].id # 0})
          + Cardinality({o \in Observers : watching[o].pc # "idle"}) = QueueBudget

(* An observation is logged at most once, and rotation only ever discards  *)
(* records older than every record it keeps (_rotate).                     *)
LogKeepsTheNewest ==
    /\ \A i, j \in 0..LogBackups : \A k \in DOMAIN logs[i], l \in DOMAIN logs[j] :
         logs[i][k].id = logs[j][l].id => i = j /\ k = l
    /\ \A d \in discarded : d <= written /\ \A n \in InLogs(logs) : d < n
    /\ InLogs(logs) \cup discarded = 1..written

(* A cascade of the policy engine only ever turns an allow into an         *)
(* escalation: no answer of the model lets through what a rule denied or   *)
(* escalated (cascade_run: "never downgrade").                             *)
CascadeOnlyLifts ==
    \A x \in routed : x.engine = "policy" /\ x.answered # x.said => x.said = "allow" /\ x.answered = "escalate"

(* The caller of the sidecar can trust exit code 0: a verdict was reached, *)
(* it is in the file when one was asked for, and "execute" rests on a      *)
(* confidence that is not low, a gate and a choice over their thresholds   *)
(* and a raw risk below the middle of level 3 and 4; at most two calls     *)
(* were made.                                                              *)
ExitCodeIsTrue ==
    /\ sidecar.exit = 0 => sidecar.decision \in {"execute", "confirm", "abort"}
    /\ sidecar.exit = 0 /\ sidecar.out => verdictFile = sidecar.decision
    /\ sidecar.decision = "execute" =>
         /\ sidecar.answer.choice = "run" /\ sidecar.answer.gate >= 70 /\ sidecar.answer.p >= 60
         /\ sidecar.answer.risk \in 10..34
         /\ sidecar.answer.confidence # Missing
    /\ sidecar.attempts <= 2

JevInv == SlotsAreHeld /\ LogKeepsTheNewest /\ CascadeOnlyLifts /\ ExitCodeIsTrue

=============================================================================
