------------------------------ MODULE OpsTools ------------------------------
(***************************************************************************)
(* The tools that keep the machine of the service in order:                *)
(*   deploy/ops/pg_watchdog.py     restarts PostgreSQL within a budget     *)
(*   scripts/apply_migrations.py   applies migrations as the owner role    *)
(*   scripts/run_migrations.py     the older runner of the same files      *)
(*   scripts/drift_check.py        compares what runs with the repository  *)
(***************************************************************************)
EXTENDS Naturals, FiniteSets, FiniteSetsExt

CONSTANTS
    Budget,         \* RESTART_BUDGET_PER_HOUR
    Hour,           \* ticks of an hour
    Starts,         \* bound: starts of PostgreSQL remembered at a time
    MaxRows,        \* bound: ledger rows
    MaxPgTrouble,   \* bound: crashes of PostgreSQL, of the watchdog, of the machine
    Files,          \* bound: migrations are 1..Files, in filename order
    Runners,        \* migration runners; those in Legacy are run_migrations.py
    Legacy,
    MaxBadFiles,    \* bound: migrations that fail
    Throttle,       \* ticks during which the same alert is not repeated
    MaxRelayFails   \* bound: alerts that the relay does not take

ASSUME OpsBounds ==
    /\ {Budget, Hour, MaxRows, MaxPgTrouble, Files, MaxBadFiles, Throttle, MaxRelayFails} \subseteq Nat
    /\ MaxRows # 0 /\ Legacy \subseteq Runners

VARIABLES
    pg,         \* down, starting or up
    lock,       \* .s.PGSQL.lock and postmaster.pid: none, stale, alive
    rows,       \* ledger_entries in the database
    wd,         \* the watchdog: pc, restarts, baseline
    wdFile,     \* state.json
    startAge,   \* how long ago each start was tried: its time stamp
    tries,      \* the starts really tried
    peak,       \* the most ledger rows a loop has seen
    trouble,
    raced,      \* someone started PostgreSQL between a check and the move
    lostBudget,       \* the watchdog died between a start and its write
    ledger,     \* schema_migrations
    effects,    \* committed executions of each migration
    runner, badFiles,
    env,        \* what the drift check looks at
    drift       \* state of the drift check, what the relay took

wvars == <<pg, lock, rows, wd, wdFile, startAge, tries, peak, trouble, raced, lostBudget>>
mvars == <<ledger, effects, runner, badFiles>>
fvars == <<env, drift>>

Problem == {"pair", "promtail", "barrier", "weak"}
WdKept == [restarts : SUBSET Starts, base : 0..MaxRows]

OpsTypeOK ==
    /\ pg \in {"down", "starting", "up"} /\ lock \in {"none", "stale", "alive"}
    /\ rows \in 0..MaxRows /\ peak \in 0..MaxRows /\ trouble \in 0..MaxPgTrouble
    /\ wd.pc \in {"dead", "probe", "look", "move", "start", "end"}
    /\ wd.kept \in WdKept /\ wdFile \in WdKept
    /\ startAge \in [Starts -> 0..Hour] /\ tries \subseteq Starts /\ raced \in BOOLEAN /\ lostBudget \in BOOLEAN
    /\ ledger \subseteq 1..Files /\ effects \in [1..Files -> Nat]
    /\ \A r \in Runners : /\ runner[r].pc \in {"idle", "run", "done", "failed"}
                          /\ runner[r].todo \subseteq 1..Files
    /\ badFiles \in 0..MaxBadFiles
    /\ env \subseteq Problem
    /\ drift \in [signature : SUBSET Problem, age : 0..Throttle, told : SUBSET Problem,
                  last : SUBSET Problem, fails : 0..MaxRelayFails]

WatchdogInit ==
    /\ pg = "up" /\ lock = "alive" /\ rows = 1 /\ peak = 1
    /\ wdFile = [restarts |-> {}, base |-> 1]
    /\ wd = [pc |-> "probe", kept |-> wdFile]
    /\ startAge = [k \in Starts |-> Hour] /\ tries = {} /\ trouble = 0 /\ raced = FALSE /\ lostBudget = FALSE
MigrateInit ==
    /\ ledger = {} /\ effects = [f \in 1..Files |-> 0] /\ badFiles = 0
    /\ runner = [r \in Runners |-> [pc |-> "idle", todo |-> {}]]
DriftInit ==
    /\ env = {}
    /\ drift = [signature |-> {}, age |-> Throttle, told |-> {}, last |-> {}, fails |-> 0]
OpsInit == WatchdogInit /\ MigrateInit /\ DriftInit

-----------------------------------------------------------------------------
(* pg_watchdog.py                                                          *)

Young(starts) == {k \in starts : startAge[k] < Hour}
WdGoes(pc) == wd' = [wd EXCEPT !.pc = pc]

\* prune_restarts and pg_isready: nothing to do, budget spent, or a start.
WdProbe ==
    /\ wd.pc = "probe"
    /\ LET young == Young(wd.kept.restarts)
       IN  wd' = [pc   |-> IF pg = "up" \/ Cardinality(young) >= Budget THEN "end" ELSE "look",
                  kept |-> [wd.kept EXCEPT !.restarts = young]]
    /\ UNCHANGED <<pg, lock, rows, wdFile, startAge, tries, peak, trouble, raced, lostBudget>>

\* clear_stale_lock: any doubt leaves the files alone.
Clearable == pg # "up" /\ lock = "stale"
WdLook ==
    /\ wd.pc = "look" /\ WdGoes(IF Clearable THEN "move" ELSE "start")
    /\ UNCHANGED <<pg, lock, rows, wdFile, startAge, tries, peak, trouble, raced, lostBudget>>
WdMove ==
    /\ wd.pc = "move" /\ lock' = "none" /\ WdGoes("start")
    /\ UNCHANGED <<pg, rows, wdFile, startAge, tries, peak, trouble, raced, lostBudget>>

\* A start counts whether it succeeds or not; a stale lock makes it fail.
Counted(starts, k, ok) == starts \cup {k}
WdStart(ok) ==
    /\ wd.pc = "start" /\ (ok => lock = "none" \/ pg # "down")
    /\ \E k \in Starts \ (tries \cup wd.kept.restarts \cup wdFile.restarts) :
          /\ startAge' = [startAge EXCEPT ![k] = 0]
          /\ wd' = [wd EXCEPT !.pc = "end", !.kept.restarts = Counted(@, k, ok)]
          /\ tries' = Young(tries) \cup {k}
    /\ IF ok THEN pg' = "up" /\ lock' = "alive"
       ELSE /\ pg' \in IF lock = "none" /\ pg = "down" THEN {"down", "starting"} ELSE {pg}
            /\ lock' = IF pg' = "down" THEN lock ELSE "alive"
    /\ UNCHANGED <<rows, wdFile, peak, trouble, raced, lostBudget>>

\* The ledger tripwire, then write_state.
Baseline(base) == IF rows < base THEN base ELSE rows
WdEnd ==
    /\ wd.pc = "end"
    /\ LET kept == IF pg = "up" THEN [wd.kept EXCEPT !.base = Baseline(@)] ELSE wd.kept
       IN  wd' = [pc |-> "probe", kept |-> kept] /\ wdFile' = kept
    /\ peak' = IF pg = "up" THEN Max({peak, rows}) ELSE peak
    /\ UNCHANGED <<pg, lock, rows, startAge, tries, trouble, raced, lostBudget>>

WdTick ==
    /\ startAge' = [k \in Starts |-> Min({Hour, startAge[k] + 1})]
    /\ UNCHANGED <<pg, lock, rows, wd, wdFile, tries, peak, trouble, raced, lostBudget>>

Troubled == trouble < MaxPgTrouble /\ trouble' = trouble + 1
PgDies ==
    /\ Troubled /\ pg # "down" /\ pg' = "down"
    /\ lock' \in {"stale", "none"}
    /\ UNCHANGED <<rows, wd, wdFile, startAge, tries, peak, raced, lostBudget>>
PgComesUp ==
    /\ pg = "starting" /\ pg' = "up"
    /\ UNCHANGED <<lock, rows, wd, wdFile, startAge, tries, peak, trouble, raced, lostBudget>>
\* Someone else starts the cluster; a start that works around the lock.
StartedByHand ==
    /\ pg = "down" /\ pg' = "starting" /\ lock' = "alive"
    /\ raced' = (raced \/ wd.pc = "move")
    /\ UNCHANGED <<rows, wd, wdFile, startAge, tries, peak, trouble, lostBudget>>
WdDies ==
    /\ Troubled /\ wd.pc # "dead" /\ WdGoes("dead")
    /\ lostBudget' = (lostBudget \/ wd.pc = "end")
    /\ UNCHANGED <<pg, lock, rows, wdFile, startAge, tries, peak, raced>>
WdReturns ==
    /\ wd.pc = "dead" /\ wd' = [pc |-> "probe", kept |-> wdFile]
    /\ UNCHANGED <<pg, lock, rows, wdFile, startAge, tries, peak, trouble, raced, lostBudget>>
RowsChange ==
    /\ pg = "up" /\ rows' \in 0..MaxRows \ {rows}
    /\ UNCHANGED <<pg, lock, wd, wdFile, startAge, tries, peak, trouble, raced, lostBudget>>

WatchdogNext ==
    /\ \/ WdProbe \/ WdLook \/ WdMove \/ (\E ok \in BOOLEAN : WdStart(ok)) \/ WdEnd
       \/ WdTick \/ PgDies \/ PgComesUp \/ StartedByHand \/ WdDies \/ WdReturns \/ RowsChange
    /\ UNCHANGED <<mvars, fvars>>

-----------------------------------------------------------------------------
(* apply_migrations.py and run_migrations.py                               *)

\* pending(): the files that are not in the ledger when the run begins; the
\* older runner asks the ledger for every file when it comes to it.
MigrateBegins(r) ==
    /\ runner[r].pc = "idle"
    /\ runner' = [runner EXCEPT ![r] = [pc |-> "run", todo |->
                     IF r \in Legacy THEN 1..Files ELSE (1..Files) \ ledger]]
    /\ UNCHANGED <<ledger, effects, badFiles>>

NextFile(r) == Min(runner[r].todo)
Advanced(r) == [runner EXCEPT ![r].todo = @ \ {NextFile(r)}]
SkipApplied(r) ==
    /\ runner[r].pc = "run" /\ r \in Legacy /\ runner[r].todo # {} /\ NextFile(r) \in ledger
    /\ runner' = Advanced(r)
    /\ UNCHANGED <<ledger, effects, badFiles>>

\* Body and ledger row in one transaction: a row that exists already takes
\* the body back with it and ends the run.
Recorded(f) == effects' = IF f \in ledger THEN effects ELSE [effects EXCEPT ![f] = @ + 1]
ApplyFile(r) ==
    /\ runner[r].pc = "run" /\ runner[r].todo # {}
    /\ r \in Legacy => NextFile(r) \notin ledger
    /\ Recorded(NextFile(r)) /\ ledger' = ledger \cup {NextFile(r)}
    /\ runner' = IF NextFile(r) \in ledger THEN [runner EXCEPT ![r].pc = "failed"] ELSE Advanced(r)
    /\ UNCHANGED badFiles

RunStops(r) == [runner EXCEPT ![r].pc = "failed"]
FileFails(r) ==
    /\ runner[r].pc = "run" /\ runner[r].todo # {} /\ badFiles < MaxBadFiles
    /\ badFiles' = badFiles + 1 /\ runner' = RunStops(r)
    /\ UNCHANGED <<ledger, effects>>
\* All files done; objects of another owner turn the verdict into a failure.
MigrateEnds(r) ==
    /\ runner[r].pc = "run" /\ runner[r].todo = {}
    /\ \E verdict \in {"done"} \cup (IF r \in Legacy THEN {} ELSE {"failed"}) :
           runner' = [runner EXCEPT ![r].pc = verdict]
    /\ UNCHANGED <<ledger, effects, badFiles>>
MigrateAgain(r) ==
    /\ runner[r].pc \in {"done", "failed"}
    /\ runner' = [runner EXCEPT ![r] = [pc |-> "idle", todo |-> {}]]
    /\ UNCHANGED <<ledger, effects, badFiles>>

MigrateNext ==
    /\ \E r \in Runners : \/ MigrateBegins(r) \/ SkipApplied(r) \/ ApplyFile(r)
                          \/ FileFails(r) \/ MigrateEnds(r) \/ MigrateAgain(r)
    /\ UNCHANGED <<wvars, fvars>>

-----------------------------------------------------------------------------
(* drift_check.py                                                          *)

\* run_pairs and run_checks; --no-probe leaves the password alone.
Found(probe) == IF probe THEN env ELSE env \ {"weak"}

\* An alert goes out unless the same problems were announced a short time
\* ago; the time is taken whether the relay took the alert or not.
Muted(found) == drift.signature = found /\ drift.age < Throttle
DriftCheck(probe, taken) ==
    LET found == Found(probe)
    IN  /\ found # {} /\ ~taken => drift.fails < MaxRelayFails
        /\ IF found = {} THEN taken /\ UNCHANGED drift
           ELSE IF Muted(found) THEN taken /\ drift' = [drift EXCEPT !.last = found]
           ELSE drift' = [signature |-> found, age |-> 0, last |-> found,
                          told  |-> IF taken THEN found ELSE drift.told,
                          fails |-> IF taken THEN drift.fails ELSE drift.fails + 1]
        \* auto_stop: a Grafana that takes the default password is stopped.
        /\ env' = env \ (found \cap {"weak"})
EnvDrifts(p) == env' = (IF p \in env THEN env \ {p} ELSE env \cup {p}) /\ UNCHANGED drift
DriftTicks == drift.age < Throttle /\ drift' = [drift EXCEPT !.age = @ + 1] /\ UNCHANGED env

DriftNext ==
    /\ \/ \E probe, taken \in BOOLEAN : DriftCheck(probe, taken)
       \/ \E p \in Problem : EnvDrifts(p)
       \/ DriftTicks
    /\ UNCHANGED <<wvars, mvars>>

-----------------------------------------------------------------------------
\* The lock of a living PostgreSQL is never moved away, unless somebody starts
\* it by hand between the watchdog's check and its move.
LiveLockKept == ~raced /\ pg # "down" => lock = "alive"

\* In no hour does the watchdog try more starts than its budget, through
\* restarts of its own, unless it died between a start and its write.
BudgetKept == ~lostBudget => Cardinality(Young(tries)) <= Budget

\* The tripwire compares with the most rows ever seen: a loss of ledger rows
\* never becomes the new baseline.
BaselineIsPeak == wdFile.base = peak

\* Each migration is executed once, with its ledger row, and in order.
MigrationsWhole ==
    \A f \in 1..Files : /\ effects[f] = (IF f \in ledger THEN 1 ELSE 0)
                        /\ f \in ledger => 1..f \subseteq ledger

\* While the relay takes alerts, the operator knows the problems of the last
\* run that found any.
DriftTold == drift.fails = 0 => drift.told = drift.last

OpsInv == LiveLockKept /\ BudgetKept /\ BaselineIsPeak /\ MigrationsWhole /\ DriftTold
=============================================================================
