----------------------------- MODULE DeployAgent -----------------------------
(***************************************************************************)
(* deploy/ops/zo_deploy_agent.py: the agent that pulls the branch, once    *)
(* its CI is green, to the machine that runs the service.                  *)
(*                                                                         *)
(* Commits are 1..Commits in the order of the branch.  The agent keeps its *)
(* state in memory and in a file; the working tree, the service and the    *)
(* migration ledger change at different steps of one deployment, and the   *)
(* agent, or the whole machine, can stop between any two of them.          *)
(***************************************************************************)
EXTENDS Naturals, FiniteSets

CONSTANTS
    Commits,        \* bound: commits pushed to the branch
    MaxMishaps,     \* bound: crashes and commands that fail where the code has a branch for it
    MaxRetryAll     \* bound: uses of --retry-all

ASSUME DeployBounds == Commits \in Nat \ {0} /\ {MaxMishaps, MaxRetryAll} \subseteq Nat

VARIABLES
    deps,       \* the dependency set each commit asks for
    remote,     \* head of the branch
    deployer,      \* pc, target and state in memory of the agent
    file,       \* state.json
    head,       \* HEAD of the working tree
    running,    \* commit the service runs; Down
    schema,     \* commits whose migrations are in the ledger
    dirty,      \* tracked files of the tree are modified
    mishaps, retries,
    attempts,   \* deployments begun, per commit
    strayed     \* something the agent's own steps cannot undo has happened

dvars == <<deps, remote, deployer, file, head, running, schema, dirty, mishaps, retries,
           attempts, strayed>>

Down == 0
Known == [deployed : 0..Commits, failed : SUBSET (1..Commits)]
Pcs == {"down", "idle", "fetch", "merged", "compiled", "migrated", "restarted", "undo"}

DeployTypeOK ==
    /\ deps \in [1..Commits -> {"venv", "other"}] /\ remote \in 1..Commits
    /\ deployer.pc \in Pcs /\ deployer.target \in 0..Commits
    /\ deployer.mem \in Known /\ file \in Known
    /\ head \in 1..Commits /\ running \in 0..Commits
    /\ schema \subseteq 1..Commits /\ dirty \in BOOLEAN
    /\ mishaps \in 0..MaxMishaps /\ retries \in 0..MaxRetryAll
    /\ attempts \in [1..Commits -> 0..(1 + MaxRetryAll + MaxMishaps)]
    /\ strayed \in BOOLEAN

\* The machine runs the first commit; no state file yet.
DeployInit ==
    /\ deps \in {d \in [1..Commits -> {"venv", "other"}] : d[1] = "venv"}
    /\ remote = 1 /\ head = 1 /\ running = 1 /\ schema = {1} /\ dirty = FALSE
    /\ deployer = [pc |-> "down", target |-> 0, mem |-> [deployed |-> 0, failed |-> {}]]
    /\ file = [deployed |-> 0, failed |-> {}]
    /\ mishaps = 0 /\ retries = 0 /\ strayed = FALSE
    /\ attempts = [c \in 1..Commits |-> 0]

World == <<deps, remote, dirty, retries>>
Keep(pc) == deployer' = [deployer EXCEPT !.pc = pc]
Mishap == mishaps < MaxMishaps /\ mishaps' = mishaps + 1

-----------------------------------------------------------------------------
(* The agent starts, polls and refuses                                     *)

\* main: without a deployed commit in the file, HEAD is what is deployed.
AgentStarts ==
    /\ deployer.pc = "down"
    /\ LET known == IF file.deployed # 0 THEN file ELSE [file EXCEPT !.deployed = head]
       IN  /\ deployer' = [pc |-> "idle", target |-> 0, mem |-> known]
           /\ file' = known
    /\ UNCHANGED <<World, head, running, schema, mishaps, attempts, strayed>>

\* fail: remembered and saved.
Failed(state, c) == [state EXCEPT !.failed = @ \cup {c}]
Refused(c, pc) ==
    /\ deployer' = [deployer EXCEPT !.pc = pc, !.mem = Failed(@, c)]
    /\ file' = Failed(deployer.mem, c)

Attemptable == deployer.pc = "idle" /\ remote # deployer.mem.deployed /\ remote \notin deployer.mem.failed

CiRed ==
    /\ Attemptable /\ Refused(remote, "idle")
    /\ UNCHANGED <<World, head, running, schema, mishaps, attempts, strayed>>

\* CI is green and no tracked file is modified.
DeployBegins ==
    /\ Attemptable /\ ~dirty
    /\ deployer' = [deployer EXCEPT !.pc = "fetch", !.target = remote]
    /\ attempts' = [attempts EXCEPT ![remote] = @ + 1]
    /\ UNCHANGED <<World, file, head, running, schema, mishaps, strayed>>

DepsSame(c) == deps[deployer.mem.deployed] = deps[c]

\* fetch, history, dependencies, merge --ff-only: a refusal leaves the tree.
DeployRefused ==
    /\ deployer.pc = "fetch" /\ Refused(deployer.target, "idle")
    /\ IF head <= deployer.target /\ deployer.mem.deployed # 0 /\ DepsSame(deployer.target)
       THEN Mishap ELSE UNCHANGED mishaps
    /\ UNCHANGED <<World, head, running, schema, attempts, strayed>>
FastForward ==
    /\ deployer.pc = "fetch" /\ head <= deployer.target /\ DepsSame(deployer.target)
    /\ head' = deployer.target /\ Keep("merged")
    /\ UNCHANGED <<World, file, running, schema, mishaps, attempts, strayed>>

-----------------------------------------------------------------------------
(* After the fast-forward                                                  *)

\* compileall; an unreadable ledger, a missing DSN, a failed or silently
\* skipped migration; a refusal here still has to roll the tree back.
FailsAfterMerge ==
    /\ deployer.pc \in {"merged", "compiled"} /\ Mishap
    /\ Refused(deployer.target, "undo")
    /\ \/ UNCHANGED schema
       \/ deployer.pc = "compiled" /\ \E k \in 1..head : schema' = schema \cup (1..k)
    /\ UNCHANGED <<World, head, running, attempts, strayed>>
Compiles ==
    /\ deployer.pc = "merged" /\ Keep("compiled")
    /\ UNCHANGED <<World, file, head, running, schema, mishaps, attempts, strayed>>
Migrated == schema \cup (1..head)
Migrates ==
    /\ deployer.pc = "compiled" /\ schema' = Migrated /\ Keep("migrated")
    /\ UNCHANGED <<World, file, head, running, mishaps, attempts, strayed>>

\* supervisorctl restart; when it fails the service may be in any state.
Restarts ==
    /\ deployer.pc = "migrated" /\ running' = head /\ Keep("restarted")
    /\ UNCHANGED <<World, file, head, schema, mishaps, attempts, strayed>>
RestartFails ==
    /\ deployer.pc = "migrated" /\ Mishap /\ Refused(deployer.target, "undo")
    /\ running' \in {running, head, Down} /\ strayed' = TRUE
    /\ UNCHANGED <<World, head, schema, attempts>>

\* rollback_tree: reset --hard to the deployed commit; the reset may fail.
UndoToHead == head
UndoTo == deployer.mem.deployed
RollbackTree ==
    /\ deployer.pc = "undo" /\ Keep("idle")
    /\ \/ head' = UndoTo /\ UNCHANGED <<mishaps, strayed>>
       \/ UNCHANGED head /\ Mishap /\ strayed' = TRUE
    /\ UNCHANGED <<World, file, running, schema, attempts>>

Deployed(state, c) == [deployed |-> c, failed |-> state.failed \ {c}]
Healthy ==
    /\ deployer.pc = "restarted"
    /\ deployer' = [deployer EXCEPT !.pc = "idle", !.mem = Deployed(@, deployer.target)]
    /\ file' = Deployed(deployer.mem, deployer.target)
    /\ UNCHANGED <<World, head, running, schema, mishaps, attempts, strayed>>

\* The service does not come up: by default tree and service stay on the new
\* commit while "deployed" names the old one; with --rollback-on-unhealthy
\* both go back.
Unhealthy(rollback) ==
    /\ deployer.pc = "restarted" /\ Mishap /\ Refused(deployer.target, "idle")
    /\ IF rollback
       THEN /\ head' = deployer.mem.deployed /\ running' \in {deployer.mem.deployed, Down, running}
            /\ strayed' = (strayed \/ running' # head')
       ELSE UNCHANGED <<head, running>> /\ strayed' = TRUE
    /\ UNCHANGED <<World, schema, attempts>>

-----------------------------------------------------------------------------
(* The world around the agent                                              *)

Push ==
    /\ remote < Commits /\ remote' = remote + 1
    /\ UNCHANGED <<deps, deployer, file, head, running, schema, dirty, mishaps, retries, attempts, strayed>>
TreeTouched ==
    /\ dirty' = ~dirty
    /\ UNCHANGED <<deps, remote, deployer, file, head, running, schema, mishaps, retries, attempts, strayed>>

\* Between the fast-forward and the restart, or the reset that undoes it.
Merging == deployer.pc \in {"merged", "compiled", "migrated", "undo"}

AgentCrashes ==
    /\ deployer.pc # "down" /\ Mishap /\ Keep("down")
    /\ strayed' = (strayed \/ Merging \/ deployer.pc = "restarted")
    /\ UNCHANGED <<World, file, head, running, schema, attempts>>

\* The machine comes back and the supervisor starts what HEAD holds.
MachineRestarts ==
    /\ Mishap /\ Keep("down") /\ running' = head
    /\ strayed' = (strayed \/ Merging \/ deployer.pc = "restarted")
    /\ UNCHANGED <<World, file, head, schema, attempts>>

\* --retry-all, a process of its own: it clears the file, not the memory of
\* an agent that runs.
RetryAll ==
    /\ retries < MaxRetryAll /\ retries' = retries + 1
    /\ file' = [file EXCEPT !.failed = {}]
    /\ UNCHANGED <<deps, remote, deployer, head, running, schema, dirty, mishaps, attempts, strayed>>

DeployNext ==
    \/ AgentStarts \/ CiRed \/ DeployBegins \/ DeployRefused \/ FastForward
    \/ FailsAfterMerge \/ Compiles \/ Migrates \/ Restarts \/ RestartFails
    \/ RollbackTree \/ Healthy \/ (\E r \in BOOLEAN : Unhealthy(r))
    \/ Push \/ TreeTouched \/ AgentCrashes \/ MachineRestarts \/ RetryAll

-----------------------------------------------------------------------------
\* The tree holds what the service runs whenever no deployment is between its
\* fast-forward and its restart (the header of the agent and rollback_tree),
\* unless a restart, a reset or a health probe has failed, or the agent has
\* died in between.
HeadIsWhatRuns ==
    ~strayed /\ ~Merging => head = running

\* Restarting the service never raises code without its migrations, or code
\* that asks for other dependencies than the installed ones.
RunsWhatIsInstalled ==
    /\ running # Down => deps[running] = "venv"
    /\ ~strayed /\ running # Down => 1..running \subseteq schema

\* A commit is deployed once: only a crash or --retry-all begins it again.
DeployedOnce == \A c \in 1..Commits : attempts[c] <= 1 + retries + mishaps

DeployInv == HeadIsWhatRuns /\ RunsWhatIsInstalled /\ DeployedOnce
=============================================================================
