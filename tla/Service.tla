------------------------------ MODULE Service ------------------------------
(***************************************************************************)
(* The API process (main.py) apart from its routers: its life (the retried *)
(* database initialisation, the tasks of the lifespan, the reconciliation  *)
(* loop, the shutdown), the chat that runs tools for a caller, the worker  *)
(* websocket, the demo submissions, and policy_engine.evaluate_policies.   *)
(***************************************************************************)
EXTENDS Integers, Sequences, FiniteSets

CONSTANTS Timeout, Delay0, MaxDelay,  \* budget, first and longest delay of init
          MaxRestarts,    \* bound: restarts by the supervisor
          SvcJobs,        \* jobs the worker may start
          MaxIterations,  \* rounds of the tool loop (6 in the code)
          MaxToolCalls,   \* bound: tool calls in one answer of the model
          Socks, WsWorkers, NoSock, NoWsWorker,
          MaxDemos        \* bound: demo submissions

ASSUME ServiceAssumption ==
    /\ Timeout \in Nat /\ Delay0 \in Nat \ {0} /\ MaxDelay \in Nat /\ Delay0 <= MaxDelay
    /\ MaxToolCalls \in Nat /\ NoWsWorker \notin WsWorkers

VARIABLES proc,      \* [at, elapsed, delay, pool, tasks, restarts]: the process
          inflight,  \* jobs being executed by tasks of this process
          svcDone,   \* jobs it is finished with
          gauge4,    \* [backup, ledger]: what the metrics were last set to
          chat,      \* [at, round, messages, calls]: one conversation
          socks,     \* websocket -> [open, id, renamed]
          active,    \* active_ws_workers
          demos,     \* [queued, depth, submitted]: jobs dict and queue_depth
          asked      \* last question to the policy engine, with its verdict

lifevars == <<proc, inflight, svcDone, gauge4>>
svcvars == <<proc, inflight, svcDone, gauge4, chat, socks, active, demos, asked>>

Points4 == {"init", "dead", "serving", "cancelling", "draining", "stopped"}
NoChat == [at |-> "idle", round |-> 0, messages |-> <<>>, calls |-> <<>>]
Message(role, id) == [role |-> role, id |-> id]

ServiceTypeOK ==
    /\ proc \in [at : Points4, elapsed : 0..(Timeout + MaxDelay), delay : Delay0..MaxDelay,
                 pool : BOOLEAN, tasks : BOOLEAN, restarts : 0..MaxRestarts]
    /\ inflight \subseteq SvcJobs /\ svcDone \subseteq SvcJobs
    /\ gauge4 \in [backup : {"unset", "zero", "time"}, ledger : {"unset", "set"}]
    /\ chat.at \in {"idle", "model", "tools", "ended"} /\ chat.round \in 0..MaxIterations
    /\ socks \in [Socks -> [open : {"no", "yes", "closed"}, id : WsWorkers \cup {NoWsWorker},
                            renamed : BOOLEAN]]
    /\ active \in [WsWorkers -> Socks \cup {NoSock}]
    /\ demos \in [queued : 0..MaxDemos, depth : (-MaxDemos)..0, submitted : 0..MaxDemos]

\* A process starts: module import runs _init_db_with_retry.
Fresh4(n) == [at |-> "init", elapsed |-> 0, delay |-> Delay0, pool |-> FALSE, tasks |-> FALSE,
              restarts |-> n]

ServiceInit ==
    /\ proc = Fresh4(0)
    /\ inflight = {} /\ svcDone = {}
    /\ gauge4 = [backup |-> "unset", ledger |-> "unset"]
    /\ chat = NoChat
    /\ socks = [s \in Socks |-> [open |-> "no", id |-> NoWsWorker, renamed |-> FALSE]]
    /\ active = [w \in WsWorkers |-> NoSock]
    /\ demos = [queued |-> 0, depth |-> 0, submitted |-> 0]
    /\ asked = [action |-> "none", verdict |-> "none"]

----------------------------------------------------------------------------
(* The life of the process.                                                *)

\* init_db fails: past the deadline the exception goes out and the process
\* dies; otherwise it sleeps, and the delay doubles up to its cap.
Longer(d) == IF 2 * d < MaxDelay THEN 2 * d ELSE MaxDelay
InitFails ==
    /\ proc.at = "init"
    /\ proc' = IF proc.elapsed >= Timeout THEN [proc EXCEPT !.at = "dead"]
               ELSE [proc EXCEPT !.elapsed = @ + proc.delay, !.delay = Longer(@)]
    /\ UNCHANGED <<inflight, svcDone, gauge4>>

\* init_db succeeds and lifespan starts: the pool, then the worker and the
\* reconciliation loop, each failure only logged.  Without the pool neither
\* task is started; the service serves all the same.
StartUp ==
    /\ proc.at = "init"
    /\ \E pool \in BOOLEAN, tasks \in BOOLEAN :
          /\ tasks => pool
          /\ proc' = [proc EXCEPT !.at = "serving", !.pool = pool, !.tasks = tasks]
    /\ UNCHANGED <<inflight, svcDone, gauge4>>

\* The worker claims a job and tracks the task that executes it.
StartJob(j) ==
    /\ proc.tasks /\ proc.at = "serving"
    /\ j \notin inflight \cup svcDone
    /\ inflight' = inflight \cup {j}
    /\ UNCHANGED <<proc, svcDone, gauge4>>

EndJob(j) ==
    /\ j \in inflight
    /\ inflight' = inflight \ {j}
    /\ svcDone' = svcDone \cup {j}
    /\ UNCHANGED <<proc, gauge4>>

\* One pass of the reconciliation loop: the gauges read from the backup's
\* files first (0 when a file is missing or malformed), then the ledger's;
\* an error of the ledger's query is logged and the loop goes on.
ReconcileOnce ==
    /\ proc.tasks /\ proc.at = "serving"
    /\ \E b \in {"zero", "time"}, l \in {gauge4.ledger, "set"} :
          gauge4' = [backup |-> b, ledger |-> l]
    /\ UNCHANGED <<proc, inflight, svcDone>>

\* Shutdown, in the order of the code: the two tasks are cancelled and
\* awaited; the jobs in flight get their grace; who is left is cancelled and
\* awaited; then the pools are closed.
StopTasks ==
    /\ proc.at = "serving"
    /\ proc' = [proc EXCEPT !.at = "cancelling"]
    /\ UNCHANGED <<inflight, svcDone, gauge4>>

TasksStopped ==
    /\ proc.at = "cancelling"
    /\ proc' = [proc EXCEPT !.at = "draining", !.tasks = FALSE]
    /\ UNCHANGED <<inflight, svcDone, gauge4>>

LeftBehind == inflight
Cancelled == {}
DrainInflight ==
    /\ proc.at = "draining"
    /\ inflight' = Cancelled
    /\ proc' = [proc EXCEPT !.at = "stopped", !.pool = FALSE]
    /\ UNCHANGED <<svcDone, gauge4>>

\* The process is killed; a supervisor starts a dead or stopped one again.
KillProcess ==
    /\ proc.at \notin {"dead", "stopped"}
    /\ proc' = [proc EXCEPT !.at = "dead", !.pool = FALSE, !.tasks = FALSE]
    /\ inflight' = {}
    /\ UNCHANGED <<svcDone, gauge4>>

Supervisor ==
    /\ proc.at \in {"dead", "stopped"} /\ proc.restarts < MaxRestarts
    /\ proc' = Fresh4(proc.restarts + 1)
    /\ gauge4' = [backup |-> "unset", ledger |-> "unset"]
    /\ UNCHANGED <<inflight, svcDone>>

LifeNext ==
    /\ \/ InitFails \/ StartUp \/ ReconcileOnce \/ StopTasks \/ TasksStopped \/ DrainInflight
       \/ KillProcess \/ Supervisor
       \/ \E j \in SvcJobs : StartJob(j) \/ EndJob(j)
    /\ UNCHANGED <<chat, socks, active, demos, asked>>

----------------------------------------------------------------------------
(* The chat: chat_stream, stream_with_tools, execute_tool.                 *)

ChatStarts ==
    /\ chat.at = "idle"
    /\ \/ chat' = [chat EXCEPT !.at = "model", !.messages = <<Message("user", 0)>>]
       \/ chat' = [chat EXCEPT !.at = "ended"]   \* empty, "help", or no client

\* The model's stream: text, and tool calls gathered by index.  Without a
\* call the answer is final; with calls the assistant's message is kept.
ModelStreams ==
    /\ chat.at = "model"
    /\ \E n \in 0..MaxToolCalls :
          LET ids == [i \in 1..n |-> chat.round * MaxToolCalls + i] IN
          chat' = IF n = 0 THEN [chat EXCEPT !.at = "ended"]
                  ELSE [chat EXCEPT !.at = "tools", !.calls = ids,
                           !.messages = @ \o [i \in 1..n |-> Message("call", ids[i])]]

ModelFails == chat.at = "model" /\ chat' = [chat EXCEPT !.at = "ended"]

\* One call: malformed arguments become {}; an unknown tool, an HTTP error
\* and an exception become the text of the result.  A result is always given.
ResultOf(good, id) == <<Message("tool", id)>>
RunTool ==
    /\ chat.at = "tools" /\ chat.calls # <<>>
    /\ \E good \in BOOLEAN :
          chat' = [chat EXCEPT !.calls = Tail(@), !.messages = @ \o ResultOf(good, Head(chat.calls))]

\* The next round, or the end of the rounds.
NextRound ==
    /\ chat.at = "tools" /\ chat.calls = <<>>
    /\ chat' = [chat EXCEPT !.round = @ + 1,
                  !.at = IF chat.round + 1 < MaxIterations THEN "model" ELSE "ended"]

ChatNext ==
    /\ ChatStarts \/ ModelStreams \/ ModelFails \/ RunTool \/ NextRound
    /\ UNCHANGED <<proc, inflight, svcDone, gauge4, socks, active, demos, asked>>

----------------------------------------------------------------------------
(* /ws/worker: one coroutine per socket; and the demo submissions, whose   *)
(* jobs live in a dict only.                                               *)

Connects(s) ==
    /\ socks[s].open = "no"
    /\ socks' = [socks EXCEPT ![s].open = "yes"]
    /\ UNCHANGED <<active, demos>>

\* register, with a valid key; a socket may register again under another id.
\* An invalid key closes the socket after worker_id was set.
WsRegister(s, w) ==
    /\ socks[s].open = "yes"
    /\ socks' = [socks EXCEPT ![s].id = w,
                   ![s].renamed = @ \/ (socks[s].id \notin {w, NoWsWorker} /\ active[socks[s].id] = s)]
    /\ active' = [active EXCEPT ![w] = s]
    /\ UNCHANGED demos

\* The end of the coroutine: disconnect, error or refusal; finally pops the
\* entry of its last worker_id, whoever's socket is in it.
WsEnds(s) ==
    /\ socks[s].open = "yes"
    /\ \E w \in {socks[s].id} \cup WsWorkers :
          /\ socks' = [socks EXCEPT ![s].open = "closed",
                         ![s].renamed = @ \/ (socks[s].id \notin {w, NoWsWorker} /\ active[socks[s].id] = s)]
          /\ active' = [v \in WsWorkers |-> IF v = w THEN NoSock ELSE active[v]]
    /\ UNCHANGED demos

\* submit_job: past the limits the depth goes up and down around the insert;
\* the handler of an exception takes it down again, also when it came from
\* what follows the insert.
DemoSubmit ==
    /\ demos.submitted < MaxDemos
    /\ \/ demos' = [demos EXCEPT !.submitted = @ + 1]     \* limit or spend cap: 402
       \/ demos' = [demos EXCEPT !.submitted = @ + 1, !.queued = @ + 1]
       \/ demos' = [demos EXCEPT !.submitted = @ + 1, !.queued = @ + 1, !.depth = @ - 1]
    /\ UNCHANGED <<socks, active>>

\* status_update ends a job of the dict.
WsStatus(s) ==
    /\ socks[s].open = "yes" /\ demos.queued > 0
    /\ demos' = [demos EXCEPT !.queued = @ - 1]
    /\ UNCHANGED <<socks, active>>

SocketNext ==
    /\ \/ DemoSubmit
       \/ \E s \in Socks : \/ Connects(s) \/ WsEnds(s) \/ WsStatus(s)
                           \/ \E w \in WsWorkers : WsRegister(s, w)
    /\ UNCHANGED <<proc, inflight, svcDone, gauge4, chat, asked>>

----------------------------------------------------------------------------
(* policy_engine.evaluate_policies.  A context is a record of the facts    *)
(* the branches look at; DEFAULT_TIERS with its numbers made small.        *)

Tiers == <<"start", "pro", "enterprise">>
Tier == [start      |-> [jobs |-> 1,  budget |-> 1,  tools |-> "read_only"],
         pro        |-> [jobs |-> 2,  budget |-> 2,  tools |-> "scoped"],
         enterprise |-> [jobs |-> -1, budget |-> -1, tools |-> "full"]]
ToolAccess == [none |-> {}, read_only |-> {"list_jobs"}, scoped |-> {"list_jobs", "submit_task"},
               full |-> {"list_jobs", "submit_task", "cancel_job"}]
OverBudget(t, cost) == Tier[t].budget > 0 /\ cost > Tier[t].budget

\* The facts that deny an action.  "good" stands for the value a branch asks
\* for: a supported network, provider or wallet type, a confirmed payment of a
\* paid invoice, a view-only Monero wallet, a tool call that brings its key.
DeniesJob(t, action, x) ==
    CASE action = "tool.call" -> x.tool \notin ToolAccess[Tier[t].tools] \/ OverBudget(t, x.cost)
      [] action = "job.submit" -> (Tier[t].jobs > 0 /\ x.count >= Tier[t].jobs) \/ OverBudget(t, x.cost)
      [] action = "job.retry" -> x.status # "failed"
      [] action = "job.cancel" -> x.status \in {"completed", "failed", "cancelled"}
      [] OTHER -> FALSE
InvoiceCap == [start |-> 1, pro |-> 2, enterprise |-> 3]
WalletCap == 3
DeniesCrypto(t, action, x) ==
    CASE action = "crypto_create_invoice" -> ~x.good \/ x.count >= InvoiceCap[t]
      [] action \in {"tool_call", "crypto_tier_activate", "crypto_webhook",
                      "monero_subaddress"} -> ~x.good
      [] action = "crypto:wallet:create" -> ~x.good \/ x.hot \/ x.count >= WalletCap
      [] action = "crypto:wallet:generate_address" -> x.status = "compromised"
      [] action = "crypto:wallet:rotate" -> x.status = "rotating"
      [] OTHER -> FALSE
PolicyActions == {"tool.call", "job.submit", "job.retry", "job.cancel", "crypto_create_invoice", "tool_call",
                  "crypto_tier_activate", "crypto_webhook", "monero_subaddress",
                  "crypto:wallet:create", "crypto:wallet:generate_address",
                  "crypto:wallet:rotate", "another"}
EvaluatePolicies(known, t, action, x) == 
    IF ~known \/ DeniesJob(t, action, x) \/ DeniesCrypto(t, action, x) THEN "denied" ELSE "allowed"

Contexts == [tool : {"list_jobs", "submit_task", "cancel_job", "other"}, cost : {0, 2, 3}, count : {0, 1, 3},
             status : {"failed", "compromised", "rotating"}, good : BOOLEAN, hot : BOOLEAN]

AskPolicy ==
    /\ asked.action = "none"
    /\ \E known \in BOOLEAN, i \in DOMAIN Tiers, a \in PolicyActions, x \in Contexts :
          asked' = [action |-> a, known |-> known, tier |-> i, context |-> x,
                    verdict |-> EvaluatePolicies(known, Tiers[i], a, x)]
AskNext == AskPolicy /\ UNCHANGED <<proc, inflight, svcDone, gauge4, chat, socks, active, demos>>

----------------------------------------------------------------------------
\* The pools are closed only when no task of the process uses them: no job
\* starts once the worker is cancelled, and the drain leaves none behind.
PoolOutlivesJobs == inflight # {} => proc.pool

\* The service gives up on its database after the budget and at most one
\* delay more, counted in sleeps.
InitIsBounded == proc.at = "init" => proc.elapsed < Timeout + MaxDelay /\ proc.delay <= MaxDelay

\* The model is asked again only when each of its tool calls has its result,
\* whatever became of the call: the API refuses a conversation without it.
ToolsAnswered ==
    chat.at = "model" =>
       \A i \in DOMAIN chat.messages :
          chat.messages[i].role = "call" =>
             \E k \in DOMAIN chat.messages : k > i /\ chat.messages[k] = Message("tool", chat.messages[i].id)

\* The registry of sockets names no closed socket but one that had registered
\* under another id before.
ActiveIsOpen ==
    \A w \in WsWorkers : active[w] # NoSock =>
       \/ socks[active[w]].open = "yes" /\ socks[active[w]].id = w
       \/ socks[active[w]].renamed

\* A higher tier is refused nothing that a lower one is granted, with -1 for
\* "no limit"; and an unknown tenant is refused everything.
TiersAreOrdered ==
    asked.action # "none" =>
       IF asked.known
       THEN asked.verdict = "allowed" =>
              \A k \in asked.tier..Len(Tiers) :
                 EvaluatePolicies(TRUE, Tiers[k], asked.action, asked.context) = "allowed"
       ELSE asked.verdict = "denied"

(* The API process (main.py:304-345, 603-653, 1101-1215, 1546-1613;        *)
(* policy_engine.py:32-273).                                               *)
ServiceInv == PoolOutlivesJobs /\ InitIsBounded /\ ToolsAnswered /\ ActiveIsOpen /\ TiersAreOrdered

=============================================================================
