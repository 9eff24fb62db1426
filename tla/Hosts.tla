-------------------------------- MODULE Hosts --------------------------------
(***************************************************************************)
(* One external GPU host in PostgreSQL (src/gpu_worker/host_registry.py    *)
(* and host_store.py), written by the server that answers the host's agent *)
(* (host_api.py, routers/hosts_agent.py, host_agent/agent.py) and by the   *)
(* operator's command line (scripts/roma_hosts_admin.py).  Every process   *)
(* loads the row, decides on its copy and writes the whole row back; only  *)
(* the statements are atomic.  Hosts do not share rows, so one is enough.  *)
(*                                                                         *)
(* A verification is a number, in the order of its creation; so is a host  *)
(* token and a job token.  0 stands for none.                              *)
(***************************************************************************)
EXTENDS Naturals, FiniteSets

CONSTANTS
    Commands,      \* command-line invocations that may run at the same time
    OwnHost,       \* own_host of the row
    MaxChecks,     \* bound: verifications
    MaxTokens,     \* bound: host tokens, and job tokens
    MaxFaults      \* bound: writes that fail and processes that die

ASSUME HostsAssumption ==
    /\ OwnHost \in BOOLEAN
    /\ MaxChecks \in Nat /\ MaxTokens \in Nat /\ MaxFaults \in Nat

VARIABLES
    hrow,       \* hosts: status and trust_tier
    checks,     \* host_verifications: passed, NULL while open
    jtoken,     \* host_job_tokens: token and used_at of each verification
    htoken,     \* host_tokens: the token whose hash is stored
    issued,     \* host tokens and job tokens made so far
    delivered,  \* host tokens that reached a file
    cli,        \* the commands: where they are and the copy they loaded
    srv,        \* the server's request, its copy of the row and of the open verification
    agent,      \* the verification and token the agent holds
    hfaults,
    judged,     \* history: how often each verification was decided
    promoted,   \* history: has the operator approved the host
    lost        \* history: host tokens whose command died before it wrote them, or
                \* could not write them after another issue had read them as the old one

hvars == <<hrow, checks, jtoken, htoken, issued, delivered, cli, srv, agent, hfaults,
           judged, promoted, lost>>

Checks == 1..MaxChecks
Tokens == 0..MaxTokens
Statuses == {"absent", "pending", "verifying", "active", "suspended"}
HostRow == [status : Statuses, tier : {"none", "probation", "verified"}]
NoHost == [status |-> "absent", tier |-> "none"]
IdleCommand == [pc |-> "idle", row |-> NoHost, prev |-> 0, tok |-> 0]
IdleServer == [pc |-> "idle", row |-> NoHost, open |-> 0]
Names == {"register", "suspend", "approve", "verify", "issue", "revoke"}

HostsTypeOK ==
    /\ hrow \in HostRow
    /\ checks \in [Checks -> {"none", "open", "passed", "failed"}]
    /\ jtoken \in [Checks -> [tok : Tokens, used : BOOLEAN]]
    /\ htoken \in Tokens
    /\ issued \in [host : Tokens, job : Tokens]
    /\ delivered \subseteq Tokens
    /\ cli \in [Commands -> [pc : Names \cup {"idle", "hash", "rotate", "write"},
                             row : HostRow, prev : Tokens, tok : Tokens]]
    /\ srv \in [pc : {"idle", "heartbeat", "fetch", "submit", "judge", "passed", "failed"},
                row : HostRow, open : 0..MaxChecks]
    /\ agent \in [check : 0..MaxChecks, tok : Tokens]
    /\ hfaults \in 0..MaxFaults
    /\ judged \in [Checks -> Nat]
    /\ promoted \in BOOLEAN
    /\ lost \subseteq Tokens

HostsInit ==
    /\ hrow = NoHost
    /\ checks = [k \in Checks |-> "none"]
    /\ jtoken = [k \in Checks |-> [tok |-> 0, used |-> FALSE]]
    /\ htoken = 0
    /\ issued = [host |-> 0, job |-> 0]
    /\ delivered = {}
    /\ cli = [c \in Commands |-> IdleCommand]
    /\ srv = IdleServer
    /\ agent = [check |-> 0, tok |-> 0]
    /\ hfaults = 0
    /\ judged = [k \in Checks |-> 0]
    /\ promoted = FALSE
    /\ lost = {}

-----------------------------------------------------------------------------
(* ALLOWED_TRANSITIONS.                                                    *)
Allowed(from) ==
    CASE from = "pending" -> {"verifying", "suspended"}
      [] from = "verifying" -> {"active", "suspended"}
      [] from = "active" -> {"suspended"}
      [] from = "suspended" -> {"verifying"}
      [] OTHER -> {}

CommandAt(c, pc) == cli[c].pc = pc
CommandEnds(c) == cli' = [cli EXCEPT ![c] = IdleCommand]

(* main: load_from_store, before the command is carried out.               *)
LoadHosts(c, name) ==
    /\ CommandAt(c, "idle")
    /\ cli' = [cli EXCEPT ![c] = [IdleCommand EXCEPT !.pc = name, !.row = hrow]]
    /\ UNCHANGED <<hrow, checks, jtoken, htoken, issued, delivered, srv, agent, hfaults,
                   judged, promoted, lost>>

(* What each command that only writes the row makes of its copy; a copy in *)
(* the wrong state is an error and writes nothing.                         *)
Written(name, row) ==
    CASE name = "register" /\ row = NoHost -> {[status |-> "pending", tier |-> "none"]}
      [] name = "suspend" /\ "suspended" \in Allowed(row.status) ->
            {[status |-> "suspended", tier |-> "none"]}
      [] name = "approve" /\ row.status = "active" -> {[row EXCEPT !.tier = "verified"]}
      [] OTHER -> {}

(* apply, suspend and promote, with save_host.                             *)
WriteRow(c) ==
    /\ cli[c].pc \in {"register", "suspend", "approve"}
    /\ LET new == Written(cli[c].pc, cli[c].row)
       IN  /\ hrow' = IF new = {} THEN hrow ELSE CHOOSE r \in new : TRUE
           /\ promoted' = (promoted \/ (cli[c].pc = "approve" /\ new # {}))
    /\ CommandEnds(c)
    /\ UNCHANGED <<checks, jtoken, htoken, issued, delivered, srv, agent, hfaults, judged, lost>>

(* start_verification, first lock section: reserve.                        *)
ReserveCheck(c) ==
    /\ CommandAt(c, "verify")
    /\ IF "verifying" \in Allowed(cli[c].row.status)
       THEN /\ hrow' = [cli[c].row EXCEPT !.status = "verifying"]
            /\ cli' = [cli EXCEPT ![c].pc = "hash"]
       ELSE CommandEnds(c) /\ UNCHANGED hrow
    /\ UNCHANGED <<checks, jtoken, htoken, issued, delivered, srv, agent, hfaults, judged,
                   promoted, lost>>

(* The reference hash is there: the verification is inserted.              *)
InsertCheck(c) ==
    /\ CommandAt(c, "hash")
    /\ \E k \in Checks :
          /\ checks[k] = "none" /\ \A i \in 1..(k - 1) : checks[i] # "none"
          /\ checks' = [checks EXCEPT ![k] = "open"]
    /\ CommandEnds(c)
    /\ UNCHANGED <<hrow, jtoken, htoken, issued, delivered, srv, agent, hfaults, judged,
                   promoted, lost>>

(* It could not be computed: the copy's previous status is written back.   *)
HashFails(c) ==
    /\ CommandAt(c, "hash") /\ hfaults < MaxFaults
    /\ hfaults' = hfaults + 1
    /\ hrow' = cli[c].row
    /\ CommandEnds(c)
    /\ UNCHANGED <<checks, jtoken, htoken, issued, delivered, srv, agent, judged, promoted, lost>>

-----------------------------------------------------------------------------
(* _issue_token_to_file: the file is created and the old hash read, the    *)
(* token rotated, the file written; a write that fails puts the old hash   *)
(* back.                                                                   *)
CreateFile(c) ==
    /\ CommandAt(c, "issue")
    /\ IF cli[c].row = NoHost THEN CommandEnds(c)
       ELSE cli' = [cli EXCEPT ![c].pc = "rotate", ![c].prev = htoken]
    /\ UNCHANGED <<hrow, checks, jtoken, htoken, issued, delivered, srv, agent, hfaults,
                   judged, promoted, lost>>

RotateToken(c) ==
    /\ CommandAt(c, "rotate") /\ issued.host < MaxTokens
    /\ issued' = [issued EXCEPT !.host = @ + 1]
    /\ htoken' = issued.host + 1
    /\ cli' = [cli EXCEPT ![c].pc = "write", ![c].tok = issued.host + 1]
    /\ UNCHANGED <<hrow, checks, jtoken, delivered, srv, agent, hfaults, judged, promoted, lost>>

WriteFile(c) ==
    /\ CommandAt(c, "write")
    /\ delivered' = delivered \cup {cli[c].tok}
    /\ CommandEnds(c)
    /\ UNCHANGED <<hrow, checks, jtoken, htoken, issued, srv, agent, hfaults, judged, promoted, lost>>

WriteFails(c) ==
    /\ CommandAt(c, "write") /\ hfaults < MaxFaults
    /\ hfaults' = hfaults + 1
    /\ htoken' = cli[c].prev
    /\ CommandEnds(c)
    /\ lost' = IF \E d \in Commands : cli[d].pc \in {"rotate", "write"} /\ cli[d].prev = cli[c].tok
               THEN lost \cup {cli[c].tok} ELSE lost
    /\ UNCHANGED <<hrow, checks, jtoken, issued, delivered, srv, agent, judged, promoted>>

RevokeToken(c) ==
    /\ CommandAt(c, "revoke")
    /\ htoken' = IF cli[c].row = NoHost THEN htoken ELSE 0
    /\ CommandEnds(c)
    /\ UNCHANGED <<hrow, checks, jtoken, issued, delivered, srv, agent, hfaults, judged, promoted, lost>>

-----------------------------------------------------------------------------
(* Faulty variant: the newest verification, decided or not.                *)
NewestCheck ==
    LET made == {k \in Checks : checks[k] # "none"}
    IN  IF made = {} THEN 0 ELSE CHOOSE k \in made : \A i \in made : i <= k

(* load_hosts: the newest verification that is still open.                 *)
OpenCheck ==
    LET open == {k \in Checks : checks[k] = "open"}
    IN  IF open = {} THEN 0 ELSE CHOOSE k \in open : \A i \in open : i <= k

(* run_once: the agent sends a heartbeat, asks for a job, and submits the  *)
(* result of the job it was given.                                         *)
RunOnce(action) == action = "submit" => agent.check # 0

(* handle: a request with any token but the stored one is refused.  The    *)
(* agent uses one it was given.                                            *)
Handle == htoken \in delivered

(* A request gets through the router, is authenticated, and the server     *)
(* refreshes its copy of the host.                                         *)
Request(action) ==
    /\ srv.pc = "idle" /\ RunOnce(action) /\ Handle
    /\ srv' = [pc |-> action, row |-> hrow,
               open |-> IF hrow.status = "verifying" THEN OpenCheck ELSE 0]
    /\ UNCHANGED <<hrow, checks, jtoken, htoken, issued, delivered, cli, agent, hfaults,
                   judged, promoted, lost>>

(* heartbeat: an active copy is written back, with a new last_heartbeat.   *)
HostHeartbeat ==
    /\ srv.pc = "heartbeat"
    /\ hrow' = IF srv.row.status = "active" THEN srv.row ELSE hrow
    /\ srv' = IdleServer
    /\ UNCHANGED <<checks, jtoken, htoken, issued, delivered, cli, agent, hfaults, judged,
                   promoted, lost>>

(* _fetch_job: a fresh job token, and the one before it is void.           *)
FetchJob ==
    /\ srv.pc = "fetch" /\ issued.job < MaxTokens
    /\ IF srv.open = 0 THEN UNCHANGED <<jtoken, issued, agent>>
       ELSE /\ issued' = [issued EXCEPT !.job = @ + 1]
            /\ jtoken' = [jtoken EXCEPT ![srv.open] = [tok |-> issued.job + 1, used |-> FALSE]]
            /\ agent' = [check |-> srv.open, tok |-> issued.job + 1]
    /\ srv' = IdleServer
    /\ UNCHANGED <<hrow, checks, htoken, delivered, cli, hfaults, judged, promoted, lost>>

(* _submit: consume_job_token, whoever presents it.  The agent may submit  *)
(* what it holds more than once.                                           *)
ConsumeToken ==
    /\ srv.pc = "submit"
    /\ LET t == jtoken[agent.check]
       IN  /\ jtoken' = [jtoken EXCEPT ![agent.check].used = TRUE]
           /\ srv' = IF ~t.used /\ t.tok = agent.tok THEN [srv EXCEPT !.pc = "judge"]
                     ELSE IdleServer
    /\ UNCHANGED <<hrow, checks, htoken, issued, delivered, cli, agent, hfaults, judged, promoted, lost>>

(* submit_verification up to finish_verification: right hash and score     *)
(* within the bounds, or not.                                              *)
Judge ==
    /\ srv.pc = "judge"
    /\ IF srv.row.status = "verifying" /\ srv.open = agent.check
       THEN /\ \E verdict \in {"passed", "failed"} :
                  /\ checks' = [checks EXCEPT ![srv.open] = IF @ = "open" THEN verdict ELSE @]
                  /\ srv' = [srv EXCEPT !.pc = verdict]
            /\ judged' = [judged EXCEPT ![srv.open] = @ + 1]
       ELSE srv' = IdleServer /\ UNCHANGED <<checks, judged>>
    /\ UNCHANGED <<hrow, jtoken, htoken, issued, delivered, cli, agent, hfaults, promoted, lost>>

(* The end of submit_verification: the row.                                *)
SaveVerdict ==
    /\ srv.pc \in {"passed", "failed"}
    /\ hrow' = IF srv.pc = "passed"
               THEN [status |-> "active", tier |-> IF OwnHost THEN "verified" ELSE "probation"]
               ELSE [status |-> "suspended", tier |-> "none"]
    /\ srv' = IdleServer
    /\ UNCHANGED <<checks, jtoken, htoken, issued, delivered, cli, agent, hfaults, judged,
                   promoted, lost>>

(* A process dies, or its next statement raises.                           *)
ProcessDies ==
    /\ hfaults < MaxFaults /\ hfaults' = hfaults + 1
    /\ \/ srv.pc # "idle" /\ srv' = IdleServer /\ UNCHANGED <<cli, lost>>
       \/ \E c \in Commands : /\ ~CommandAt(c, "idle") /\ CommandEnds(c) /\ UNCHANGED srv
                             /\ lost' = IF CommandAt(c, "write") THEN lost \cup {cli[c].tok}
                                        ELSE lost
    /\ UNCHANGED <<hrow, checks, jtoken, htoken, issued, delivered, agent, judged, promoted>>

-----------------------------------------------------------------------------
HostsNext ==
    \/ \E c \in Commands : \/ \E name \in Names : LoadHosts(c, name)
                           \/ WriteRow(c) \/ ReserveCheck(c) \/ InsertCheck(c) \/ HashFails(c)
                           \/ CreateFile(c) \/ RotateToken(c) \/ WriteFile(c) \/ WriteFails(c)
                           \/ RevokeToken(c)
    \/ \E action \in {"heartbeat", "fetch", "submit"} : Request(action)
    \/ HostHeartbeat \/ FetchJob \/ ConsumeToken \/ Judge \/ SaveVerdict \/ ProcessDies

HostsSpec == HostsInit /\ [][HostsNext]_hvars

-----------------------------------------------------------------------------
(* A host is active only after one of its verifications passed, whichever  *)
(* stale copies are written back.                                          *)
ActiveWasVerified == hrow.status = "active" => \E k \in Checks : checks[k] = "passed"

(* Only an active host is trusted, and a foreign host is fully trusted     *)
(* only if the operator approved it: there is no automatic promotion.      *)
TrustIsEarned ==
    /\ hrow.tier # "none" => hrow.status = "active"
    /\ hrow.tier = "verified" => OwnHost \/ promoted

(* A verification is decided at most once, however often its token is      *)
(* fetched anew or its result submitted, a death in between included.      *)
JudgedOnce == \A k \in Checks : judged[k] <= 1

(* The stored host token is one a file holds, unless the command that is   *)
(* to write it is still running or died in the middle: an issue whose      *)
(* write fails does not lock the host out.  Two issues that overlap and    *)
(* both fail can: the second puts back the token the first never wrote.    *)
TokenDelivered ==
    \/ htoken \in delivered \cup lost \cup {0}
    \/ \E c \in Commands : cli[c].pc = "write" /\ cli[c].tok = htoken

(* What stale copies, repeated requests and failed writes do not break.    *)
HostsInv == ActiveWasVerified /\ TrustIsEarned /\ JudgedOnce /\ TokenDelivered
=============================================================================
