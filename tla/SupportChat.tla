----------------------------- MODULE SupportChat -----------------------------
(***************************************************************************)
(* The support desk: one ticket of a tenant, the customer who writes on    *)
(* it, the agents who claim and move it (support_chat/service.py,          *)
(* router.py), and the identities, credentials and sessions the agents     *)
(* act with (identity.py, identity_admin.py).                              *)
(*                                                                         *)
(* Every database call runs in a worker thread: a handler reads, decides   *)
(* and writes while others run, and posts to the chat, which lives in      *)
(* memory, after its transaction.  A person has one request at a time.     *)
(***************************************************************************)
EXTENDS Naturals

CONSTANTS
    Agents,         \* support identities
    InScope,        \* those with a membership of the ticket's tenant
    Customer,       \* the tenant's key: creates, replies, rates
    Nobody,         \* the ticket has no agent
    MaxCuts,        \* bound: interventions of the operator
    MaxTurns        \* bound: writes to the ticket

ASSUME SupportScope ==
    /\ InScope \subseteq Agents /\ Customer \notin Agents /\ Nobody \notin Agents
    /\ MaxCuts \in Nat /\ MaxTurns \in Nat

VARIABLES
    ticket,     \* the support_tickets row
    identity,   \* support_identities row and its credential
    sess,       \* the support_sessions row of each agent's cookie
    hand,       \* the request each person has under way
    turns,      \* writes to the ticket so far
    cut,        \* agents whose sessions were all revoked since they logged in
    cuts        \* interventions of the operator so far

scvars == <<ticket, identity, sess, hand, turns, cut, cuts>>

TicketStatus == {"open", "in_progress", "waiting_customer", "resolved", "closed"}
Persons == Agents \cup {Customer}
Doing == {"idle", "login", "authenticated", "assign", "move", "reply"}
Resting == [pc |-> "idle", saw |-> "none", to |-> "none", version |-> 0]

SupportTypeOK ==
    /\ ticket \in [status : TicketStatus \cup {"none"}, agent : Agents \cup {Nobody}]
    /\ identity \in [Agents -> [active : BOOLEAN, version : 1..(MaxCuts + 1),
                                credential : BOOLEAN]]
    /\ sess \in [Agents -> [live : BOOLEAN, version : 0..(MaxCuts + 1)]]
    /\ hand \in [Persons -> [pc : Doing, saw : TicketStatus \cup {"none"},
                             to : TicketStatus \cup {"none"}, version : 0..(MaxCuts + 1)]]
    /\ turns \in 0..MaxTurns /\ cut \subseteq Agents
    /\ cuts \in 0..MaxCuts

SupportInit ==
    /\ ticket = [status |-> "none", agent |-> Nobody]
    /\ identity = [a \in Agents |-> [active |-> TRUE, version |-> 1, credential |-> TRUE]]
    /\ sess = [a \in Agents |-> [live |-> FALSE, version |-> 0]]
    /\ hand = [p \in Persons |-> Resting]
    /\ turns = 0 /\ cut = {} /\ cuts = 0

ValidStatusTransitions == [s \in TicketStatus |->
    CASE s = "open" -> {"in_progress", "closed"}
      [] s = "in_progress" -> {"waiting_customer", "resolved", "closed"}
      [] s = "waiting_customer" -> {"in_progress", "closed"}
      [] s = "resolved" -> {"closed", "open"}
      [] s = "closed" -> {"open"}]

At(p, pc) == hand[p].pc = pc
Rests(p) == hand' = [hand EXCEPT ![p] = Resting]
Turn == turns < MaxTurns /\ turns' = turns + 1

-----------------------------------------------------------------------------
(* The customer.                                                           *)

CreateTicket ==
    /\ At(Customer, "idle") /\ ticket.status = "none" /\ Turn
    /\ ticket' = [ticket EXCEPT !.status = "open"]
    /\ UNCHANGED <<identity, sess, hand, cut, cuts>>

ReplyReads ==
    /\ At(Customer, "idle") /\ ticket.status # "none"
    /\ hand' = [hand EXCEPT ![Customer].pc = "reply", ![Customer].saw = ticket.status]
    /\ UNCHANGED <<ticket, identity, sess, turns, cut, cuts>>

\* The UPDATE names the ticket only: what it read may have changed since.
ReplyWrites ==
    /\ At(Customer, "reply") /\ Turn
    /\ ticket' = [ticket EXCEPT !.status =
                     IF hand[Customer].saw = "waiting_customer" THEN "in_progress" ELSE @]
    /\ Rests(Customer)
    /\ UNCHANGED <<identity, sess, cut, cuts>>

-----------------------------------------------------------------------------
(* Agents: login, the gate, self-claim, transition, logout.                *)

LoginReads(a) ==
    /\ At(a, "idle") /\ identity[a].active /\ identity[a].credential
    /\ hand' = [hand EXCEPT ![a] = [Resting EXCEPT !.pc = "login",
                                          !.version = identity[a].version]]
    /\ cut' = cut \ {a}
    /\ UNCHANGED <<ticket, identity, sess, turns, cuts>>

\* The session row carries the version the login read, however old it is.
LoginInserts(a) ==
    /\ At(a, "login")
    /\ sess' = [sess EXCEPT ![a] = [live |-> TRUE, version |-> hand[a].version]]
    /\ Rests(a) /\ UNCHANGED <<ticket, identity, turns, cut, cuts>>

\* _authenticate_session_sync: neither revoked nor expired, the identity is
\* active and its version is the session's.
SessionStands(a) == sess[a].live /\ identity[a].active
SessionValid(a) == SessionStands(a) /\ sess[a].version = identity[a].version

\* The gate: session, Origin, CSRF; the principal is used from here on.
Gated(a) ==
    /\ At(a, "idle") /\ SessionValid(a)
    /\ hand' = [hand EXCEPT ![a].pc = "authenticated"]
    /\ UNCHANGED <<ticket, identity, sess, turns, cut, cuts>>

\* Read of the ticket, scope check and, for a transition, the assignee check;
\* a ticket that fails one is not found and the request ends.
AssignReads(a) ==
    /\ At(a, "authenticated")
    /\ LET s == ticket.status
       IN  IF /\ a \in InScope /\ s # "none"
              /\ s = "in_progress" \/ "in_progress" \in ValidStatusTransitions[s]
           THEN hand' = [hand EXCEPT ![a].pc = "assign", ![a].saw = s]
           ELSE Rests(a)
    /\ UNCHANGED <<ticket, identity, sess, turns, cut, cuts>>

TransitionReads(a, new) ==
    /\ At(a, "authenticated")
    /\ LET s == ticket.status
       IN  IF /\ a \in InScope /\ s # "none" /\ ticket.agent = a
              /\ new \in ValidStatusTransitions[s]
           THEN hand' = [hand EXCEPT ![a].pc = "move", ![a].saw = s, ![a].to = new]
           ELSE Rests(a)
    /\ UNCHANGED <<ticket, identity, sess, turns, cut, cuts>>

\* The UPDATE repeats the status that was read: otherwise 409.
AssignWrites(a) ==
    /\ At(a, "assign") /\ Turn
    /\ IF ticket.status = hand[a].saw
       THEN ticket' = [status |-> "in_progress", agent |-> a]
       ELSE ticket' = ticket
    /\ Rests(a)
    /\ UNCHANGED <<identity, sess, cut, cuts>>

\* ... and for a transition the assignee as well.
MatchesStatus(a) == ticket.status = hand[a].saw
TransitionMatches(a) == ticket.status = hand[a].saw /\ ticket.agent = a

TransitionWrites(a) ==
    /\ At(a, "move") /\ Turn
    /\ IF TransitionMatches(a)
       THEN ticket' = [ticket EXCEPT !.status = hand[a].to]
       ELSE ticket' = ticket
    /\ Rests(a)
    /\ UNCHANGED <<identity, sess, cut, cuts>>

\* Logout behind the same gate, or the hour is over: only this session ends.
SessionOver(a) ==
    /\ sess[a].live /\ sess' = [sess EXCEPT ![a].live = FALSE]
    /\ UNCHANGED <<ticket, identity, hand, turns, cut, cuts>>

-----------------------------------------------------------------------------
(* The operator, offline: identity_admin.py.                               *)

Intervention == cuts < MaxCuts /\ cuts' = cuts + 1

RevokeCredential(a) ==
    /\ Intervention /\ identity[a].credential
    /\ identity' = [identity EXCEPT ![a].credential = FALSE]
    /\ UNCHANGED <<ticket, sess, hand, turns, cut>>

RevokedRows(a) == sess' = [sess EXCEPT ![a].live = FALSE]

Bumped(a) == [identity EXCEPT ![a].version = @ + 1]

RevokeSessions(a) ==
    /\ Intervention
    /\ identity' = Bumped(a) /\ RevokedRows(a) /\ cut' = cut \cup {a}
    /\ UNCHANGED <<ticket, hand, turns>>

DeactivateIdentity(a) ==
    /\ Intervention /\ identity[a].active
    /\ identity' = [Bumped(a) EXCEPT ![a].active = FALSE]
    /\ RevokedRows(a) /\ cut' = cut \cup {a}
    /\ UNCHANGED <<ticket, hand, turns>>

\* The process restarts: the requests are gone, the rows stay.
ChatRestarts ==
    /\ \E p \in Persons : ~At(p, "idle")
    /\ hand' = [p \in Persons |-> Resting]
    /\ UNCHANGED <<ticket, identity, sess, turns, cut, cuts>>

SupportNext ==
    \/ CreateTicket \/ ReplyReads \/ ReplyWrites \/ ChatRestarts
    \/ \E a \in Agents :
         \/ LoginReads(a) \/ LoginInserts(a) \/ Gated(a) \/ SessionOver(a)
         \/ AssignReads(a) \/ AssignWrites(a) \/ TransitionWrites(a)
         \/ \E new \in TicketStatus : TransitionReads(a, new)
         \/ RevokeCredential(a) \/ RevokeSessions(a) \/ DeactivateIdentity(a)

-----------------------------------------------------------------------------
\* When an operator has revoked the sessions of an agent, none of them opens
\* the gate again, not even one a login under way inserts afterwards
\* (session_version, _authenticate_session_sync).
NoSessionSurvivesRevocation == \A a \in cut : ~SessionValid(a)

\* Whatever agents race for the ticket, its status moves along
\* VALID_STATUS_TRANSITIONS and by the hand of its assignee only; a customer's
\* reply is the one write that does not look again.
AgentsMoveLegally ==
    LET moved == ticket.status # "none" /\ ticket'.status # ticket.status
        byReply == ticket'.status = "in_progress" /\ At(Customer, "reply")
    IN  moved => \/ byReply
                 \/ /\ ticket'.status \in ValidStatusTransitions[ticket.status]
                    /\ \E a \in InScope : ticket'.agent = a /\ hand'[a] # hand[a]
AgentsMoveLegallyAlways == [][AgentsMoveLegally]_scvars
=============================================================================
