----------------------------- MODULE Onboarding -----------------------------
(***************************************************************************)
(* How customers come in: the beta form (routers/beta.py), the invitation  *)
(* campaign (scripts/send_invitations.py with saas/email), and the tenant  *)
(* file of the command line with its onboarding checks (saas/tenants).     *)
(***************************************************************************)
EXTENDS Naturals, FiniteSets

CONSTANTS
    Leads,          \* addresses that apply for the beta
    Senders,        \* runs of the campaign; a run in DryRuns sends nothing
    DryRuns,
    MaxRetries3,    \* MAX_RETRIES of a mail
    MaxCampaigns,   \* bound: campaigns of one sender
    MaxMailFaults,  \* bound: answers of the provider, rows or processes that are lost
    Shells,         \* command lines that work on tenants.json
    Slugs,          \* tenants they work on
    BadSlugs        \* those whose slug, address or revenue share is not valid

ASSUME OnboardingBounds ==
    /\ IsFiniteSet(Senders) /\ DryRuns \subseteq Senders /\ BadSlugs \subseteq Slugs
    /\ {MaxRetries3, MaxCampaigns, MaxMailFaults} \subseteq Nat

VARIABLES
    lead,       \* row of each lead: absent, new or invited
    codes,      \* single-use invite codes created, per lead
    mails,      \* mails that reached each lead
    sender,     \* pc, the leads loaded, the lead at hand, attempts made
    campaigns, mailFaults,
    tenants,    \* tenants.json: the status of each tenant
    shell,      \* command, slug and file content each shell has read
    ordered,    \* status the last finished command gave each tenant
    overlapped  \* two commands were in progress at once

lvars == <<lead, codes, mails, sender, campaigns, mailFaults>>
tvars == <<tenants, shell, ordered, overlapped>>

TenantFile == [Slugs -> {"none", "active", "suspended"}]
AtRest == [pc |-> "idle", todo |-> {}, at |-> "none", tries |-> 0]
NoOrder == [pc |-> "idle", slug |-> "none", op |-> "none", seen |-> [s \in Slugs |-> "none"]]

OnboardingTypeOK ==
    /\ lead \in [Leads -> {"absent", "new", "invited"}]
    /\ codes \in [Leads -> Nat] /\ mails \in [Leads -> Nat]
    /\ \A s \in Senders : /\ sender[s].pc \in {"idle", "pick", "send", "write"}
                          /\ sender[s].todo \subseteq Leads
                          /\ sender[s].tries \in 0..MaxRetries3
    /\ campaigns \in [Senders -> 0..MaxCampaigns] /\ mailFaults \in 0..MaxMailFaults
    /\ tenants \in TenantFile /\ ordered \in TenantFile /\ overlapped \in BOOLEAN
    /\ \A p \in Shells : shell[p].pc \in {"idle", "read"} /\ shell[p].seen \in TenantFile

OnboardingInit ==
    /\ lead = [l \in Leads |-> "absent"]
    /\ codes = [l \in Leads |-> 0] /\ mails = [l \in Leads |-> 0]
    /\ sender = [s \in Senders |-> AtRest]
    /\ campaigns = [s \in Senders |-> 0] /\ mailFaults = 0
    /\ tenants = [s \in Slugs |-> "none"] /\ ordered = tenants
    /\ shell = [p \in Shells |-> NoOrder] /\ overlapped = FALSE

MailFault == mailFaults < MaxMailFaults /\ mailFaults' = mailFaults + 1

-----------------------------------------------------------------------------
(* The campaign                                                            *)

\* beta_apply and add_lead.
Apply4Beta(l) ==
    /\ lead[l] = "absent" /\ lead' = [lead EXCEPT ![l] = "new"]
    /\ UNCHANGED <<codes, mails, sender, campaigns, mailFaults>>

LoadLeads(s) ==
    /\ sender[s].pc = "idle" /\ campaigns[s] < MaxCampaigns
    /\ campaigns' = [campaigns EXCEPT ![s] = @ + 1]
    /\ sender' = [sender EXCEPT ![s] = [AtRest EXCEPT !.pc = "pick",
                                        !.todo = {l \in Leads : lead[l] = "new"}]]
    /\ UNCHANGED <<lead, codes, mails, mailFaults>>

\* The next lead and a code of its own; a dry run spends no code.
PickLead(s, l) ==
    /\ sender[s].pc = "pick" /\ l \in sender[s].todo
    /\ codes' = IF s \in DryRuns THEN codes ELSE [codes EXCEPT ![l] = @ + 1]
    /\ sender' = [sender EXCEPT ![s] = [pc |-> IF s \in DryRuns THEN "write" ELSE "send",
                                        todo |-> @.todo \ {l}, at |-> l, tries |-> 0]]
    /\ UNCHANGED <<lead, mails, campaigns, mailFaults>>

\* One attempt: accepted, refused, or accepted with the answer lost.
SendAccepted(s) ==
    /\ sender[s].pc = "send"
    /\ mails' = [mails EXCEPT ![sender[s].at] = @ + 1]
    /\ sender' = [sender EXCEPT ![s].pc = "write"]
    /\ UNCHANGED <<lead, codes, campaigns, mailFaults>>
GivesUpMarked(s) == [sender EXCEPT ![s].pc = "write"]
GivesUp(s) == [sender EXCEPT ![s].pc = "pick"]      \* log_email_failed
SendFails(s) ==
    /\ sender[s].pc = "send" /\ MailFault
    /\ \E arrived \in {0, 1} : mails' = [mails EXCEPT ![sender[s].at] = @ + arrived]
    /\ sender' = IF sender[s].tries + 1 < MaxRetries3
                 THEN [sender EXCEPT ![s].tries = @ + 1] ELSE GivesUp(s)
    /\ UNCHANGED <<lead, codes, campaigns>>

\* log_email_sent and update_lead_status; an error leaves the lead new.
MarkInvited(s) ==
    /\ sender[s].pc = "write"
    /\ \/ lead' = [lead EXCEPT ![sender[s].at] = "invited"] /\ UNCHANGED mailFaults
       \/ UNCHANGED lead /\ MailFault
    /\ sender' = [sender EXCEPT ![s].pc = "pick"]
    /\ UNCHANGED <<codes, mails, campaigns>>
CampaignEnds(s) ==
    /\ sender[s].pc # "idle"
    /\ IF sender[s].pc = "pick" /\ sender[s].todo = {} THEN UNCHANGED mailFaults ELSE MailFault
    /\ sender' = [sender EXCEPT ![s] = AtRest]
    /\ UNCHANGED <<lead, codes, mails, campaigns>>

CampaignNext ==
    /\ \/ \E l \in Leads : Apply4Beta(l)
       \/ \E s \in Senders : \/ LoadLeads(s) \/ SendAccepted(s) \/ SendFails(s)
                             \/ MarkInvited(s) \/ CampaignEnds(s)
                             \/ \E l \in Leads : PickLead(s, l)
    /\ UNCHANGED tvars

-----------------------------------------------------------------------------
(* tenants.json                                                            *)

\* create_tenant checks slug, address and revenue share before the file.
Valid(slug) == slug \notin BadSlugs

\* A command reads the whole file ...
CommandReads(p, op, slug) ==
    /\ shell[p].pc = "idle" /\ (op = "create" => Valid(slug))
    /\ shell' = [shell EXCEPT ![p] = [pc |-> "read", slug |-> slug, op |-> op, seen |-> tenants]]
    /\ overlapped' = (overlapped \/ \E q \in Shells \ {p} : shell[q].pc = "read")
    /\ UNCHANGED <<tenants, ordered>>

\* ... and writes the whole file; suspend and activate refuse a tenant it
\* does not hold.
StatusOf(op) == IF op = "suspend" THEN "suspended" ELSE "active"
SavedFile(p) == [shell[p].seen EXCEPT ![shell[p].slug] = StatusOf(shell[p].op)]
CommandWrites(p) ==
    /\ shell[p].pc = "read"
    /\ IF shell[p].op = "create" \/ shell[p].seen[shell[p].slug] # "none"
       THEN /\ tenants' = SavedFile(p)
            /\ ordered' = [ordered EXCEPT ![shell[p].slug] = StatusOf(shell[p].op)]
       ELSE UNCHANGED <<tenants, ordered>>
    /\ shell' = [shell EXCEPT ![p] = NoOrder]
    /\ UNCHANGED overlapped

TenantsNext ==
    /\ \E p \in Shells : \/ CommandWrites(p)
                         \/ \E op \in {"create", "suspend", "activate"}, s \in Slugs :
                                CommandReads(p, op, s)
    /\ UNCHANGED lvars

-----------------------------------------------------------------------------
\* A lead that counts as invited was mailed an invitation, as long as no dry
\* run has marked it (the dry run writes the same rows).
InvitedWasMailed ==
    (\A s \in DryRuns : campaigns[s] = 0) =>
        \A l \in Leads : lead[l] = "invited" => mails[l] > 0 /\ codes[l] > 0

\* A lead gets one mail; another one costs a lost answer, a lost row, a run
\* that died or a second campaign at the same time.
MailedOnce ==
    Cardinality({s \in Senders \ DryRuns : campaigns[s] > 0}) <= 1 =>
        \A l \in Leads : mails[l] <= 1 + mailFaults

\* Commands that do not overlap never lose a tenant or the status an earlier
\* command gave it, and no sequence of commands lets an invalid one in.
NoTenantLost ==
    /\ ~overlapped => tenants = ordered
    /\ \A s \in BadSlugs : tenants[s] = "none"

OnboardingInv == InvitedWasMailed /\ MailedOnce /\ NoTenantLost
=============================================================================
