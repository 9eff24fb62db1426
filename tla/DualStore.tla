------------------------------ MODULE DualStore ------------------------------
(***************************************************************************)
(* db_adapter answers every storage call from PostgreSQL when PG_DSN is    *)
(* set and from SQLite otherwise.  Here both stores live side by side and  *)
(* receive the same calls: Lite... is what db.py does, Pg... what          *)
(* db_pg_sync.py does, and the properties say how far they agree.  A call  *)
(* is one transaction in either store.                                     *)
(***************************************************************************)
EXTENDS Integers, Sequences, FiniteSets, FiniteSetsExt, SequencesExt

CONSTANTS STenants, SUsers, SKeys, NoKeyHash, SInvoices, Boxes, SWorkers,
          PageSize,          \* the limit a reader pages with
          MaxStoreCalls

ASSUME DualStoreAssumption ==
    /\ NoKeyHash \notin SKeys /\ PageSize \in Nat \ {0}
    /\ STenants # {} /\ SKeys # {}     \* whose rows the program finds

VARIABLES lite, pg,    \* the two stores
          storeCalls,
          reader       \* a client paging through the events, newest first

dsvars == <<lite, pg, storeCalls, reader>>

Absent == [there |-> FALSE, hash |-> NoKeyHash, plain |-> FALSE,
           status |-> "inactive", plan |-> "free", customer |-> ""]

NoAccount == [there |-> FALSE, tenant |-> CHOOSE t \in STenants : TRUE, hash |-> NoKeyHash,
           token |-> "none", verified |-> FALSE]

Empty == [tenants |-> [t \in STenants |-> Absent], users |-> [u \in SUsers |-> NoAccount],
          invoices |-> [i \in SInvoices |-> "none"], leads |-> <<>>, mails |-> <<>>,
          events |-> <<>>, ratings |-> <<>>, workers |-> [w \in SWorkers |-> "none"]]

AtRestReader == [pc |-> "idle", offset |-> 0, begun |-> {}, seen |-> {}]

StoreOK(s) ==
    /\ DOMAIN s = DOMAIN Empty
    /\ s.tenants \in [STenants -> [there : BOOLEAN, hash : SKeys \cup {NoKeyHash}, plain : BOOLEAN,
                                   status : {"inactive", "active", "canceled"}, plan : {"free", "pro"},
                                   customer : {"", "invoice"}]]
    /\ s.users \in [SUsers -> [there : BOOLEAN, tenant : STenants, hash : SKeys \cup {NoKeyHash},
                               token : {"none", "live", "expired"}, verified : BOOLEAN]]
    /\ s.workers \in [SWorkers -> {"none", "idle", "drained"}]

DualStoreTypeOK ==
    /\ StoreOK(lite) /\ StoreOK(pg)
    /\ storeCalls \in 0..MaxStoreCalls
    /\ reader.pc \in {"idle", "paging", "done"}

\* Rows written before keys were hashed still carry them in plaintext, some
\* with the hash beside it.
DualStoreInit ==
    /\ \E hashed \in BOOLEAN :
          LET old == CHOOSE t \in STenants : TRUE
              row == [Absent EXCEPT !.there = TRUE, !.plain = TRUE,
                                    !.hash = IF hashed THEN CHOOSE k \in SKeys : TRUE ELSE NoKeyHash]
          IN /\ lite = [Empty EXCEPT !.tenants[old] = row]
             /\ pg = [Empty EXCEPT !.tenants[old] = row]
    /\ storeCalls = 0 /\ reader = AtRestReader

Called(newLite, newPg) ==
    /\ storeCalls < MaxStoreCalls
    /\ storeCalls' = storeCalls + 1
    /\ lite' = newLite /\ pg' = newPg
    /\ UNCHANGED reader

-----------------------------------------------------------------------------
(* Tenants, subscriptions and invoices *)

\* init_db of SQLite visits every row with a plaintext key: it fills the hash
\* where it is missing and clears the plaintext everywhere.
Digested(row) ==
    IF row.plain
    THEN [row EXCEPT !.plain = FALSE, !.hash = IF @ = NoKeyHash THEN CHOOSE k \in SKeys : TRUE ELSE @]
    ELSE row

InitDb == Called([lite EXCEPT !.tenants = [t \in STenants |-> Digested(lite.tenants[t])]], pg)

\* seed_tenants: INSERT OR IGNORE, ON CONFLICT DO NOTHING.
Seeded(s, t, k) ==
    IF s.tenants[t].there THEN s
    ELSE [s EXCEPT !.tenants[t] = [Absent EXCEPT !.there = TRUE, !.hash = k]]

SeedTenants(t, k) == Called(Seeded(lite, t, k), Seeded(pg, t, k))

\* update_tenant_subscription of SQLite leaves alone what is not given.
LiteSubscribes(s, t, customer, status, plan) ==
    IF ~s.tenants[t].there THEN s
    ELSE [s EXCEPT !.tenants[t].status = status, !.tenants[t].plan = plan,
                   !.tenants[t].customer = IF customer = "" THEN @ ELSE customer]

\* PostgreSQL's writes every column it was given, the empty ones too.
PgSubscribes(s, t, customer, status, plan) ==
    IF ~s.tenants[t].there THEN s
    ELSE [s EXCEPT !.tenants[t].status = status, !.tenants[t].plan = plan,
                   !.tenants[t].customer = customer]

\* The three calls the program makes: a payment, the free plan, a cancellation.
UpdateTenantSubscription(t, call) ==
    LET c == CASE call = "paid"     -> <<"invoice", "active", "pro">>
               [] call = "free"     -> <<"", "active", "free">>
               [] call = "canceled" -> <<"", "canceled", "free">>
    IN Called(LiteSubscribes(lite, t, c[1], c[2], c[3]), PgSubscribes(pg, t, c[1], c[2], c[3]))

SetTenantInactive(t) ==
    Called(IF lite.tenants[t].there THEN [lite EXCEPT !.tenants[t].status = "inactive"] ELSE lite,
           IF pg.tenants[t].there THEN [pg EXCEPT !.tenants[t].status = "inactive"] ELSE pg)

\* mark_invoice_processed: the first mark stands.
Marked(s, i, t) == IF s.invoices[i] = "none" THEN [s EXCEPT !.invoices[i] = t] ELSE s

MarkInvoiceProcessed(i, t) == Called(Marked(lite, i, t), [pg EXCEPT !.invoices[i] = IF @ = "none" THEN t ELSE @])

MoneyCalls ==
    \/ InitDb
    \/ \E t \in STenants :
          \/ \E k \in SKeys : SeedTenants(t, k)
          \/ \E call \in {"paid", "free", "canceled"} : UpdateTenantSubscription(t, call)
          \/ SetTenantInactive(t)
          \/ \E i \in SInvoices : MarkInvoiceProcessed(i, t)

-----------------------------------------------------------------------------
(* Users, keys and verification tokens *)

\* upsert_oauth_user: a known user keeps tenant and key.  SQLite checks the
\* foreign key; its callers seed the tenant first, with the same key.
Signed(s, u, t, k) ==
    IF s.users[u].there THEN s
    ELSE LET seeded == Seeded(s, t, k)
         IN [seeded EXCEPT !.users[u] = [NoAccount EXCEPT !.there = TRUE, !.tenant = t, !.hash = k]]

\* A sign-up mints a tenant and a key of its own.
UpsertOauthUser(u, t, k) ==
    /\ ~pg.tenants[t].there \/ pg.users[u].there
    /\ \A v \in SUsers : pg.users[v].there => pg.users[v].hash # k
    /\ Called(Signed(lite, u, t, k), Signed(pg, u, t, k))

\* rotate_user_api_key: both rows change or neither does.
Rotated(s, u, t, k) ==
    IF s.users[u].there /\ s.tenants[t].there
    THEN [s EXCEPT !.users[u].hash = k, !.tenants[t].hash = k] ELSE s

RotateUserApiKey(u, t, k) ==
    /\ pg.users[u].there => pg.users[u].tenant = t
    /\ Called(Rotated(lite, u, t, k), Rotated(pg, u, t, k))

\* Tokens are stored, replaced and marked verified by PostgreSQL only: the
\* adapter's SQLite branch of these calls is empty.
SetVerificationToken(u) ==
    Called(lite, IF pg.users[u].there THEN [pg EXCEPT !.users[u].token = "live"] ELSE pg)

MarkEmailVerified(u) ==
    Called(lite, IF pg.users[u].there
                 THEN [pg EXCEPT !.users[u].verified = TRUE, !.users[u].token = "none"] ELSE pg)

\* consume_verification_token: single use and expiry are conditions of the
\* statement that verifies.
Consumed(s, u) ==
    IF s.users[u].token = "live" /\ ~s.users[u].verified
    THEN [s EXCEPT !.users[u].verified = TRUE, !.users[u].token = "none"] ELSE s

ConsumeVerificationToken(u) == Called(Consumed(lite, u), Consumed(pg, u))

\* restore_verification_token gives a consumed token back.
RestoreVerificationToken(u) ==
    /\ pg.users[u].verified
    /\ Called(lite, [pg EXCEPT !.users[u].verified = FALSE, !.users[u].token = "live"])

TokenExpires(u) ==
    /\ pg.users[u].token = "live"
    /\ pg' = [pg EXCEPT !.users[u].token = "expired"]
    /\ UNCHANGED <<lite, storeCalls, reader>>

UserCalls ==
    \E u \in SUsers :
        \/ \E t \in STenants, k \in SKeys : UpsertOauthUser(u, t, k) \/ RotateUserApiKey(u, t, k)
        \/ SetVerificationToken(u) \/ MarkEmailVerified(u)
        \/ ConsumeVerificationToken(u) \/ RestoreVerificationToken(u) \/ TokenExpires(u)

-----------------------------------------------------------------------------
(* Leads, e-mail, feedback, workers *)

LeadAdded(s) == [s EXCEPT !.leads = Append(@, "new")]

AddLead == Called(LeadAdded(lite), LeadAdded(pg))

UpdateLeadStatus(n, status) ==
    Called(IF n \in DOMAIN lite.leads THEN [lite EXCEPT !.leads[n] = status] ELSE lite,
           IF n \in DOMAIN pg.leads THEN [pg EXCEPT !.leads[n] = status] ELSE pg)

\* log_email_sent and log_email_failed.
Mailed(s, b, status) == [s EXCEPT !.mails = Append(@, [to |-> b, status |-> status, stamps |-> {}])]

LogEmail(b, status) == Called(Mailed(lite, b, status), Mailed(pg, b, status))

\* POST /admin/invite writes to every new lead.  A dry run logs the mail as
\* sent and leaves the lead new; a lead is invited once its mail went out.
\* accepted says of which leads the provider took the mail; the leads come in
\* one order, whichever store lists them.
Invited(s, b, dry, accepted) ==
    LET new == {n \in DOMAIN s.leads : s.leads[n] = "new"}
        mail(n) == [to |-> b, status |-> IF dry \/ n \in accepted THEN "sent" ELSE "failed", stamps |-> {}]
    IN [s EXCEPT !.mails = @ \o [k \in 1..Cardinality(new) |-> mail(SetToSeq(new)[k])],
                 !.leads = [n \in DOMAIN @ |-> IF @[n] = "new" /\ ~dry /\ n \in accepted THEN "invited" ELSE @[n]]]

AdminInvite(b, dry, accepted) ==
    Called(Invited(lite, b, dry, accepted), Invited(pg, b, dry, accepted))

Participle == [open |-> "opened", click |-> "clicked"]

\* SQLite stamps the first event of a kind; an opening and a click replace the
\* status, a bounce always does.
LiteEvent(row, ev) ==
    CASE ev \in {"open", "click"} -> IF ev \in row.stamps THEN row
                                     ELSE [row EXCEPT !.stamps = @ \cup {ev}, !.status = Participle[ev]]
      [] ev = "delivered"         -> [row EXCEPT !.stamps = @ \cup {ev}]
      [] ev = "bounce"            -> [row EXCEPT !.status = "bounced"]

\* PostgreSQL writes the name of the first event of a mail and no other.
PgEvent(row, ev) == IF row.status = "sent" THEN [row EXCEPT !.status = ev] ELSE row

UpdateEmailEvent(b, ev) ==
    Called([lite EXCEPT !.mails = [n \in DOMAIN @ |-> IF @[n].to = b THEN LiteEvent(@[n], ev) ELSE @[n]]],
           [pg EXCEPT !.mails = [n \in DOMAIN @ |-> IF @[n].to = b THEN PgEvent(@[n], ev) ELSE @[n]]])

\* save_feedback; the endpoint refuses ratings outside 1..5.
Rated(s, r) == [s EXCEPT !.ratings = Append(@, r)]

SaveFeedback(r) == Called(Rated(lite, r), Rated(pg, r))

\* SQLite has no workers: registration, heartbeat and release do nothing.
RegisterWorker(w) ==
    Called(lite, [pg EXCEPT !.workers[w] = IF @ = "none" THEN "idle" ELSE @])

\* drain_worker; on SQLite it raises for want of the table.  The flag outlives
\* the registrations and the releases that follow.
DrainWorker(w) == Called(lite, IF pg.workers[w] = "none" THEN pg ELSE [pg EXCEPT !.workers[w] = "drained"])

OfficeCalls ==
    \/ AddLead
    \/ \E n \in 1..2, st \in {"contacted", "lost"} : UpdateLeadStatus(n, st)
    \/ \E b \in Boxes : \E st \in {"sent", "failed"} : LogEmail(b, st)
    \/ \E b \in Boxes, dry \in BOOLEAN, accepted \in SUBSET (1..2) : AdminInvite(b, dry, accepted)
    \/ \E b \in Boxes, ev \in {"open", "click", "delivered", "bounce"} : UpdateEmailEvent(b, ev)
    \/ \E r \in {1, 5} : SaveFeedback(r)
    \/ \E w \in SWorkers : RegisterWorker(w) \/ DrainWorker(w)

-----------------------------------------------------------------------------
(* The event log and its pages *)

Logged(s, t, kind) == [s EXCEPT !.events = Append(@, [tenant |-> t, kind |-> kind])]

LogUserEvent(t, kind) == Called(Logged(lite, t, kind), Logged(pg, t, kind))

\* get_analytics_events: the numbers of the rows of a page, newest first.
PageAt(s, offset) == {n \in DOMAIN s.events : Len(s.events) - n \in offset..(offset + PageSize - 1)}

OpenEvents ==
    /\ reader.pc = "idle"
    /\ reader' = [pc |-> "paging", offset |-> 0, begun |-> DOMAIN pg.events, seen |-> {}]
    /\ UNCHANGED <<lite, pg, storeCalls>>

ReadPage ==
    /\ reader.pc = "paging"
    /\ LET page == PageAt(pg, reader.offset)
       IN reader' = [reader EXCEPT !.offset = @ + PageSize, !.seen = @ \cup page,
                                   !.pc = IF Cardinality(page) < PageSize THEN "done" ELSE "paging"]
    /\ UNCHANGED <<lite, pg, storeCalls>>

CloseEvents == reader.pc = "done" /\ reader' = AtRestReader /\ UNCHANGED <<lite, pg, storeCalls>>

EventCalls ==
    \/ \E t \in STenants, kind \in {"login", "job_submit"} : LogUserEvent(t, kind)
    \/ OpenEvents \/ ReadPage \/ CloseEvents

DualStoreNext == MoneyCalls \/ UserCalls \/ OfficeCalls \/ EventCalls

-----------------------------------------------------------------------------
(* What the reading calls answer *)

TenantsWith(s, kind) == {e.tenant : e \in {d \in Range(s.events) : d.kind = kind}}
CountOf(rows, Test(_)) == Cardinality({n \in DOMAIN rows : Test(rows[n])})

\* get_analytics_overview of SQLite: tenants with an event, the funnel from
\* login to submission, jobs (submissions, here: the other kinds of job event
\* are counted alike).
LiteOverview(s) ==
    [total_users |-> Cardinality({e.tenant : e \in Range(s.events)}),
     login_users |-> Cardinality(TenantsWith(s, "login")),
     submit_users |-> Cardinality(TenantsWith(s, "job_submit")),
     jobs |-> CountOf(s.events, LAMBDA e : e.kind = "job_submit")]

\* PostgreSQL's answers with two other fields.
PgOverview(s) ==
    [total_events |-> Len(s.events), unique_tenants |-> Cardinality({e.tenant : e \in Range(s.events)})]

\* get_analytics_users, one row per tenant.
AnalyticsUsers(s) ==
    {[tenant |-> t, total_events |-> CountOf(s.events, LAMBDA e : e.tenant = t),
      jobs_submitted |-> CountOf(s.events, LAMBDA e : e.tenant = t /\ e.kind = "job_submit")] :
        t \in {e.tenant : e \in Range(s.events)}}

\* get_email_stats: SQLite counts every logged mail as sent (none is ever
\* pending) and reads the stamps; PostgreSQL counts by status.
LiteEmailStats(s) ==
    [total |-> Len(s.mails), sent |-> Len(s.mails),
     opened |-> CountOf(s.mails, LAMBDA m : "open" \in m.stamps),
     clicked |-> CountOf(s.mails, LAMBDA m : "click" \in m.stamps),
     bounced |-> CountOf(s.mails, LAMBDA m : m.status = "bounced")]

PgEmailStats(s) ==
    [total |-> Len(s.mails), by |-> [st \in {m.status : m \in Range(s.mails)} \cup {"sent", "failed"} |->
                                        CountOf(s.mails, LAMBDA m : m.status = st)]]

\* get_feedback: a rating that is not above 0 does not filter; the numbers of
\* the rows of a page, newest first, and how many there are in all.
LiteFeedback(s, rating, offset) ==
    LET found == SelectSeq(Reverse([n \in DOMAIN s.ratings |-> n]), LAMBDA n : rating > 0 => s.ratings[n] = rating)
    IN [items |-> SubSeq(found, offset + 1, Min({offset + PageSize, Len(found)})), total |-> Len(found)]

\* PostgreSQL's drops the filter for 0 only.
PgFeedback(s, rating, offset) ==
    LET found == SelectSeq(Reverse([n \in DOMAIN s.ratings |-> n]), LAMBDA n : rating # 0 => s.ratings[n] = rating)
    IN [items |-> SubSeq(found, offset + 1, Min({offset + PageSize, Len(found)})), total |-> Len(found)]

-----------------------------------------------------------------------------
(* Properties *)

\* "All functions in this module mirror db.py exactly", as far as it is so:
\* who paid, which plan is in force, who owns an invoice, the keys of users
\* rotated through the adapter, leads, events, feedback and the recipients of mail.
StoresAgree ==
    /\ lite.invoices = pg.invoices /\ lite.leads = pg.leads
    /\ lite.events = pg.events /\ lite.ratings = pg.ratings
    /\ \A t \in STenants : /\ lite.tenants[t].there <=> pg.tenants[t].there
                           /\ lite.tenants[t].status = pg.tenants[t].status
                           /\ lite.tenants[t].plan = pg.tenants[t].plan
                           /\ pg.tenants[t].customer \in {"", lite.tenants[t].customer}
    /\ \A u \in SUsers : /\ lite.users[u].there <=> pg.users[u].there
                         /\ lite.users[u].hash = pg.users[u].hash
    /\ Len(lite.mails) = Len(pg.mails)

\* A mail one store believes untouched is untouched in the other.
MailsAgree ==
    \A n \in DOMAIN pg.mails :
        /\ lite.mails[n].to = pg.mails[n].to
        /\ pg.mails[n].status = "sent" <=> lite.mails[n].status = "sent" /\ lite.mails[n].stamps = {}

\* A user's key opens the user's own tenant: no call leaves a rotation half
\* done, and the digest a plaintext row already had survives its clearing.
KeysOpenTenants ==
    \A u \in SUsers : pg.users[u].there =>
        /\ pg.users[u].hash = pg.tenants[pg.users[u].tenant].hash
        /\ lite.users[u].hash = lite.tenants[lite.users[u].tenant].hash

\* A reader of all pages has seen every event there was when it began, however
\* many were logged meanwhile.
PagesMissNothing == reader.pc = "done" => reader.begun \subseteq reader.seen

\* The administrator's pages: both stores name as many tenants and mails, and
\* show the same feedback on the same page.  Within a store the views of one
\* table are consistent: the rows of the user list sum up to the overview, and
\* a mail opened or bounced in SQLite is one PostgreSQL no longer counts as sent.
ReadsAgree ==
    LET over == LiteOverview(lite) list == AnalyticsUsers(lite) mail == LiteEmailStats(lite)
    IN /\ over.total_users = PgOverview(pg).unique_tenants
       /\ over.total_users = Cardinality(list)
       /\ over.total_users <= over.login_users + over.submit_users
       /\ MapThenSumSet(LAMBDA r : r.total_events, list) = PgOverview(pg).total_events
       /\ MapThenSumSet(LAMBDA r : r.jobs_submitted, list) = over.jobs
       /\ mail.total = PgEmailStats(pg).total
       /\ mail.opened <= mail.total - PgEmailStats(pg).by["sent"]
       /\ mail.bounced <= mail.total - PgEmailStats(pg).by["sent"]
       /\ \A rating \in 0..5, offset \in {0, PageSize} :
             LiteFeedback(lite, rating, offset) = PgFeedback(pg, rating, offset)

\* What callers may rely on whichever store answers.
DualStoreInv ==
    StoresAgree /\ MailsAgree /\ KeysOpenTenants /\ PagesMissNothing /\ ReadsAgree
=============================================================================
