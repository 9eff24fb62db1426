------------------------------ MODULE Accounts ------------------------------
(***************************************************************************)
(* Accounts and API keys: sign-up with an invite code, e-mail              *)
(* verification, OAuth callback, login, key rotation (routers/auth.py,     *)
(* routers/account.py, scripts/rotate_user_key.py), the registry of keys   *)
(* each process keeps (deps.py) and the users and tenants tables           *)
(* (db_pg_sync.py).                                                        *)
(*                                                                         *)
(* A handler awaits nothing between its database calls, so one process     *)
(* runs one of them at a time; two processes interleave call by call.      *)
(* A call is a transaction of its own and may fail.                        *)
(***************************************************************************)
EXTENDS Naturals, FiniteSets

CONSTANTS
    AReplicas,      \* processes that serve the API
    Emails,         \* addresses people sign up with
    Accts,          \* fresh ids: of a tenant and of the user signed up with it
    OAuthUser,      \* the id an OAuth provider gives to its user
    NoAcct,         \* no tenant, no user, no address
    MaxUses,        \* uses of the invite code
    MaxVerified,    \* capacity of the beta
    MaxKeys,        \* bound: keys minted
    MaxMails,       \* bound: verification tokens minted
    MaxRequests,    \* bound: requests begun
    MaxAcctFaults   \* bound: failed database calls and crashes

ASSUME AcctBounds ==
    /\ {MaxUses, MaxVerified, MaxKeys, MaxMails, MaxRequests, MaxAcctFaults} \subseteq Nat
    /\ OAuthUser \notin Accts /\ NoAcct \notin Accts \cup {OAuthUser} \cup Emails
    /\ IsFiniteSet(AReplicas) /\ AReplicas # {}

VARIABLES
    users,      \* users rows
    tenantkey,  \* tenants.api_key_hash, 0 while the row does not exist
    invite,     \* the invite code: uses counted, still active
    registry,   \* API_KEYS of each process: the tenant registered for a key
    sessions,   \* browser sessions each process keeps in memory, by tenant
    req,        \* the request each process is serving
    minted,       \* keys minted so far
    tokens,      \* verification tokens minted so far
    mailed,     \* tokens that reached a mailbox
    handed,     \* keys a customer or an operator has been given
    lost,       \* users whose handler died or failed half-way
    begun,      \* requests begun
    acctfaults

avars == <<users, tenantkey, invite, registry, sessions, req, minted, tokens,
           mailed, handed, lost, begun, acctfaults>>

UserIds == Accts \cup {OAuthUser}
KeyIds == 1..MaxKeys
UserRow == [email : Emails, tenant : Accts, key : KeyIds, verified : BOOLEAN,
            token : 0..MaxMails]
NoUser == [email |-> NoAcct, tenant |-> NoAcct, key |-> 0, verified |-> FALSE,
           token |-> 0]
Idling == [pc |-> "idle", op |-> "none", email |-> NoAcct, tenant |-> NoAcct,
           user |-> NoAcct, key |-> 0, token |-> 0]
SignupSteps == {"invite", "email", "seed", "insert", "mail", "count"}

AccountsTypeOK ==
    /\ users \in [UserIds -> UserRow \cup {NoUser}]
    /\ tenantkey \in [Accts -> 0..MaxKeys]
    /\ invite \in [used : Nat, active : BOOLEAN]
    /\ registry \in [AReplicas -> [KeyIds -> Accts \cup {NoAcct}]]
    /\ sessions \in [AReplicas -> SUBSET Accts]
    /\ req \in [AReplicas ->
           [pc : {"idle", "rotate", "restore", "switch", "token"} \cup SignupSteps,
            op : {"none", "signup", "verify", "resend", "account", "script", "oauth"},
            email : Emails \cup {NoAcct}, tenant : Accts \cup {NoAcct},
            user : UserIds \cup {NoAcct}, key : 0..MaxKeys, token : 0..MaxMails]]
    /\ minted \in 0..MaxKeys /\ tokens \in 0..MaxMails
    /\ mailed \subseteq 1..MaxMails /\ handed \subseteq KeyIds
    /\ begun \in 0..MaxRequests
    /\ lost \subseteq UserIds /\ acctfaults \in 0..MaxAcctFaults

AccountsInit ==
    /\ users = [u \in UserIds |-> NoUser]
    /\ tenantkey = [t \in Accts |-> 0]
    /\ invite = [used |-> 0, active |-> TRUE]
    /\ registry = [r \in AReplicas |-> [k \in KeyIds |-> NoAcct]]
    /\ sessions = [r \in AReplicas |-> {}]
    /\ req = [r \in AReplicas |-> Idling]
    /\ minted = 0 /\ tokens = 0 /\ mailed = {} /\ handed = {} /\ lost = {}
    /\ begun = 0 /\ acctfaults = 0

Has(u) == users[u] # NoUser
Known(e) == {u \in UserIds : Has(u) /\ users[u].email = e}
Verified == {u \in UserIds : Has(u) /\ users[u].verified}
BetaIsFull == Cardinality(Verified) >= MaxVerified
InviteValid == invite.active /\ invite.used < MaxUses
Serving(r, pc) == req[r].pc = pc
Begins(r) == Serving(r, "idle") /\ begun < MaxRequests /\ begun' = begun + 1
OnlyRequest == UNCHANGED <<users, tenantkey, invite, registry, sessions, minted,
                           tokens, mailed, handed, lost, acctfaults>>

-----------------------------------------------------------------------------
(* POST /auth/signup.                                                      *)

SignupBegins(r, e) ==
    /\ Begins(r) /\ ~BetaIsFull
    /\ req' = [req EXCEPT ![r] = [Idling EXCEPT !.pc = "invite", !.op = "signup",
                                                !.email = e]]
    /\ OnlyRequest

CheckInvite(r) ==
    /\ Serving(r, "invite")
    /\ req' = [req EXCEPT ![r] = IF InviteValid THEN [@ EXCEPT !.pc = "email"]
                                                ELSE Idling]
    /\ OnlyRequest /\ begun' = begun

\* A tenant id is a fresh uuid: no other request holds it.
FreshTenants == {t \in Accts : /\ tenantkey[t] = 0
                               /\ \A s \in AReplicas : req[s].tenant # t}

\* The e-mail has no account yet: mint tenant and key; of an existing account
\* sign-up answers 409 and the OAuth callback opens a session.
CheckEmail(r) ==
    /\ Serving(r, "email")
    /\ IF Known(req[r].email) # {}
       THEN \E u \in Known(req[r].email) :
              /\ req' = [req EXCEPT ![r] = Idling]
              /\ sessions' = IF req[r].op = "oauth"
                             THEN [sessions EXCEPT ![r] = @ \cup {users[u].tenant}]
                             ELSE sessions
              /\ minted' = minted /\ tokens' = tokens
       ELSE \E t \in FreshTenants :
              /\ minted < MaxKeys /\ minted' = minted + 1
              /\ tokens' = IF req[r].op = "signup" THEN tokens + 1 ELSE tokens
              /\ tokens' <= MaxMails
              /\ req' = [req EXCEPT ![r].pc = "seed", ![r].tenant = t, ![r].key = minted',
                             ![r].user = IF @ = NoAcct THEN t ELSE @,
                             ![r].token = IF req[r].op = "signup" THEN tokens' ELSE 0]
              /\ UNCHANGED sessions
    /\ UNCHANGED <<users, tenantkey, invite, registry, mailed, handed, lost, begun, acctfaults>>

\* seed_tenants, and for a sign-up register_key right behind it.
SeedTenant(r) ==
    /\ Serving(r, "seed")
    /\ tenantkey' = [tenantkey EXCEPT ![req[r].tenant] = req[r].key]
    /\ registry' = IF req[r].op = "signup"
                   THEN [registry EXCEPT ![r][req[r].key] = req[r].tenant]
                   ELSE registry
    /\ req' = [req EXCEPT ![r].pc = "insert"]
    /\ UNCHANGED <<users, invite, sessions, minted, tokens, mailed, handed, lost, begun, acctfaults>>

\* INSERT INTO users ... ON CONFLICT (id): a fresh id for a sign-up; the id of
\* an OAuth user may be taken, and then only the address is rewritten.
InsertUser(r) ==
    /\ Serving(r, "insert")
    /\ LET q == req[r]
           new == [email |-> q.email, tenant |-> q.tenant, key |-> q.key,
                   verified |-> FALSE, token |-> q.token]
       IN  users' = [users EXCEPT ![q.user] =
                        IF Has(q.user) THEN [@ EXCEPT !.email = q.email] ELSE new]
    /\ req' = [req EXCEPT ![r].pc = IF req[r].op = "signup" THEN "mail" ELSE "switch"]
    /\ UNCHANGED <<tenantkey, invite, registry, sessions, minted, tokens, mailed,
                   handed, lost, begun, acctfaults>>

\* The mail may fail without a word; use_invite validates the code once more.
MailAndRevalidate(r) ==
    /\ Serving(r, "mail")
    /\ mailed' \in {mailed, mailed \cup {req[r].token}}
    /\ req' = [req EXCEPT ![r] = IF InviteValid THEN [@ EXCEPT !.pc = "count"]
                                                ELSE Idling]
    /\ UNCHANGED <<users, tenantkey, invite, registry, sessions, minted, tokens,
                   handed, lost, begun, acctfaults>>

CountUse(r) ==
    /\ Serving(r, "count")
    /\ invite' = [invite EXCEPT !.used = @ + 1]
    /\ req' = [req EXCEPT ![r] = Idling]
    /\ UNCHANGED <<users, tenantkey, registry, sessions, minted, tokens, mailed,
                   handed, lost, begun, acctfaults>>

Deactivate ==
    /\ invite.active /\ invite' = [invite EXCEPT !.active = FALSE]
    /\ UNCHANGED <<users, tenantkey, registry, sessions, req, minted, tokens, mailed,
                   handed, lost, begun, acctfaults>>

\* GET /auth/oauth/callback, once the provider has named its user.
OAuthBegins(r, e) ==
    /\ Begins(r)
    /\ req' = [req EXCEPT ![r] = [Idling EXCEPT !.pc = "email", !.op = "oauth",
                                        !.email = e, !.user = OAuthUser]]
    /\ OnlyRequest

-----------------------------------------------------------------------------
(* GET /auth/verify-email, POST /auth/resend-verification.                 *)

\* One UPDATE burns the token and verifies the address.
BurnToken(r, tok) ==
    /\ Begins(r) /\ tok \in mailed
    /\ \E u \in UserIds :
         /\ users[u].token = tok /\ ~users[u].verified
         /\ users' = [users EXCEPT ![u].verified = TRUE, ![u].token = 0]
         /\ req' = [req EXCEPT ![r] = [Idling EXCEPT !.pc = "rotate", !.op = "verify",
                              !.user = u, !.tenant = users[u].tenant, !.token = tok]]
    /\ UNCHANGED <<tenantkey, invite, registry, sessions, minted, tokens, mailed,
                   handed, lost, acctfaults>>

RestoredRow(row, tok) == [row EXCEPT !.verified = FALSE, !.token = tok]

RestoreToken(r) ==
    /\ Serving(r, "restore")
    /\ users' = [users EXCEPT ![req[r].user] = RestoredRow(@, req[r].token)]
    /\ req' = [req EXCEPT ![r] = Idling]
    /\ UNCHANGED <<tenantkey, invite, registry, sessions, minted, tokens, mailed,
                   handed, lost, begun, acctfaults>>

ResendBegins(r, u) ==
    /\ Begins(r) /\ Has(u) /\ ~users[u].verified
    /\ req' = [req EXCEPT ![r] = [Idling EXCEPT !.pc = "token", !.op = "resend",
                                                !.user = u]]
    /\ OnlyRequest

\* The UPDATE does not ask whether the address was verified meanwhile.
NewToken(r) ==
    /\ Serving(r, "token") /\ tokens < MaxMails
    /\ tokens' = tokens + 1
    /\ users' = [users EXCEPT ![req[r].user].token = tokens']
    /\ mailed' \in {mailed, mailed \cup {tokens'}}
    /\ req' = [req EXCEPT ![r] = Idling]
    /\ UNCHANGED <<tenantkey, invite, registry, sessions, minted, handed, lost, begun, acctfaults>>

-----------------------------------------------------------------------------
(* Keys: rotation by the verification, the account page and the script;    *)
(* login; the registry.                                                    *)

\* find_tenant_by_key: the row that carries the digest of the key.
TenantByKey(k) ==
    IF \E t \in Accts : tenantkey[t] = k
    THEN CHOOSE t \in Accts : tenantkey[t] = k ELSE NoAcct

\* The registry asked first: the caching lookup_key must not be.
LookupCached(r, k) ==
    IF registry[r][k] # NoAcct THEN registry[r][k] ELSE TenantByKey(k)

\* lookup_key: the database is the authority, the registry only speaks for
\* tenants without a row.
LookupKey(r, k) ==
    IF TenantByKey(k) # NoAcct THEN TenantByKey(k)
    ELSE LET t == registry[r][k]
         IN  IF t # NoAcct /\ tenantkey[t] = 0 THEN t ELSE NoAcct

Login(r, k) ==
    /\ Serving(r, "idle") /\ k \in handed /\ LookupKey(r, k) # NoAcct
    /\ sessions' = [sessions EXCEPT ![r] = @ \cup {LookupKey(r, k)}]
    /\ UNCHANGED <<users, tenantkey, invite, registry, req, minted, tokens, mailed,
                   handed, lost, begun, acctfaults>>

\* The session runs out (_cleanup_expired) or is deleted by /auth/logout.
SessionEnds(r, t) ==
    /\ Serving(r, "idle") /\ t \in sessions[r]
    /\ sessions' = [sessions EXCEPT ![r] = @ \ {t}]
    /\ UNCHANGED <<users, tenantkey, invite, registry, req, minted, tokens, mailed,
                   handed, lost, begun, acctfaults>>

\* POST /account/rotate-key: a session this process knows.  A wrong password,
\* or an OAuth session older than ten minutes, is refused and changes nothing.
RotateBegins(r, u) ==
    /\ Begins(r) /\ Has(u) /\ users[u].tenant \in sessions[r]
    /\ req' = [req EXCEPT ![r] = [Idling EXCEPT !.pc = "rotate", !.op = "account",
                                   !.user = u, !.tenant = users[u].tenant]]
    /\ OnlyRequest

\* scripts/rotate_user_key.py, a process that keeps no registry.
ScriptBegins(r, u) ==
    /\ Begins(r) /\ Has(u)
    /\ req' = [req EXCEPT ![r] = [Idling EXCEPT !.pc = "rotate", !.op = "script",
                                   !.user = u, !.tenant = users[u].tenant]]
    /\ OnlyRequest

\* One transaction over users and tenants.  The script has written its key to
\* a file before it.
RotateKey(r) ==
    /\ Serving(r, "rotate") /\ minted < MaxKeys
    /\ LET q == req[r]
       IN  /\ minted' = minted + 1
           /\ users' = [users EXCEPT ![q.user].key = minted']
           /\ tenantkey' = [tenantkey EXCEPT ![q.tenant] = minted']
           /\ registry' = IF q.op = "script" THEN registry
                          ELSE [registry EXCEPT ![r][users[q.user].key] = NoAcct]
           /\ handed' = IF q.op = "script" THEN handed \cup {minted'} ELSE handed
           /\ req' = [req EXCEPT ![r] = IF q.op = "script" THEN Idling
                                ELSE [@ EXCEPT !.pc = "switch", !.key = minted']]
    /\ UNCHANGED <<invite, sessions, tokens, mailed, lost, begun, acctfaults>>

\* register_key and the page that shows the key once, with a new session for
\* a verification and an OAuth account.
ShowKey(r) ==
    /\ Serving(r, "switch")
    /\ registry' = [registry EXCEPT ![r][req[r].key] = req[r].tenant]
    /\ handed' = handed \cup {req[r].key}
    /\ sessions' = IF req[r].op = "account" THEN sessions
                   ELSE [sessions EXCEPT ![r] = @ \cup {req[r].tenant}]
    /\ req' = [req EXCEPT ![r] = Idling]
    /\ UNCHANGED <<users, tenantkey, invite, minted, tokens, mailed, lost, begun, acctfaults>>

-----------------------------------------------------------------------------
(* A call raises; the process dies.                                        *)

\* Half-way: the token is burned or the key is changed, and nobody was told.
HalfWay(r) == (req[r].op = "verify" /\ ~Serving(r, "idle")) \/ Serving(r, "switch")

Forgotten(r) == IF HalfWay(r) THEN lost \cup {req[r].user} ELSE lost

\* A failed rotation of a verification gives the token back, any other failed
\* call ends the request with 500.
CallFails(r) ==
    /\ ~Serving(r, "idle") /\ ~Serving(r, "switch") /\ acctfaults < MaxAcctFaults
    /\ acctfaults' = acctfaults + 1
    /\ IF req[r].op = "verify" /\ Serving(r, "rotate")
       THEN req' = [req EXCEPT ![r].pc = "restore"] /\ lost' = lost
       ELSE req' = [req EXCEPT ![r] = Idling] /\ lost' = Forgotten(r)
    /\ UNCHANGED <<users, tenantkey, invite, registry, sessions, minted, tokens,
                   mailed, handed, begun>>

ProcessRestarts(r) ==
    /\ acctfaults < MaxAcctFaults /\ acctfaults' = acctfaults + 1
    /\ lost' = Forgotten(r)
    /\ req' = [req EXCEPT ![r] = Idling]
    /\ registry' = [registry EXCEPT ![r] = [k \in KeyIds |-> NoAcct]]
    /\ sessions' = [sessions EXCEPT ![r] = {}]
    /\ UNCHANGED <<users, tenantkey, invite, minted, tokens, mailed, handed, begun>>

AccountsNext ==
    \/ Deactivate
    \/ \E r \in AReplicas :
         \/ \E e \in Emails : SignupBegins(r, e) \/ OAuthBegins(r, e)
         \/ CheckInvite(r) \/ CheckEmail(r) \/ SeedTenant(r) \/ InsertUser(r)
         \/ MailAndRevalidate(r) \/ CountUse(r)
         \/ \E tok \in 1..MaxMails : BurnToken(r, tok)
         \/ RestoreToken(r) \/ NewToken(r)
         \/ \E u \in UserIds : ResendBegins(r, u) \/ RotateBegins(r, u) \/ ScriptBegins(r, u)
         \/ \E k \in KeyIds : Login(r, k)
         \/ \E t \in Accts : SessionEnds(r, t)
         \/ RotateKey(r) \/ ShowKey(r) \/ CallFails(r) \/ ProcessRestarts(r)

-----------------------------------------------------------------------------
\* A rotated key is dead on every process at once, whatever the registries of
\* the other processes still hold (lookup_key).
RotatedKeyIsDead ==
    \A r \in AReplicas, k \in KeyIds :
        LookupKey(r, k) # NoAcct => tenantkey[LookupKey(r, k)] = k

\* The users row and the tenants row of an account carry the same key: the
\* key that finds the tenant also finds the user whose address is verified
\* (verify_api_key, is_email_verified).
RowsCarryOneKey ==
    \A u \in UserIds : Has(u) => tenantkey[users[u].tenant] = users[u].key

\* A verified account has been told its key, unless the handler that owed it
\* is still running or was cut off: a failed rotation un-verifies it.
VerifiedHasKey ==
    \A u \in Verified :
        \/ users[u].key \in handed \/ u \in lost
        \/ \E r \in AReplicas : req[r].user = u /\ HalfWay(r)

\* Checking and counting a use are two calls, so processes may overshoot the
\* limit of a code together, each by one.
InviteOveruse ==
    invite.used + Cardinality({r \in AReplicas : Serving(r, "count")})
        < MaxUses + Cardinality(AReplicas)

\* The keys of an account: no key works that was rotated away, both rows carry
\* the same one, who is verified was told it, and an invite code is overused
\* at most once per process.
AccountsInv ==
    /\ RotatedKeyIsDead /\ RowsCarryOneKey /\ VerifiedHasKey /\ InviteOveruse
=============================================================================
