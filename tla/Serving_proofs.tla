--------------------------- MODULE Serving_proofs ---------------------------
(***************************************************************************)
(* Who may do what, for every size: accounts, keys and sessions, the       *)
(* support desk, onboarding, and the decisions on jobs.                    *)
(***************************************************************************)
EXTENDS Receipts_proofs, SequenceTheorems

ReqRow == [pc : {"idle", "rotate", "restore", "switch", "token"} \cup SignupSteps,
           op : {"none", "signup", "verify", "resend", "account", "script", "oauth"},
           email : Emails \cup {NoAcct}, tenant : Accts \cup {NoAcct},
           user : UserIds \cup {NoAcct}, key : 0..MaxKeys, token : 0..MaxMails]

(* A tenant belongs to one user, whose row carries the same key; while it  *)
(* is being signed up it belongs to one request and to no user.            *)
OwnersInv ==
    /\ RowsCarryOneKey
    /\ \A u, v \in UserIds : Has(u) /\ Has(v) /\ users[u].tenant = users[v].tenant => u = v

NewTenantInv(r) ==
    req[r].pc \in {"seed", "insert"} =>
        /\ req[r].tenant \in Accts
        /\ \A u \in UserIds : Has(u) => users[u].tenant # req[r].tenant
        /\ \A s \in AReplicas : s # r => req[s].tenant # req[r].tenant
        /\ tenantkey[req[r].tenant] = IF req[r].pc = "seed" THEN 0 ELSE req[r].key

(* What a request knows at each of its steps.                              *)
ReqInv(r) ==
    /\ req[r].pc \in {"invite", "email", "seed", "insert"} =>
          /\ req[r].email \in Emails
          /\ req[r].op \in {"signup", "oauth"}
          /\ req[r].op = "oauth" => req[r].user = OAuthUser
    /\ req[r].pc \in {"seed", "insert", "switch"} =>
          req[r].user \in UserIds /\ req[r].key \in KeyIds
    /\ req[r].pc \in {"seed", "insert", "mail"} /\ req[r].op = "signup" =>
          req[r].token \in 1..MaxMails
    /\ req[r].pc \in {"mail", "count"} => req[r].op = "signup"
    /\ req[r].pc \in {"rotate", "restore", "token"} =>
          req[r].user \in UserIds /\ Has(req[r].user)
    /\ req[r].pc = "rotate" => /\ req[r].tenant = users[req[r].user].tenant
                               /\ req[r].op \in {"verify", "account", "script"}
    /\ req[r].pc = "switch" => req[r].tenant \in Accts /\ tenantkey[req[r].tenant] # 0
    /\ req[r].pc = "restore" => req[r].op = "verify"
    /\ req[r].op = "verify" => req[r].pc \in {"rotate", "restore", "switch"}

(* A registry names only tenants that have a row.                          *)
RegistryInv ==
    \A r \in AReplicas, k \in KeyIds :
        registry[r][k] # NoAcct => tenantkey[registry[r][k]] # 0

(* Who owes a verified user the key of the row.                            *)
Owes(r, u) ==
    /\ req[r].user = u
    /\ \/ req[r].pc = "switch" /\ req[r].key = users[u].key
       \/ req[r].op = "verify" /\ req[r].pc \in {"rotate", "restore"}
ToldInv(u) ==
    Has(u) /\ users[u].verified =>
        users[u].key \in handed \/ u \in lost \/ \E r \in AReplicas : Owes(r, u)

AccountsIInv ==
    /\ AccountsTypeOK /\ OwnersInv /\ RegistryInv /\ InviteOveruse
    /\ \A r \in AReplicas : NewTenantInv(r) /\ ReqInv(r)
    /\ \A u \in UserIds : ToldInv(u)

LEMMA AccountsInitInv == AccountsInit => AccountsIInv
  <1> SUFFICES ASSUME AccountsInit PROVE AccountsIInv
    OBVIOUS
  <1> USE AcctBounds DEF AccountsInit
  <1>1. AccountsTypeOK
    BY DEF AccountsTypeOK, Idling, KeyIds, UserIds
  <1>2. OwnersInv /\ RegistryInv /\ \A u \in UserIds : ToldInv(u)
    BY DEF OwnersInv, RowsCarryOneKey, RegistryInv, ToldInv, Has
  <1>3. \A r \in AReplicas : NewTenantInv(r) /\ ReqInv(r)
    BY DEF NewTenantInv, ReqInv, Idling
  <1>4. InviteOveruse
    <2>1. {r \in AReplicas : Serving(r, "count")} = {}
      BY DEF Serving, Idling
    <2>2. Cardinality(AReplicas) \in Nat /\ Cardinality(AReplicas) # 0
      BY FS_CardinalityType, FS_EmptySet
    <2>3. Cardinality({r \in AReplicas : Serving(r, "count")}) = 0
      BY <2>1, FS_EmptySet
    <2>4. invite.used = 0 /\ MaxUses \in Nat
      OBVIOUS
    <2> QED BY <2>2, <2>3, <2>4 DEF InviteOveruse
  <1> QED BY <1>1, <1>2, <1>3, <1>4 DEF AccountsIInv

(* A request moves and the others stay where they are.                     *)
LEMMA OneRequestMoves ==
    ASSUME AccountsIInv, NEW r \in AReplicas, NEW row \in ReqRow,
           req' = [req EXCEPT ![r] = row]
    PROVE  /\ req' \in [AReplicas -> ReqRow] /\ req'[r] = row
           /\ \A s \in AReplicas : s # r => req'[s] = req[s]
  BY DEF AccountsIInv, AccountsTypeOK, ReqRow

LEMMA RequestType ==
    ASSUME AccountsTypeOK, NEW r \in AReplicas
    PROVE  req[r] \in ReqRow
  BY DEF AccountsTypeOK, ReqRow

(* Unless it starts counting a use, a move of a request leaves the invite  *)
(* code within its bound.                                                  *)
LEMMA InviteKept ==
    ASSUME AccountsIInv, NEW r \in AReplicas, NEW row \in ReqRow,
           req' = [req EXCEPT ![r] = row], row.pc # "count", invite'.used = invite.used
    PROVE  InviteOveruse'
  <1> DEFINE C == {s \in AReplicas : Serving(s, "count")}
             D == {s \in AReplicas : req'[s].pc = "count"}
  <1>1. D \subseteq C
    BY OneRequestMoves DEF Serving
  <1>2. IsFiniteSet(C) /\ Cardinality(C) \in Nat
    BY AcctBounds, SubsetCount, C \subseteq AReplicas
  <1>3. Cardinality(D) \in Nat /\ Cardinality(D) <= Cardinality(C)
    BY <1>1, <1>2, SubsetCount
  <1>4. Cardinality(AReplicas) \in Nat
    BY AcctBounds, FS_CardinalityType
  <1>5. invite.used + Cardinality(C) < MaxUses + Cardinality(AReplicas)
    BY DEF AccountsIInv, InviteOveruse
  <1>6. invite'.used + Cardinality(D) < MaxUses + Cardinality(AReplicas)
    <2>1. invite.used \in Nat /\ MaxUses \in Nat
      BY AcctBounds DEF AccountsIInv, AccountsTypeOK
    <2> HIDE DEF C, D
    <2> QED BY <1>2, <1>3, <1>4, <1>5, <2>1
  <1>7. D = {s \in AReplicas : Serving(s, "count")}'
    BY DEF Serving
  <1> QED BY <1>6, <1>7 DEF InviteOveruse

(* A request that moves, leaves both tables alone and keeps or pays what   *)
(* it owes preserves the invariant.                                        *)
LEMMA RequestMovesInv ==
    ASSUME AccountsIInv, NEW r \in AReplicas, NEW row \in ReqRow,
           req' = [req EXCEPT ![r] = row], AccountsTypeOK', RegistryInv', ReqInv(r)',
           UNCHANGED <<users, tenantkey, invite>>, handed \subseteq handed',
           lost \subseteq lost', row.pc \notin {"seed", "insert", "count"},
           \/ row.tenant \in {NoAcct, req[r].tenant}
           \/ \E u \in UserIds : Has(u) /\ row.tenant = users[u].tenant,
           \A u \in UserIds : Has(u) /\ Owes(r, u) =>
              users[u].key \in handed' \/ u \in lost' \/ Owes(r, u)'
    PROVE  AccountsIInv'
  <1>1. /\ req' \in [AReplicas -> ReqRow] /\ req'[r] = row
        /\ \A s \in AReplicas : s # r => req'[s] = req[s]
    BY OneRequestMoves
  <1>2. OwnersInv'
    BY DEF AccountsIInv, OwnersInv, RowsCarryOneKey, Has
  <1>3. InviteOveruse'
    BY InviteKept
  <1>4. ASSUME NEW s \in AReplicas PROVE NewTenantInv(s)' /\ ReqInv(s)'
    <2>1. CASE s = r
      BY <1>1, <2>1 DEF NewTenantInv
    <2>2. CASE s # r
      <3>1. req'[s] = req[s]
        BY <1>1, <2>2
      <3>2. ReqInv(s)'
        BY <3>1 DEF AccountsIInv, ReqInv, Has
      <3>3. NewTenantInv(s)'
        BY <1>1, <2>2, <3>1, AcctBounds DEF AccountsIInv, NewTenantInv, Has
      <3> QED BY <3>2, <3>3
    <2> QED BY <2>1, <2>2
  <1>5. ASSUME NEW u \in UserIds PROVE ToldInv(u)'
    <2> SUFFICES ASSUME Has(u), users[u].verified
                 PROVE  users[u].key \in handed' \/ u \in lost'
                        \/ \E s \in AReplicas : Owes(s, u)'
      BY DEF ToldInv, Has
    <2>1. CASE users[u].key \in handed \/ u \in lost
      BY <2>1
    <2>2. ASSUME NEW s \in AReplicas, Owes(s, u)
          PROVE  users[u].key \in handed' \/ u \in lost' \/ \E p \in AReplicas : Owes(p, u)'
      <3>1. CASE s = r
        BY <2>2, <3>1
      <3>2. CASE s # r
        BY <1>1, <2>2, <3>2 DEF Owes
      <3> QED BY <3>1, <3>2
    <2> QED BY <2>1, <2>2 DEF AccountsIInv, ToldInv
  <1> QED BY <1>2, <1>3, <1>4, <1>5 DEF AccountsIInv

LEMMA IdlingRow == Idling \in ReqRow
  BY AcctBounds DEF Idling, ReqRow

(* A handler that begins.                                                  *)
LEMMA BeginsInv ==
    ASSUME AccountsIInv, NEW r \in AReplicas, NEW row \in ReqRow, Begins(r),
           req' = [req EXCEPT ![r] = row], OnlyRequest, ReqInv(r)',
           row.pc \notin {"seed", "insert", "count"},
           \/ row.tenant = NoAcct
           \/ \E u \in UserIds : Has(u) /\ row.tenant = users[u].tenant
    PROVE  AccountsIInv'
  <1>1. AccountsTypeOK'
    BY OneRequestMoves, AcctBounds DEF AccountsIInv, AccountsTypeOK, Begins, OnlyRequest, ReqRow
  <1>2. RegistryInv'
    BY DEF AccountsIInv, RegistryInv, OnlyRequest
  <1>3. ASSUME NEW u \in UserIds PROVE ~Owes(r, u)
    BY DEF AccountsIInv, ReqInv, Owes, Begins, Serving
  <1> QED BY <1>1, <1>2, <1>3, RequestMovesInv DEF OnlyRequest

LEMMA SignupBeginsInv ==
    ASSUME AccountsIInv, NEW r \in AReplicas, NEW e \in Emails,
           SignupBegins(r, e) \/ OAuthBegins(r, e)
    PROVE  AccountsIInv'
  <1>1. CASE SignupBegins(r, e)
    <2> DEFINE row == [Idling EXCEPT !.pc = "invite", !.op = "signup", !.email = e]
    <2>1. /\ row \in ReqRow /\ row.pc = "invite" /\ row.op = "signup" /\ row.email = e
          /\ row.tenant = NoAcct
      BY IdlingRow DEF ReqRow, SignupSteps, Idling
    <2>2. req' = [req EXCEPT ![r] = row] /\ Begins(r) /\ OnlyRequest
      BY <1>1 DEF SignupBegins
    <2> HIDE DEF row
    <2>3. ReqInv(r)'
      BY <2>1, <2>2, OneRequestMoves DEF ReqInv
    <2> QED BY <2>1, <2>2, <2>3, BeginsInv
  <1>2. CASE OAuthBegins(r, e)
    <2> DEFINE row == [Idling EXCEPT !.pc = "email", !.op = "oauth", !.email = e,
                                     !.user = OAuthUser]
    <2>1. /\ row \in ReqRow /\ row.pc = "email" /\ row.op = "oauth" /\ row.email = e
          /\ row.tenant = NoAcct /\ row.user = OAuthUser
      BY IdlingRow DEF ReqRow, SignupSteps, Idling, UserIds
    <2>2. req' = [req EXCEPT ![r] = row] /\ Begins(r) /\ OnlyRequest
      BY <1>2 DEF OAuthBegins
    <2> HIDE DEF row
    <2>3. ReqInv(r)'
      BY <2>1, <2>2, OneRequestMoves DEF ReqInv
    <2> QED BY <2>1, <2>2, <2>3, BeginsInv
  <1> QED BY <1>1, <1>2

LEMMA UserType ==
    ASSUME AccountsTypeOK, NEW u \in UserIds, Has(u)
    PROVE  users[u] \in UserRow
  BY DEF AccountsTypeOK, Has

LEMMA UserBeginsInv ==
    ASSUME AccountsIInv, NEW r \in AReplicas, NEW u \in UserIds,
           ResendBegins(r, u) \/ RotateBegins(r, u) \/ ScriptBegins(r, u)
    PROVE  AccountsIInv'
  <1>1. Has(u) /\ Begins(r) /\ OnlyRequest /\ users' = users
    BY DEF ResendBegins, RotateBegins, ScriptBegins, OnlyRequest
  <1>2. users[u].tenant \in Accts
    BY <1>1, UserType DEF AccountsIInv, UserRow
  <1>3. CASE ResendBegins(r, u)
    <2> DEFINE row == [Idling EXCEPT !.pc = "token", !.op = "resend", !.user = u]
    <2>1. /\ row \in ReqRow /\ row.pc = "token" /\ row.op = "resend" /\ row.tenant = NoAcct
          /\ row.user = u
      BY IdlingRow DEF ReqRow, Idling
    <2>2. req' = [req EXCEPT ![r] = row]
      BY <1>3 DEF ResendBegins
    <2> HIDE DEF row
    <2>3. ReqInv(r)'
      BY <1>1, <2>1, <2>2, OneRequestMoves DEF ReqInv, Has
    <2> QED BY <1>1, <2>1, <2>2, <2>3, BeginsInv
  <1>4. ASSUME NEW o \in {"account", "script"},
               req' = [req EXCEPT ![r] = [Idling EXCEPT !.pc = "rotate", !.op = o,
                                          !.user = u, !.tenant = users[u].tenant]]
        PROVE  AccountsIInv'
    <2> DEFINE row == [Idling EXCEPT !.pc = "rotate", !.op = o, !.user = u,
                                     !.tenant = users[u].tenant]
    <2>1. /\ row \in ReqRow /\ row.pc = "rotate" /\ row.op = o /\ row.user = u
          /\ row.tenant = users[u].tenant
      BY <1>2, IdlingRow DEF ReqRow, Idling
    <2>2. req' = [req EXCEPT ![r] = row]
      BY <1>4
    <2> HIDE DEF row
    <2>3. ReqInv(r)'
      BY <1>1, <2>1, <2>2, OneRequestMoves DEF ReqInv, Has
    <2> QED BY <1>1, <2>1, <2>2, <2>3, BeginsInv
  <1> QED BY <1>3, <1>4 DEF RotateBegins, ScriptBegins

(* A handler that ends and owes nobody a key.                              *)
LEMMA EndsInv ==
    ASSUME AccountsIInv, NEW r \in AReplicas, req' = [req EXCEPT ![r] = Idling],
           AccountsTypeOK', RegistryInv', UNCHANGED <<users, tenantkey, invite>>,
           handed \subseteq handed', lost \subseteq lost',
           \A u \in UserIds : Has(u) /\ Owes(r, u) => users[u].key \in handed' \/ u \in lost'
    PROVE  AccountsIInv'
  <1>1. Idling.pc = "idle" /\ Idling.tenant = NoAcct /\ Idling.op = "none"
    BY DEF Idling
  <1>2. ReqInv(r)'
    BY <1>1, IdlingRow, OneRequestMoves DEF ReqInv
  <1> QED BY <1>1, <1>2, IdlingRow, RequestMovesInv

(* A handler owes a key only half-way.                                     *)
LEMMA OwesIsHalfWay ==
    ASSUME AccountsIInv, NEW r \in AReplicas, NEW u, Owes(r, u)
    PROVE  HalfWay(r) /\ req[r].user = u
  BY DEF Owes, HalfWay, Serving

LEMMA CheckInviteInv ==
    ASSUME AccountsIInv, NEW r \in AReplicas, CheckInvite(r)
    PROVE  AccountsIInv'
  <1>1. /\ req[r] \in ReqRow /\ req[r].pc = "invite"
        /\ UNCHANGED <<users, tenantkey, invite, registry, sessions, minted, tokens, mailed,
                       handed, lost, begun, acctfaults>>
    BY RequestType DEF AccountsIInv, CheckInvite, OnlyRequest, Serving
  <1>2. RegistryInv'
    BY <1>1 DEF AccountsIInv, RegistryInv
  <1>3. ASSUME NEW u \in UserIds PROVE ~Owes(r, u)
    BY <1>1 DEF AccountsIInv, ReqInv, Owes
  <1>4. ASSUME NEW row \in ReqRow, req' = [req EXCEPT ![r] = row] PROVE AccountsTypeOK'
    BY <1>1, <1>4, OneRequestMoves DEF AccountsIInv, AccountsTypeOK, ReqRow
  <1>5. CASE InviteValid
    <2> DEFINE row == [req[r] EXCEPT !.pc = "email"]
    <2>1. /\ row \in ReqRow /\ row.pc = "email" /\ row.op = req[r].op
          /\ row.email = req[r].email /\ row.tenant = req[r].tenant /\ row.user = req[r].user
      BY <1>1 DEF ReqRow, SignupSteps
    <2>2. req' = [req EXCEPT ![r] = row]
      BY <1>5 DEF CheckInvite
    <2> HIDE DEF row
    <2>3. ReqInv(r)'
      BY <1>1, <2>1, <2>2, OneRequestMoves DEF AccountsIInv, ReqInv
    <2> QED BY <1>1, <1>2, <1>3, <1>4, <2>1, <2>2, <2>3, RequestMovesInv
  <1>6. CASE ~InviteValid
    BY <1>1, <1>2, <1>3, <1>4, <1>6, IdlingRow, EndsInv DEF CheckInvite
  <1> QED BY <1>5, <1>6

LEMMA CheckEmailInv ==
    ASSUME AccountsIInv, NEW r \in AReplicas, CheckEmail(r)
    PROVE  AccountsIInv'
  <1>1. /\ req[r] \in ReqRow /\ req[r].pc = "email" /\ req[r].email \in Emails
        /\ req[r].op \in {"signup", "oauth"} /\ (req[r].op = "oauth" => req[r].user = OAuthUser)
        /\ UNCHANGED <<users, tenantkey, invite, registry, mailed, handed, lost, begun,
                       acctfaults>>
    BY RequestType DEF AccountsIInv, CheckEmail, Serving, ReqInv
  <1>2. RegistryInv'
    BY <1>1 DEF AccountsIInv, RegistryInv
  <1>3. ASSUME NEW u \in UserIds PROVE ~Owes(r, u)
    BY <1>1 DEF AccountsIInv, ReqInv, Owes
  <1>4. ASSUME NEW u \in Known(req[r].email),
               req' = [req EXCEPT ![r] = Idling],
               sessions' = IF req[r].op = "oauth"
                           THEN [sessions EXCEPT ![r] = @ \cup {users[u].tenant}]
                           ELSE sessions,
               minted' = minted, tokens' = tokens
        PROVE  AccountsIInv'
    <2>1. users[u].tenant \in Accts
      BY <1>4, UserType DEF AccountsIInv, Known, UserRow
    <2>2. AccountsTypeOK'
      <3>1. sessions' \in [AReplicas -> SUBSET Accts]
        BY <1>4, <2>1 DEF AccountsIInv, AccountsTypeOK
      <3> QED BY <1>1, <1>4, <3>1, IdlingRow, OneRequestMoves
              DEF AccountsIInv, AccountsTypeOK, ReqRow
    <2> QED BY <1>1, <1>2, <1>3, <1>4, <2>2, EndsInv
  <1>5. ASSUME NEW t \in FreshTenants, minted < MaxKeys, minted' = minted + 1,
               tokens' = IF req[r].op = "signup" THEN tokens + 1 ELSE tokens,
               tokens' <= MaxMails, UNCHANGED sessions,
               req' = [req EXCEPT ![r].pc = "seed", ![r].tenant = t, ![r].key = minted',
                           ![r].user = IF @ = NoAcct THEN t ELSE @,
                           ![r].token = IF req[r].op = "signup" THEN tokens' ELSE 0]
        PROVE  AccountsIInv'
    <2> DEFINE who == IF req[r].user = NoAcct THEN t ELSE req[r].user
               tok == IF req[r].op = "signup" THEN tokens + 1 ELSE 0
               row == [req[r] EXCEPT !.pc = "seed", !.tenant = t, !.key = minted + 1,
                                     !.user = who, !.token = tok]
    <2>1. t \in Accts /\ tenantkey[t] = 0 /\ \A s \in AReplicas : req[s].tenant # t
      BY DEF FreshTenants
    <2>2. /\ minted \in Nat /\ MaxKeys \in Nat /\ minted + 1 \in 1..MaxKeys
          /\ tokens \in Nat /\ MaxMails \in Nat /\ tokens' \in 0..MaxMails
          /\ tok \in 0..MaxMails /\ (req[r].op = "signup" => tok \in 1..MaxMails)
      BY <1>5, AcctBounds DEF AccountsIInv, AccountsTypeOK
    <2>3. who \in UserIds
      BY <1>1, <2>1 DEF ReqRow, UserIds
    <2> HIDE DEF who, tok
    <2>4. /\ row \in ReqRow /\ row.pc = "seed" /\ row.tenant = t /\ row.key = minted + 1
          /\ row.user = who /\ row.token = tok /\ row.email = req[r].email
          /\ row.op = req[r].op
      <3>1. minted + 1 \in 0..MaxKeys
        BY <2>2
      <3>2. row = [req[r] EXCEPT !.pc = "seed", !.tenant = t, !.key = minted + 1,
                                 !.user = who, !.token = tok]
        OBVIOUS
      <3> HIDE DEF row
      <3>3. PICK q \in ReqRow, k \in 0..MaxKeys, u \in UserIds, m \in 0..MaxMails :
               q = req[r] /\ k = minted + 1 /\ u = who /\ m = tok
        BY <1>1, <2>2, <2>3, <3>1
      <3>4. row = [q EXCEPT !.pc = "seed", !.tenant = t, !.key = k, !.user = u, !.token = m]
        BY <3>2, <3>3
      <3>5. [q EXCEPT !.pc = "seed"] \in ReqRow
        BY DEF ReqRow, SignupSteps
      <3>6. [q EXCEPT !.pc = "seed", !.tenant = t] \in ReqRow
        BY <2>1, <3>5 DEF ReqRow, SignupSteps
      <3>7. [q EXCEPT !.pc = "seed", !.tenant = t, !.key = k] \in ReqRow
        BY <3>6 DEF ReqRow, SignupSteps
      <3>8. [q EXCEPT !.pc = "seed", !.tenant = t, !.key = k, !.user = u] \in ReqRow
        BY <3>7 DEF ReqRow, SignupSteps
      <3>9. row \in ReqRow
        BY <3>4, <3>8 DEF ReqRow, SignupSteps
      <3>10. /\ row.pc = "seed" /\ row.tenant = t /\ row.key = k /\ row.user = u
             /\ row.token = m /\ row.email = q.email /\ row.op = q.op
        BY <3>4 DEF ReqRow
      <3> QED BY <3>3, <3>9, <3>10
    <2>5. req' = [req EXCEPT ![r] = row]
      <3>1. req \in [AReplicas -> ReqRow]
        BY DEF AccountsIInv, AccountsTypeOK, ReqRow
      <3> QED BY <1>1, <1>5, <3>1 DEF ReqRow, who, tok
    <2> HIDE DEF row
    <2>6. /\ req' \in [AReplicas -> ReqRow] /\ req'[r] = row
          /\ \A s \in AReplicas : s # r => req'[s] = req[s]
      BY <2>4, <2>5, OneRequestMoves
    <2>7. AccountsTypeOK'
      BY <1>1, <1>5, <2>2, <2>6 DEF AccountsIInv, AccountsTypeOK, ReqRow
    <2>8. OwnersInv' /\ InviteOveruse'
      BY <1>1, <2>4, <2>5, InviteKept DEF AccountsIInv, OwnersInv, RowsCarryOneKey, Has
    <2>9. ASSUME NEW s \in AReplicas PROVE NewTenantInv(s)' /\ ReqInv(s)'
      <3>1. CASE s = r
        <4>1. \A u \in UserIds : Has(u) => users[u].tenant # t
          <5>1. ASSUME NEW u \in UserIds, Has(u) PROVE users[u].tenant # t
            BY <2>1, <5>1, UserType DEF AccountsIInv, OwnersInv, RowsCarryOneKey, UserRow, KeyIds
          <5> QED BY <5>1
        <4>2. NewTenantInv(s)'
          BY <1>1, <2>1, <2>4, <2>6, <3>1, <4>1 DEF NewTenantInv, Has
        <4>3. who = OAuthUser \/ req[r].op # "oauth"
          BY <1>1, AcctBounds DEF who
        <4>4. ReqInv(s)'
          BY <1>1, <2>2, <2>3, <2>4, <2>6, <3>1, <4>3 DEF ReqInv, KeyIds
        <4> QED BY <4>2, <4>4
      <3>2. CASE s # r
        <4>1. ReqInv(s)'
          BY <1>1, <2>6, <3>2 DEF AccountsIInv, ReqInv, Has
        <4>2. NewTenantInv(s)'
          BY <1>1, <2>1, <2>4, <2>6, <3>2 DEF AccountsIInv, NewTenantInv, Has
        <4> QED BY <4>1, <4>2
      <3> QED BY <3>1, <3>2
    <2>10. ASSUME NEW u \in UserIds PROVE ToldInv(u)'
      BY <1>1, <1>3, <2>6 DEF AccountsIInv, ToldInv, Has, Owes
    <2> QED BY <1>2, <2>7, <2>8, <2>9, <2>10 DEF AccountsIInv
  <1> QED BY <1>4, <1>5 DEF CheckEmail

(* A request goes on to its next step.                                     *)
LEMMA StepRow ==
    ASSUME NEW q \in ReqRow, NEW p \in {"email", "insert", "mail", "count", "switch", "restore"}
    PROVE  /\ [q EXCEPT !.pc = p] \in ReqRow
           /\ [q EXCEPT !.pc = p].pc = p /\ [q EXCEPT !.pc = p].op = q.op
           /\ [q EXCEPT !.pc = p].email = q.email /\ [q EXCEPT !.pc = p].tenant = q.tenant
           /\ [q EXCEPT !.pc = p].user = q.user /\ [q EXCEPT !.pc = p].key = q.key
           /\ [q EXCEPT !.pc = p].token = q.token
  BY DEF ReqRow, SignupSteps

LEMMA RequestSteps ==
    ASSUME AccountsIInv, NEW r \in AReplicas,
           NEW p \in {"email", "insert", "mail", "count", "switch", "restore"},
           req' = [req EXCEPT ![r].pc = p]
    PROVE  \E row \in ReqRow :
              /\ req' = [req EXCEPT ![r] = row] /\ row.pc = p /\ row.op = req[r].op
              /\ row.email = req[r].email /\ row.tenant = req[r].tenant
              /\ row.user = req[r].user /\ row.key = req[r].key /\ row.token = req[r].token
  <1>1. PICK q \in ReqRow : q = req[r]
    BY RequestType DEF AccountsIInv
  <1>2. req' = [req EXCEPT ![r] = [q EXCEPT !.pc = p]]
    BY <1>1 DEF AccountsIInv, AccountsTypeOK
  <1>3. [q EXCEPT !.pc = p] \in ReqRow
    BY StepRow
  <1> WITNESS [q EXCEPT !.pc = p] \in ReqRow
  <1> QED BY <1>1, <1>2, StepRow

(* One key of a registry is written.                                       *)
RegistryType == [AReplicas -> [KeyIds -> Accts \cup {NoAcct}]]

LEMMA RegistryWrites ==
    ASSUME registry \in RegistryType, NEW r \in AReplicas, NEW k \in KeyIds,
           NEW t \in Accts \cup {NoAcct}, registry' = [registry EXCEPT ![r][k] = t]
    PROVE  /\ registry' \in RegistryType
           /\ \A s \in AReplicas, x \in KeyIds : registry'[s][x] \in {registry[s][x], t}
  <1>1. PICK f \in [KeyIds -> Accts \cup {NoAcct}] : f = [registry[r] EXCEPT ![k] = t]
    BY DEF RegistryType
  <1>2. \A x \in KeyIds : f[x] \in {registry[r][x], t}
    BY <1>1 DEF RegistryType
  <1>3. registry' = [registry EXCEPT ![r] = f]
    BY <1>1 DEF RegistryType
  <1> QED BY <1>2, <1>3 DEF RegistryType

LEMMA SeedTenantInv ==
    ASSUME AccountsIInv, NEW r \in AReplicas, SeedTenant(r)
    PROVE  AccountsIInv'
  <1> DEFINE t == req[r].tenant
             k == req[r].key
  <1>1. /\ req[r] \in ReqRow /\ req[r].pc = "seed" /\ t \in Accts /\ k \in KeyIds
        /\ tenantkey' = [tenantkey EXCEPT ![t] = k]
        /\ UNCHANGED <<users, invite, sessions, minted, tokens, mailed, handed, lost, begun,
                       acctfaults>>
    BY RequestType DEF AccountsIInv, SeedTenant, Serving, ReqInv, NewTenantInv
  <1>2. PICK row \in ReqRow :
              /\ req' = [req EXCEPT ![r] = row] /\ row.pc = "insert" /\ row.op = req[r].op
              /\ row.email = req[r].email /\ row.tenant = t /\ row.user = req[r].user
              /\ row.key = k /\ row.token = req[r].token
    BY RequestSteps DEF SeedTenant
  <1> HIDE DEF t, k
  <1>3. /\ req' \in [AReplicas -> ReqRow] /\ req'[r] = row
        /\ \A s \in AReplicas : s # r => req'[s] = req[s]
    BY <1>2, OneRequestMoves
  <1>4. /\ tenantkey \in [Accts -> 0..MaxKeys] /\ tenantkey' \in [Accts -> 0..MaxKeys]
        /\ tenantkey'[t] = k /\ k # 0 /\ \A x \in Accts : x # t => tenantkey'[x] = tenantkey[x]
    BY <1>1, AcctBounds DEF AccountsIInv, AccountsTypeOK, KeyIds
  <1>5. registry' = [registry EXCEPT ![r][k] = t] \/ registry' = registry
    BY DEF SeedTenant, t, k
  <1>6. /\ registry \in [AReplicas -> [KeyIds -> Accts \cup {NoAcct}]]
        /\ registry' \in [AReplicas -> [KeyIds -> Accts \cup {NoAcct}]]
        /\ \A s \in AReplicas, x \in KeyIds : registry'[s][x] \in {registry[s][x], t}
    BY <1>1, <1>5, RegistryWrites DEF AccountsIInv, AccountsTypeOK, RegistryType
  <1>7. AccountsTypeOK'
    BY <1>1, <1>3, <1>4, <1>6 DEF AccountsIInv, AccountsTypeOK, ReqRow
  <1>8. \A u \in UserIds : Has(u) => users[u].tenant \in Accts /\ users[u].tenant # t
    BY <1>1, UserType DEF AccountsIInv, NewTenantInv, UserRow, t
  <1>9. OwnersInv'
    BY <1>1, <1>4, <1>8 DEF AccountsIInv, OwnersInv, RowsCarryOneKey, Has
  <1>10. RegistryInv'
    BY <1>4, <1>6 DEF AccountsIInv, RegistryInv
  <1>11. InviteOveruse'
    BY <1>1, <1>2, InviteKept
  <1>12. ASSUME NEW s \in AReplicas PROVE NewTenantInv(s)' /\ ReqInv(s)'
    <2>1. CASE s = r
      <3>1. NewTenantInv(s)'
        BY <1>1, <1>2, <1>3, <1>4, <2>1 DEF AccountsIInv, NewTenantInv, Has, t
      <3>2. ReqInv(s)'
        BY <1>1, <1>2, <1>3, <2>1 DEF AccountsIInv, ReqInv, Has, k
      <3> QED BY <3>1, <3>2
    <2>2. CASE s # r
      <3>1. req'[s] = req[s] /\ req[s].tenant # t /\ req'[r].tenant = t
        BY <1>1, <1>2, <1>3, <2>2 DEF AccountsIInv, NewTenantInv, t
      <3>2. NewTenantInv(s)'
        BY <1>1, <1>3, <1>4, <2>2, <3>1 DEF AccountsIInv, NewTenantInv, Has
      <3>3. ReqInv(s)'
        BY <1>1, <1>4, <3>1 DEF AccountsIInv, ReqInv, Has
      <3> QED BY <3>2, <3>3
    <2> QED BY <2>1, <2>2
  <1>13. ASSUME NEW u \in UserIds PROVE ToldInv(u)'
    <2>1. ~Owes(r, u)
      BY <1>1 DEF AccountsIInv, ReqInv, Owes
    <2> QED BY <1>1, <1>3, <2>1 DEF AccountsIInv, ToldInv, Has, Owes
  <1> QED BY <1>7, <1>9, <1>10, <1>11, <1>12, <1>13 DEF AccountsIInv

LEMMA RowIsNotNoUser == NoUser \notin UserRow
  BY AcctBounds DEF NoUser, UserRow

LEMMA InsertUserInv ==
    ASSUME AccountsIInv, NEW r \in AReplicas, InsertUser(r)
    PROVE  AccountsIInv'
  <1>0. PICK t \in Accts, k \in KeyIds, w \in UserIds :
           t = req[r].tenant /\ k = req[r].key /\ w = req[r].user
    BY DEF AccountsIInv, InsertUser, Serving, ReqInv, NewTenantInv
  <1> DEFINE new == [email |-> req[r].email, tenant |-> t, key |-> k, verified |-> FALSE,
                     token |-> req[r].token]
             p == IF req[r].op = "signup" THEN "mail" ELSE "switch"
  <1>1. /\ req[r] \in ReqRow /\ req[r].pc = "insert" /\ t \in Accts /\ k \in KeyIds
        /\ w \in UserIds /\ req[r].email \in Emails /\ req[r].token \in 0..MaxMails
        /\ tenantkey[t] = k
        /\ UNCHANGED <<tenantkey, invite, registry, sessions, minted, tokens, mailed, handed,
                       lost, begun, acctfaults>>
    BY <1>0, RequestType DEF AccountsIInv, InsertUser, Serving, ReqInv, NewTenantInv, ReqRow
  <1>2. PICK row \in ReqRow :
              /\ req' = [req EXCEPT ![r] = row] /\ row.pc = p /\ row.op = req[r].op
              /\ row.email = req[r].email /\ row.tenant = t /\ row.user = w
              /\ row.key = k /\ row.token = req[r].token
    BY <1>0, RequestSteps DEF InsertUser
  <1>3. /\ req' \in [AReplicas -> ReqRow] /\ req'[r] = row
        /\ \A s \in AReplicas : s # r => req'[s] = req[s]
    BY <1>2, OneRequestMoves
  <1>4. new \in UserRow
    BY <1>1 DEF UserRow
  <1>5. PICK u1 \in UserRow :
           /\ users' = [users EXCEPT ![w] = u1]
           /\ Has(w) => u1.tenant = users[w].tenant /\ u1.key = users[w].key
                        /\ u1.verified = users[w].verified
           /\ ~Has(w) => u1 = new
    <2>1. CASE Has(w)
      <3>1. users[w] \in UserRow /\ users' = [users EXCEPT ![w] = [users[w] EXCEPT !.email = req[r].email]]
        BY <1>0, <1>1, <2>1, UserType DEF AccountsIInv, InsertUser, AccountsTypeOK
      <3>2. PICK o \in UserRow : o = users[w]
        BY <3>1
      <3>3. /\ [o EXCEPT !.email = req[r].email] \in UserRow
            /\ [o EXCEPT !.email = req[r].email].tenant = o.tenant
            /\ [o EXCEPT !.email = req[r].email].key = o.key
            /\ [o EXCEPT !.email = req[r].email].verified = o.verified
        BY <1>1 DEF UserRow
      <3> QED BY <2>1, <3>1, <3>2, <3>3
    <2>2. CASE ~Has(w)
      BY <1>0, <1>4, <2>2 DEF InsertUser
    <2> QED BY <2>1, <2>2
  <1>6. /\ users' \in [UserIds -> UserRow \cup {NoUser}] /\ users'[w] = u1
        /\ \A u \in UserIds : u # w => users'[u] = users[u]
    BY <1>1, <1>5 DEF AccountsIInv, AccountsTypeOK
  <1>7. new.tenant = t /\ new.key = k /\ new.verified = FALSE
    OBVIOUS
  <1>8. /\ \A u \in UserIds : Has(u) => users[u].tenant # t
        /\ \A s \in AReplicas : s # r => req[s].tenant # t
    BY <1>0, <1>1 DEF AccountsIInv, NewTenantInv
  <1> HIDE DEF new
  <1>9. /\ Has(w)' /\ \A u \in UserIds : u # w => (Has(u)' <=> Has(u))
        /\ \A u \in UserIds : Has(u) => /\ Has(u)' /\ users'[u].tenant = users[u].tenant
                                       /\ users'[u].key = users[u].key
                                       /\ users'[u].verified = users[u].verified
        /\ ~Has(w) => /\ users'[w].tenant = t /\ users'[w].key = k
                      /\ users'[w].verified = FALSE
    <2>1. Has(w)'
      BY <1>6, RowIsNotNoUser DEF Has
    <2>2. ASSUME NEW u \in UserIds, u # w PROVE users'[u] = users[u] /\ (Has(u)' <=> Has(u))
      BY <1>6, <2>2 DEF Has
    <2> QED BY <1>1, <1>5, <1>6, <1>7, <2>1, <2>2
  <1>10. AccountsTypeOK'
    BY <1>1, <1>3, <1>6 DEF AccountsIInv, AccountsTypeOK, ReqRow
  <1>11. OwnersInv'
    <2>1. RowsCarryOneKey'
      BY <1>1, <1>9 DEF AccountsIInv, OwnersInv, RowsCarryOneKey
    <2>2. ASSUME NEW u \in UserIds, NEW v \in UserIds, Has(u)', Has(v)',
                 users'[u].tenant = users'[v].tenant
          PROVE  u = v
      BY <1>1, <1>8, <1>9, <2>2 DEF AccountsIInv, OwnersInv
    <2> QED BY <2>1, <2>2 DEF OwnersInv
  <1>12. RegistryInv'
    BY <1>1 DEF AccountsIInv, RegistryInv
  <1>13. InviteOveruse'
    BY <1>1, <1>2, InviteKept
  <1>14. ASSUME NEW s \in AReplicas PROVE NewTenantInv(s)' /\ ReqInv(s)'
    <2>1. CASE s = r
      <3>1. NewTenantInv(s)'
        BY <1>2, <1>3, <2>1 DEF NewTenantInv
      <3>2. /\ req[r].op \in {"signup", "oauth"} /\ k # 0
            /\ (req[r].op = "signup" => req[r].token \in 1..MaxMails)
        BY <1>0, <1>1 DEF AccountsIInv, ReqInv, KeyIds
      <3>3. ReqInv(s)'
        BY <1>1, <1>2, <1>3, <2>1, <3>2 DEF ReqInv
      <3> QED BY <3>1, <3>3
    <2>2. CASE s # r
      <3>1. req'[s] = req[s] /\ req[s].tenant # t /\ req'[r].tenant = t
        BY <1>2, <1>3, <1>8, <2>2
      <3>2. NewTenantInv(s)'
        BY <1>1, <1>3, <1>9, <2>2, <3>1 DEF AccountsIInv, NewTenantInv
      <3>3. ReqInv(s)'
        BY <1>1, <1>9, <3>1 DEF AccountsIInv, ReqInv
      <3> QED BY <3>2, <3>3
    <2> QED BY <2>1, <2>2
  <1>15. ASSUME NEW u \in UserIds PROVE ToldInv(u)'
    <2>1. ~Owes(r, u)
      BY <1>1 DEF AccountsIInv, ReqInv, Owes
    <2>2. CASE Has(u)
      <3>1. \A s \in AReplicas : Owes(s, u) => Owes(s, u)'
        BY <1>3, <1>9, <2>1, <2>2 DEF Owes
      <3> QED BY <1>1, <1>9, <2>2, <3>1 DEF AccountsIInv, ToldInv
    <2>3. CASE ~Has(u)
      BY <1>9, <2>3 DEF ToldInv
    <2> QED BY <2>2, <2>3
  <1> QED BY <1>10, <1>11, <1>12, <1>13, <1>14, <1>15 DEF AccountsIInv

(* The handlers that are about to count a use are as many as the processes *)
(* at most.                                                                *)
Counting == {r \in AReplicas : Serving(r, "count")}

LEMMA CountingCount ==
    /\ IsFiniteSet(Counting) /\ Cardinality(Counting) \in Nat
    /\ Cardinality(AReplicas) \in Nat /\ Cardinality(Counting) <= Cardinality(AReplicas)
  BY AcctBounds, SubsetCount, Counting \subseteq AReplicas DEF Counting

LEMMA MailAndRevalidateInv ==
    ASSUME AccountsIInv, NEW r \in AReplicas, MailAndRevalidate(r)
    PROVE  AccountsIInv'
  <1>1. /\ req[r] \in ReqRow /\ req[r].pc = "mail" /\ req[r].op = "signup"
        /\ req[r].token \in 1..MaxMails /\ mailed' \subseteq 1..MaxMails
        /\ UNCHANGED <<users, tenantkey, invite, registry, sessions, minted, tokens, handed,
                       lost, begun, acctfaults>>
    <2>1. req[r] \in ReqRow /\ req[r].pc = "mail"
      BY RequestType DEF AccountsIInv, MailAndRevalidate, Serving
    <2>2. req[r].op = "signup" /\ req[r].token \in 1..MaxMails
      BY <2>1 DEF AccountsIInv, ReqInv
    <2> QED BY <2>1, <2>2 DEF AccountsIInv, AccountsTypeOK, MailAndRevalidate
  <1>2. RegistryInv'
    BY <1>1 DEF AccountsIInv, RegistryInv
  <1>3. ASSUME NEW u \in UserIds PROVE ~Owes(r, u)
    BY <1>1 DEF AccountsIInv, ReqInv, Owes
  <1>4. ASSUME NEW row \in ReqRow, req' = [req EXCEPT ![r] = row] PROVE AccountsTypeOK'
    BY <1>1, <1>4, OneRequestMoves DEF AccountsIInv, AccountsTypeOK, ReqRow
  <1>5. CASE InviteValid
    <2>1. PICK row \in ReqRow :
              /\ req' = [req EXCEPT ![r] = row] /\ row.pc = "count" /\ row.op = req[r].op
              /\ row.email = req[r].email /\ row.tenant = req[r].tenant
              /\ row.user = req[r].user /\ row.key = req[r].key /\ row.token = req[r].token
      <3>1. req' = [req EXCEPT ![r].pc = "count"]
        BY <1>5 DEF MailAndRevalidate
      <3> QED BY <3>1, RequestSteps
    <2>2. /\ req' \in [AReplicas -> ReqRow] /\ req'[r] = row
          /\ \A s \in AReplicas : s # r => req'[s] = req[s]
      BY <2>1, OneRequestMoves
    <2>3. OwnersInv'
      BY <1>1 DEF AccountsIInv, OwnersInv, RowsCarryOneKey, Has
    <2>4. InviteOveruse'
      <3>1. /\ Cardinality(Counting)' \in Nat /\ Cardinality(AReplicas) \in Nat
            /\ Cardinality(Counting)' <= Cardinality(AReplicas)
        <4>1. Counting' \subseteq AReplicas
          BY DEF Counting
        <4> QED BY <4>1, AcctBounds, SubsetCount
      <3>2. invite'.used = invite.used /\ invite.used < MaxUses /\ invite.used \in Nat /\ MaxUses \in Nat
        BY <1>1, <1>5, AcctBounds DEF InviteValid, AccountsIInv, AccountsTypeOK
      <3>3. invite'.used + Cardinality(Counting)' < MaxUses + Cardinality(AReplicas)
        BY <3>1, <3>2
      <3> QED BY <3>3 DEF InviteOveruse, Counting
    <2>5. ASSUME NEW s \in AReplicas PROVE NewTenantInv(s)' /\ ReqInv(s)'
      <3>1. CASE s = r
        BY <1>1, <2>1, <2>2, <3>1 DEF NewTenantInv, ReqInv
      <3>2. CASE s # r
        <4>1. ReqInv(s)'
          BY <1>1, <2>2, <3>2 DEF AccountsIInv, ReqInv, Has
        <4>2. NewTenantInv(s)'
          BY <1>1, <2>1, <2>2, <3>2 DEF AccountsIInv, NewTenantInv, Has
        <4> QED BY <4>1, <4>2
      <3> QED BY <3>1, <3>2
    <2>6. ASSUME NEW u \in UserIds PROVE ToldInv(u)'
      BY <1>1, <1>3, <2>2 DEF AccountsIInv, ToldInv, Has, Owes
    <2>7. AccountsTypeOK'
      BY <1>4, <2>1
    <2> QED BY <1>2, <2>3, <2>4, <2>5, <2>6, <2>7 DEF AccountsIInv
  <1>6. CASE ~InviteValid
    BY <1>1, <1>2, <1>3, <1>4, <1>6, IdlingRow, EndsInv DEF MailAndRevalidate
  <1> QED BY <1>5, <1>6

(* Whatever else holds of the requests survives a step that only lets one  *)
(* of them end and touches no table but the invite code's.                 *)
LEMMA CountUseInv ==
    ASSUME AccountsIInv, NEW r \in AReplicas, CountUse(r)
    PROVE  AccountsIInv'
  <1>1. /\ req[r] \in ReqRow /\ req[r].pc = "count" /\ req[r].op = "signup"
        /\ req' = [req EXCEPT ![r] = Idling]
        /\ UNCHANGED <<users, tenantkey, registry, sessions, minted, tokens, mailed, handed,
                       lost, begun, acctfaults>>
    BY RequestType DEF AccountsIInv, CountUse, Serving, ReqInv
  <1>2. /\ req' \in [AReplicas -> ReqRow] /\ req'[r] = Idling
        /\ \A s \in AReplicas : s # r => req'[s] = req[s]
    BY <1>1, IdlingRow, OneRequestMoves
  <1>3. Idling.pc = "idle" /\ Idling.tenant = NoAcct /\ Idling.op = "none"
    BY DEF Idling
  <1>4. invite.used \in Nat /\ invite' \in [used : Nat, active : BOOLEAN] /\ invite'.used = invite.used + 1
    BY DEF AccountsIInv, AccountsTypeOK, CountUse
  <1>5. AccountsTypeOK'
    BY <1>1, <1>2, <1>4 DEF AccountsIInv, AccountsTypeOK, ReqRow
  <1>6. OwnersInv' /\ RegistryInv'
    BY <1>1 DEF AccountsIInv, OwnersInv, RowsCarryOneKey, Has, RegistryInv
  <1>7. InviteOveruse'
    <2>1. Counting' = Counting \ {r} /\ r \in Counting
      BY <1>1, <1>2, <1>3 DEF Counting, Serving
    <2>2. Cardinality(Counting') + 1 = Cardinality(Counting) /\ Cardinality(Counting') \in Nat
      BY <2>1, CountingCount, DropOneCount
    <2>3. invite.used + Cardinality(Counting) < MaxUses + Cardinality(AReplicas)
      BY DEF AccountsIInv, InviteOveruse, Counting
    <2>4. invite'.used + Cardinality(Counting') < MaxUses + Cardinality(AReplicas)
      BY <1>4, <2>2, <2>3, AcctBounds, CountingCount
    <2> QED BY <2>4 DEF InviteOveruse, Counting
  <1>8. ASSUME NEW s \in AReplicas PROVE NewTenantInv(s)' /\ ReqInv(s)'
    <2>1. CASE s = r
      BY <1>2, <1>3, <2>1 DEF NewTenantInv, ReqInv
    <2>2. CASE s # r
      <3>1. ReqInv(s)'
        BY <1>1, <1>2, <2>2 DEF AccountsIInv, ReqInv, Has
      <3>2. NewTenantInv(s)'
        BY <1>1, <1>2, <1>3, <2>2, AcctBounds DEF AccountsIInv, NewTenantInv, Has
      <3> QED BY <3>1, <3>2
    <2> QED BY <2>1, <2>2
  <1>9. ASSUME NEW u \in UserIds PROVE ToldInv(u)'
    <2>1. ~Owes(r, u)
      BY <1>1 DEF Owes
    <2> QED BY <1>1, <1>2, <2>1 DEF AccountsIInv, ToldInv, Has, Owes
  <1> QED BY <1>5, <1>6, <1>7, <1>8, <1>9 DEF AccountsIInv

(* Nothing but the code's flag, the sessions or nothing at all changes.    *)
LEMMA AccountsRestInv ==
    ASSUME AccountsIInv,
           \/ UNCHANGED avars \/ Deactivate
           \/ \E r \in AReplicas, k \in KeyIds : Login(r, k)
           \/ \E r \in AReplicas, t \in Accts : SessionEnds(r, t)
    PROVE  AccountsIInv'
  <1>1. UNCHANGED <<users, tenantkey, registry, req, minted, tokens, mailed, handed, lost,
                    begun, acctfaults>>
    BY DEF avars, Deactivate, Login, SessionEnds
  <1>2. invite' \in [used : Nat, active : BOOLEAN] /\ invite'.used = invite.used
    BY DEF avars, Deactivate, Login, SessionEnds, AccountsIInv, AccountsTypeOK
  <1>3. ASSUME NEW r \in AReplicas, NEW k \in KeyIds
        PROVE LookupKey(r, k) \in Accts \cup {NoAcct}
    BY DEF LookupKey, TenantByKey, AccountsIInv, AccountsTypeOK
  <1>4. sessions' \in [AReplicas -> SUBSET Accts]
    <2>1. CASE UNCHANGED sessions
      BY <2>1 DEF AccountsIInv, AccountsTypeOK
    <2>2. ASSUME NEW r \in AReplicas, NEW k \in KeyIds, Login(r, k)
          PROVE  sessions' \in [AReplicas -> SUBSET Accts]
      <3>1. PICK t \in Accts : t = LookupKey(r, k)
        BY <1>3, <2>2 DEF Login
      <3>2. sessions' = [sessions EXCEPT ![r] = @ \cup {t}]
        BY <2>2, <3>1 DEF Login
      <3> QED BY <3>2 DEF AccountsIInv, AccountsTypeOK
    <2>3. ASSUME NEW r \in AReplicas, NEW t \in Accts, SessionEnds(r, t)
          PROVE  sessions' \in [AReplicas -> SUBSET Accts]
      BY <2>3 DEF SessionEnds, AccountsIInv, AccountsTypeOK
    <2> QED BY <2>1, <2>2, <2>3 DEF avars, Deactivate
  <1>5. AccountsTypeOK'
    BY <1>1, <1>2, <1>4 DEF AccountsIInv, AccountsTypeOK
  <1>6. OwnersInv' /\ RegistryInv' /\ InviteOveruse'
    BY <1>1, <1>2 DEF AccountsIInv, OwnersInv, RowsCarryOneKey, Has, RegistryInv, InviteOveruse,
                      Serving
  <1>7. ASSUME NEW s \in AReplicas PROVE NewTenantInv(s)' /\ ReqInv(s)'
    BY <1>1 DEF AccountsIInv, NewTenantInv, ReqInv, Has
  <1>8. ASSUME NEW u \in UserIds PROVE ToldInv(u)'
    BY <1>1 DEF AccountsIInv, ToldInv, Has, Owes
  <1> QED BY <1>5, <1>6, <1>7, <1>8 DEF AccountsIInv

LEMMA ShowKeyInv ==
    ASSUME AccountsIInv, NEW r \in AReplicas, ShowKey(r)
    PROVE  AccountsIInv'
  <1>1. PICK t \in Accts, k \in KeyIds : t = req[r].tenant /\ k = req[r].key
    BY DEF AccountsIInv, ShowKey, Serving, ReqInv
  <1>2. /\ req[r].pc = "switch" /\ req' = [req EXCEPT ![r] = Idling] /\ tenantkey[t] # 0
        /\ handed' = handed \cup {k} /\ registry' = [registry EXCEPT ![r][k] = t]
        /\ UNCHANGED <<users, tenantkey, invite, minted, tokens, mailed, lost, begun, acctfaults>>
    BY <1>1 DEF AccountsIInv, ShowKey, Serving, ReqInv
  <1>3. /\ registry' \in RegistryType
        /\ \A s \in AReplicas, x \in KeyIds : registry'[s][x] \in {registry[s][x], t}
    BY <1>2, RegistryWrites DEF AccountsIInv, AccountsTypeOK, RegistryType
  <1>4. RegistryInv'
    BY <1>2, <1>3 DEF AccountsIInv, RegistryInv
  <1>5. sessions' \in [AReplicas -> SUBSET Accts]
    BY <1>1 DEF ShowKey, AccountsIInv, AccountsTypeOK
  <1>6. AccountsTypeOK'
    BY <1>2, <1>3, <1>5, IdlingRow, OneRequestMoves
    DEF AccountsIInv, AccountsTypeOK, ReqRow, RegistryType
  <1>7. ASSUME NEW u \in UserIds, Owes(r, u) PROVE users[u].key \in handed'
    BY <1>1, <1>2, <1>7 DEF Owes
  <1> QED BY <1>2, <1>4, <1>6, <1>7, EndsInv

(* Whoever was owed a key by a handler that is cut off is remembered.      *)
LEMMA CutOffInv ==
    ASSUME AccountsIInv, NEW r \in AReplicas, req' = [req EXCEPT ![r] = Idling],
           acctfaults < MaxAcctFaults, acctfaults' = acctfaults + 1, lost' = Forgotten(r),
           registry' \in RegistryType, sessions' \in [AReplicas -> SUBSET Accts],
           \A s \in AReplicas, x \in KeyIds : registry'[s][x] \in {registry[s][x], NoAcct},
           UNCHANGED <<users, tenantkey, invite, minted, tokens, mailed, handed, begun>>
    PROVE  AccountsIInv'
  <1>1. lost \subseteq lost' /\ lost' \subseteq UserIds
    <2>1. HalfWay(r) => req[r].user \in UserIds
      BY DEF AccountsIInv, HalfWay, Serving, ReqInv
    <2> QED BY <2>1 DEF Forgotten, AccountsIInv, AccountsTypeOK
  <1>2. RegistryInv'
    BY DEF AccountsIInv, RegistryInv
  <1>3. AccountsTypeOK'
    <2>1. acctfaults' \in 0..MaxAcctFaults
      BY AcctBounds DEF AccountsIInv, AccountsTypeOK
    <2>2. req' \in [AReplicas -> ReqRow]
      BY IdlingRow, OneRequestMoves
    <2> QED BY <1>1, <2>1, <2>2 DEF AccountsIInv, AccountsTypeOK, ReqRow, RegistryType
  <1>4. ASSUME NEW u \in UserIds, Owes(r, u) PROVE u \in lost'
    BY <1>4, OwesIsHalfWay DEF Forgotten
  <1> QED BY <1>1, <1>2, <1>3, <1>4, EndsInv

LEMMA CallFailsInv ==
    ASSUME AccountsIInv, NEW r \in AReplicas, CallFails(r)
    PROVE  AccountsIInv'
  <1>1. /\ acctfaults < MaxAcctFaults /\ acctfaults' = acctfaults + 1
        /\ UNCHANGED <<users, tenantkey, invite, registry, sessions, minted, tokens, mailed,
                       handed, begun>>
    BY DEF CallFails
  <1>2. CASE req[r].op = "verify" /\ Serving(r, "rotate")
    <2>1. req[r].pc = "rotate" /\ req' = [req EXCEPT ![r].pc = "restore"] /\ lost' = lost
      BY <1>2 DEF CallFails, Serving
    <2>2. PICK row \in ReqRow :
              /\ req' = [req EXCEPT ![r] = row] /\ row.pc = "restore" /\ row.op = req[r].op
              /\ row.email = req[r].email /\ row.tenant = req[r].tenant
              /\ row.user = req[r].user /\ row.key = req[r].key /\ row.token = req[r].token
      BY <2>1, RequestSteps
    <2>3. /\ req' \in [AReplicas -> ReqRow] /\ req'[r] = row
          /\ \A s \in AReplicas : s # r => req'[s] = req[s]
      BY <2>2, OneRequestMoves
    <2>4. AccountsTypeOK'
      BY <1>1, <2>1, <2>3, AcctBounds DEF AccountsIInv, AccountsTypeOK, ReqRow
    <2>5. RegistryInv'
      BY <1>1 DEF AccountsIInv, RegistryInv
    <2>6. ReqInv(r)'
      BY <1>1, <1>2, <2>1, <2>2, <2>3 DEF AccountsIInv, ReqInv, Has
    <2>7. ASSUME NEW u \in UserIds, Owes(r, u) PROVE Owes(r, u)'
      BY <1>2, <2>1, <2>2, <2>3, <2>7 DEF Owes
    <2> QED BY <1>1, <2>1, <2>2, <2>4, <2>5, <2>6, <2>7, RequestMovesInv
  <1>3. CASE ~(req[r].op = "verify" /\ Serving(r, "rotate"))
    <2>1. req' = [req EXCEPT ![r] = Idling] /\ lost' = Forgotten(r)
      BY <1>3 DEF CallFails
    <2>2. /\ registry' \in RegistryType /\ sessions' \in [AReplicas -> SUBSET Accts]
          /\ \A s \in AReplicas, x \in KeyIds : registry'[s][x] \in {registry[s][x], NoAcct}
      BY <1>1 DEF AccountsIInv, AccountsTypeOK, RegistryType
    <2> QED BY <1>1, <2>1, <2>2, CutOffInv
  <1> QED BY <1>2, <1>3

LEMMA ProcessRestartsInv ==
    ASSUME AccountsIInv, NEW r \in AReplicas, ProcessRestarts(r)
    PROVE  AccountsIInv'
  <1>1. /\ registry' \in RegistryType /\ sessions' \in [AReplicas -> SUBSET Accts]
        /\ \A s \in AReplicas, x \in KeyIds : registry'[s][x] \in {registry[s][x], NoAcct}
    BY DEF ProcessRestarts, AccountsIInv, AccountsTypeOK, RegistryType
  <1> QED BY <1>1, CutOffInv DEF ProcessRestarts

(* One users row changes and keeps its tenant and its key.                 *)
LEMMA UserChangesInv ==
    ASSUME AccountsIInv, NEW r \in AReplicas, NEW row \in ReqRow, NEW w \in UserIds, Has(w),
           NEW u1 \in UserRow, users' = [users EXCEPT ![w] = u1],
           u1.tenant = users[w].tenant, u1.key = users[w].key,
           req' = [req EXCEPT ![r] = row], ReqInv(r)', AccountsTypeOK',
           UNCHANGED <<tenantkey, registry, invite, handed, lost>>,
           row.pc \notin {"seed", "insert", "count"},
           row.tenant \in {NoAcct, users[w].tenant},
           \A u \in UserIds : u # w => ~Owes(r, u),
           u1.verified => Owes(r, w)' \/ (users[w].verified /\ ~Owes(r, w))
    PROVE  AccountsIInv'
  <1>1. /\ req' \in [AReplicas -> ReqRow] /\ req'[r] = row
        /\ \A s \in AReplicas : s # r => req'[s] = req[s]
    BY OneRequestMoves
  <1>2. users'[w] = u1 /\ \A u \in UserIds : u # w => users'[u] = users[u]
    BY DEF AccountsIInv, AccountsTypeOK
  <1>3. \A u \in UserIds : /\ Has(u)' <=> Has(u)
                           /\ users'[u].tenant = users[u].tenant /\ users'[u].key = users[u].key
    BY <1>2, RowIsNotNoUser DEF Has
  <1>4. OwnersInv' /\ RegistryInv'
    BY <1>3 DEF AccountsIInv, OwnersInv, RowsCarryOneKey, RegistryInv
  <1>5. InviteOveruse'
    BY InviteKept
  <1>6. ASSUME NEW s \in AReplicas PROVE NewTenantInv(s)' /\ ReqInv(s)'
    <2>1. CASE s = r
      BY <1>1, <2>1 DEF NewTenantInv
    <2>2. CASE s # r
      <3>1. req'[s] = req[s]
        BY <1>1, <2>2
      <3>2. ReqInv(s)'
        BY <1>3, <3>1 DEF AccountsIInv, ReqInv
      <3>3. NewTenantInv(s)'
        BY <1>1, <1>3, <2>2, <3>1, AcctBounds DEF AccountsIInv, NewTenantInv
      <3> QED BY <3>2, <3>3
    <2> QED BY <2>1, <2>2
  <1>7. ASSUME NEW u \in UserIds PROVE ToldInv(u)'
    <2>1. \A s \in AReplicas : s # r /\ Owes(s, u) => Owes(s, u)'
      BY <1>1, <1>3 DEF Owes
    <2>2. CASE u # w
      BY <1>2, <1>3, <2>1, <2>2 DEF AccountsIInv, ToldInv
    <2>3. CASE u = w
      BY <1>2, <1>3, <2>1, <2>3 DEF AccountsIInv, ToldInv
    <2> QED BY <2>2, <2>3
  <1> QED BY <1>4, <1>5, <1>6, <1>7 DEF AccountsIInv

LEMMA BurnTokenInv ==
    ASSUME AccountsIInv, NEW r \in AReplicas, NEW tok \in 1..MaxMails, BurnToken(r, tok)
    PROVE  AccountsIInv'
  <1>1. PICK u \in UserIds :
           /\ users[u].token = tok /\ ~users[u].verified
           /\ users' = [users EXCEPT ![u].verified = TRUE, ![u].token = 0]
           /\ req' = [req EXCEPT ![r] = [Idling EXCEPT !.pc = "rotate", !.op = "verify",
                              !.user = u, !.tenant = users[u].tenant, !.token = tok]]
    BY DEF BurnToken
  <1>2. /\ req[r].pc = "idle" /\ begun' \in 0..MaxRequests
        /\ UNCHANGED <<tenantkey, invite, registry, sessions, minted, tokens, mailed,
                       handed, lost, acctfaults>>
    BY AcctBounds DEF BurnToken, Begins, Serving, AccountsIInv, AccountsTypeOK
  <1>3. Has(u) /\ users[u] \in UserRow
    <2>1. tok # 0
      OBVIOUS
    <2>2. Has(u)
      BY <1>1, <2>1 DEF Has, NoUser
    <2> QED BY <2>2, UserType DEF AccountsIInv
  <1>4. PICK o \in UserRow : o = users[u]
    BY <1>3
  <1> DEFINE u1 == [o EXCEPT !.verified = TRUE, !.token = 0]
             row == [Idling EXCEPT !.pc = "rotate", !.op = "verify",
                              !.user = u, !.tenant = o.tenant, !.token = tok]
  <1>5. u1 \in UserRow /\ u1.tenant = o.tenant /\ u1.key = o.key /\ u1.verified
    <2>1. 0 \in 0..MaxMails
      BY AcctBounds
    <2>2. [o EXCEPT !.verified = TRUE] \in UserRow
      BY DEF UserRow
    <2>3. u1 \in UserRow
      BY <2>1, <2>2 DEF UserRow
    <2> QED BY <2>3 DEF UserRow
  <1>6. /\ row \in ReqRow /\ row.pc = "rotate" /\ row.op = "verify" /\ row.user = u
        /\ row.tenant = o.tenant
    <2>1. o.tenant \in Accts
      BY DEF UserRow
    <2>2. [Idling EXCEPT !.pc = "rotate", !.op = "verify"] \in ReqRow
      BY IdlingRow DEF ReqRow
    <2>3. [Idling EXCEPT !.pc = "rotate", !.op = "verify", !.user = u] \in ReqRow
      BY <2>2 DEF ReqRow
    <2>4. [Idling EXCEPT !.pc = "rotate", !.op = "verify", !.user = u, !.tenant = o.tenant]
             \in ReqRow
      BY <2>1, <2>3 DEF ReqRow
    <2>5. PICK q \in ReqRow, m \in 0..MaxMails :
             /\ q = [Idling EXCEPT !.pc = "rotate", !.op = "verify", !.user = u,
                                   !.tenant = o.tenant]
             /\ m = tok
      BY <2>4
    <2>6. row = [q EXCEPT !.token = m] /\ [q EXCEPT !.token = m] \in ReqRow
      BY <2>5 DEF ReqRow
    <2> QED BY <2>6, IdlingRow DEF ReqRow
  <1>7. users' = [users EXCEPT ![u] = u1] /\ req' = [req EXCEPT ![r] = row]
    BY <1>1, <1>4 DEF AccountsIInv, AccountsTypeOK
  <1> HIDE DEF u1, row
  <1>8. /\ req' \in [AReplicas -> ReqRow] /\ req'[r] = row
        /\ \A s \in AReplicas : s # r => req'[s] = req[s]
    BY <1>6, <1>7, OneRequestMoves
  <1>9. users' \in [UserIds -> UserRow \cup {NoUser}] /\ users'[u] = u1
    BY <1>5, <1>7 DEF AccountsIInv, AccountsTypeOK
  <1>10. AccountsTypeOK'
    BY <1>2, <1>8, <1>9 DEF AccountsIInv, AccountsTypeOK, ReqRow
  <1>11. ReqInv(r)'
    <2>1. Has(u)'
      BY <1>5, <1>9, RowIsNotNoUser DEF Has
    <2> QED BY <1>5, <1>6, <1>8, <1>9, <2>1 DEF ReqInv
  <1>12. \A v \in UserIds : ~Owes(r, v)
    BY <1>2 DEF AccountsIInv, ReqInv, Owes
  <1>13. Owes(r, u)'
    BY <1>6, <1>8 DEF Owes
  <1> QED BY <1>2, <1>3, <1>4, <1>5, <1>6, <1>7, <1>10, <1>11, <1>12, <1>13, UserChangesInv

LEMMA RestoreTokenInv ==
    ASSUME AccountsIInv, NEW r \in AReplicas, RestoreToken(r)
    PROVE  AccountsIInv'
  <1>1. PICK w \in UserIds : w = req[r].user
    BY DEF AccountsIInv, RestoreToken, Serving, ReqInv
  <1>2. /\ Has(w) /\ req[r] \in ReqRow /\ req' = [req EXCEPT ![r] = Idling]
        /\ users' = [users EXCEPT ![w] = RestoredRow(@, req[r].token)]
        /\ UNCHANGED <<tenantkey, invite, registry, sessions, minted, tokens, mailed,
                       handed, lost, begun, acctfaults>>
    BY <1>1, RequestType DEF AccountsIInv, RestoreToken, Serving, ReqInv
  <1>3. PICK o \in UserRow, m \in 0..MaxMails : o = users[w] /\ m = req[r].token
    BY <1>2, UserType DEF AccountsIInv, ReqRow
  <1> DEFINE u1 == [o EXCEPT !.verified = FALSE, !.token = m]
  <1>4. u1 \in UserRow /\ u1.tenant = o.tenant /\ u1.key = o.key /\ u1.verified = FALSE
    <2>1. [o EXCEPT !.verified = FALSE] \in UserRow
      BY DEF UserRow
    <2>2. u1 \in UserRow
      BY <2>1 DEF UserRow
    <2> QED BY <2>2 DEF UserRow
  <1>5. users' = [users EXCEPT ![w] = u1]
    BY <1>2, <1>3 DEF AccountsIInv, AccountsTypeOK, RestoredRow
  <1> HIDE DEF u1
  <1>6. users' \in [UserIds -> UserRow \cup {NoUser}]
    BY <1>4, <1>5 DEF AccountsIInv, AccountsTypeOK
  <1>7. AccountsTypeOK'
    BY <1>2, <1>6, IdlingRow, OneRequestMoves DEF AccountsIInv, AccountsTypeOK, ReqRow
  <1>8. Idling.pc = "idle" /\ Idling.tenant = NoAcct /\ Idling.op = "none"
    BY DEF Idling
  <1>9. ReqInv(r)'
    BY <1>2, <1>8, IdlingRow, OneRequestMoves DEF ReqInv
  <1>10. \A u \in UserIds : u # w => ~Owes(r, u)
    BY <1>1 DEF Owes
  <1> QED BY <1>2, <1>3, <1>4, <1>5, <1>7, <1>8, <1>9, <1>10, IdlingRow, UserChangesInv

LEMMA NewTokenInv ==
    ASSUME AccountsIInv, NEW r \in AReplicas, NewToken(r)
    PROVE  AccountsIInv'
  <1>1. PICK w \in UserIds : w = req[r].user
    BY DEF AccountsIInv, NewToken, Serving, ReqInv
  <1>2. /\ Has(w) /\ req[r].pc = "token" /\ req' = [req EXCEPT ![r] = Idling]
        /\ users' = [users EXCEPT ![w].token = tokens + 1] /\ tokens' = tokens + 1
        /\ mailed' \in {mailed, mailed \cup {tokens + 1}}
        /\ UNCHANGED <<tenantkey, invite, registry, sessions, minted, handed, lost, begun,
                       acctfaults>>
    BY <1>1 DEF AccountsIInv, NewToken, Serving, ReqInv
  <1>3. tokens + 1 \in 1..MaxMails /\ tokens + 1 \in 0..MaxMails
    BY AcctBounds DEF AccountsIInv, AccountsTypeOK, NewToken
  <1>4. PICK o \in UserRow, m \in 0..MaxMails : o = users[w] /\ m = tokens + 1
    BY <1>2, <1>3, UserType DEF AccountsIInv
  <1> DEFINE u1 == [o EXCEPT !.token = m]
  <1>5. u1 \in UserRow /\ u1.tenant = o.tenant /\ u1.key = o.key /\ u1.verified = o.verified
    BY DEF UserRow
  <1>6. users' = [users EXCEPT ![w] = u1]
    BY <1>2, <1>4 DEF AccountsIInv, AccountsTypeOK
  <1> HIDE DEF u1
  <1>7. users' \in [UserIds -> UserRow \cup {NoUser}]
    BY <1>5, <1>6 DEF AccountsIInv, AccountsTypeOK
  <1>8. AccountsTypeOK'
    <2>1. mailed' \subseteq 1..MaxMails
      BY <1>2, <1>3 DEF AccountsIInv, AccountsTypeOK
    <2>2. tokens' \in 0..MaxMails
      BY <1>2, <1>3
    <2> QED BY <1>2, <1>7, <2>1, <2>2, IdlingRow, OneRequestMoves
            DEF AccountsIInv, AccountsTypeOK, ReqRow
  <1>9. Idling.pc = "idle" /\ Idling.tenant = NoAcct /\ Idling.op = "none"
    BY DEF Idling
  <1>10. ReqInv(r)'
    BY <1>2, <1>9, IdlingRow, OneRequestMoves DEF ReqInv
  <1>11. \A u \in UserIds : ~Owes(r, u)
    BY <1>2 DEF AccountsIInv, ReqInv, Owes
  <1> QED BY <1>2, <1>4, <1>5, <1>6, <1>8, <1>9, <1>10, <1>11, IdlingRow, UserChangesInv

LEMMA RotateKeyInv ==
    ASSUME AccountsIInv, NEW r \in AReplicas, RotateKey(r)
    PROVE  AccountsIInv'
  <1>0. req[r].pc = "rotate" /\ req[r] \in ReqRow
    BY RequestType DEF AccountsIInv, RotateKey, Serving
  <1>1. PICK w \in UserIds, n \in KeyIds : w = req[r].user /\ n = minted + 1
    BY <1>0, AcctBounds DEF AccountsIInv, AccountsTypeOK, RotateKey, ReqInv, KeyIds
  <1>2. Has(w) /\ req[r].tenant = users[w].tenant /\ req[r].op \in {"verify", "account", "script"}
    BY <1>0, <1>1 DEF AccountsIInv, ReqInv
  <1>3. PICK o \in UserRow, t \in Accts, k \in KeyIds :
           o = users[w] /\ t = o.tenant /\ k = o.key /\ t = req[r].tenant
    BY <1>2, UserType DEF AccountsIInv, UserRow
  <1>4. /\ minted' = n /\ users' = [users EXCEPT ![w].key = n]
        /\ tenantkey' = [tenantkey EXCEPT ![t] = n]
        /\ registry' = registry \/ registry' = [registry EXCEPT ![r][k] = NoAcct]
        /\ handed' = IF req[r].op = "script" THEN handed \cup {n} ELSE handed
        /\ req' = [req EXCEPT ![r] = IF req[r].op = "script" THEN Idling
                                ELSE [req[r] EXCEPT !.pc = "switch", !.key = n]]
        /\ UNCHANGED <<invite, sessions, tokens, mailed, lost, begun, acctfaults>>
    BY <1>1, <1>3 DEF RotateKey
  <1>5. PICK row \in ReqRow :
           /\ req' = [req EXCEPT ![r] = row]
           /\ req[r].op = "script" => row = Idling
           /\ req[r].op # "script" =>
                 /\ row.pc = "switch" /\ row.op = req[r].op /\ row.user = w
                 /\ row.tenant = t /\ row.key = n
    <2>1. CASE req[r].op = "script"
      BY <1>4, <2>1, IdlingRow
    <2>2. CASE req[r].op # "script"
      <3>1. PICK q \in ReqRow : q = req[r]
        BY <1>0
      <3>2. [q EXCEPT !.pc = "switch"] \in ReqRow /\ n \in 0..MaxKeys
        <4>1. n \in 0..MaxKeys
          BY DEF KeyIds
        <4> QED BY <4>1, StepRow
      <3>3. [q EXCEPT !.pc = "switch", !.key = n] \in ReqRow
        BY <3>2 DEF ReqRow
      <3>4. /\ [q EXCEPT !.pc = "switch", !.key = n].pc = "switch"
            /\ [q EXCEPT !.pc = "switch", !.key = n].key = n
            /\ [q EXCEPT !.pc = "switch", !.key = n].op = q.op
            /\ [q EXCEPT !.pc = "switch", !.key = n].user = q.user
            /\ [q EXCEPT !.pc = "switch", !.key = n].tenant = q.tenant
        BY <3>2 DEF ReqRow
      <3> QED BY <1>1, <1>3, <1>4, <2>2, <3>1, <3>3, <3>4
    <2> QED BY <2>1, <2>2
  <1>6. /\ req' \in [AReplicas -> ReqRow] /\ req'[r] = row
        /\ \A s \in AReplicas : s # r => req'[s] = req[s]
    BY <1>5, OneRequestMoves
  <1>7. PICK u1 \in UserRow :
           /\ users' = [users EXCEPT ![w] = u1]
           /\ u1.tenant = t /\ u1.key = n /\ u1.verified = o.verified
    <2>1. /\ [o EXCEPT !.key = n] \in UserRow /\ [o EXCEPT !.key = n].tenant = o.tenant
          /\ [o EXCEPT !.key = n].key = n /\ [o EXCEPT !.key = n].verified = o.verified
      BY DEF UserRow
    <2>2. users' = [users EXCEPT ![w] = [o EXCEPT !.key = n]]
      BY <1>3, <1>4 DEF AccountsIInv, AccountsTypeOK
    <2> QED BY <1>3, <2>1, <2>2
  <1>8. /\ users' \in [UserIds -> UserRow \cup {NoUser}] /\ users'[w] = u1
        /\ \A u \in UserIds : u # w => users'[u] = users[u]
    BY <1>7 DEF AccountsIInv, AccountsTypeOK
  <1>9. /\ tenantkey' \in [Accts -> 0..MaxKeys] /\ tenantkey'[t] = n /\ n # 0
        /\ \A x \in Accts : x # t => tenantkey'[x] = tenantkey[x]
    BY <1>4, AcctBounds DEF AccountsIInv, AccountsTypeOK, KeyIds
  <1>10. /\ registry \in RegistryType /\ registry' \in RegistryType
         /\ \A s \in AReplicas, x \in KeyIds : registry'[s][x] \in {registry[s][x], NoAcct}
    BY <1>4, RegistryWrites DEF AccountsIInv, AccountsTypeOK, RegistryType
  <1>11. AccountsTypeOK'
    <2>1. minted' \in 0..MaxKeys /\ handed' \subseteq KeyIds
      BY <1>4, AcctBounds DEF AccountsIInv, AccountsTypeOK, KeyIds
    <2> QED BY <1>4, <1>6, <1>8, <1>9, <1>10, <2>1
            DEF AccountsIInv, AccountsTypeOK, ReqRow, RegistryType
  <1>12. \A u \in UserIds : /\ Has(u)' <=> Has(u)
                            /\ Has(u) => /\ users[u].tenant \in Accts
                                         /\ users'[u].tenant = users[u].tenant
                                         /\ u # w => users[u].tenant # t
    BY <1>2, <1>3, <1>7, <1>8, RowIsNotNoUser, UserType DEF Has, AccountsIInv, OwnersInv, UserRow
  <1>13. OwnersInv'
    <2>1. RowsCarryOneKey'
      BY <1>7, <1>8, <1>9, <1>12 DEF AccountsIInv, OwnersInv, RowsCarryOneKey
    <2> QED BY <1>12, <2>1 DEF AccountsIInv, OwnersInv
  <1>14. RegistryInv'
    <2>1. ASSUME NEW s \in AReplicas, NEW x \in KeyIds, registry'[s][x] # NoAcct
          PROVE  tenantkey'[registry'[s][x]] # 0
      <3>1. registry'[s][x] = registry[s][x] /\ registry[s][x] \in Accts
        BY <1>10, <2>1 DEF RegistryType
      <3> QED BY <1>9, <2>1, <3>1 DEF AccountsIInv, RegistryInv
    <2> QED BY <2>1 DEF RegistryInv
  <1>15. Idling.pc = "idle" /\ Idling.tenant = NoAcct /\ Idling.op = "none"
    BY DEF Idling
  <1>16. InviteOveruse'
    BY <1>2, <1>4, <1>5, <1>15, InviteKept
  <1>17. ASSUME NEW s \in AReplicas PROVE NewTenantInv(s)' /\ ReqInv(s)'
    <2>1. CASE s = r
      <3>1. CASE req[r].op = "script"
        BY <1>5, <1>6, <1>15, <2>1, <3>1 DEF NewTenantInv, ReqInv
      <3>2. CASE req[r].op # "script"
        BY <1>2, <1>5, <1>6, <1>9, <2>1, <3>2 DEF NewTenantInv, ReqInv
      <3> QED BY <3>1, <3>2
    <2>2. CASE s # r
      <3>1. req'[s] = req[s] /\ row.tenant \in {t, NoAcct}
        BY <1>5, <1>6, <1>15, <2>2
      <3>2. ReqInv(s)'
        BY <1>9, <1>12, <3>1 DEF AccountsIInv, ReqInv
      <3>3. NewTenantInv(s)'
        BY <1>2, <1>3, <1>6, <1>9, <1>12, <2>2, <3>1, AcctBounds DEF AccountsIInv, NewTenantInv
      <3> QED BY <3>2, <3>3
    <2> QED BY <2>1, <2>2
  <1>18. ASSUME NEW u \in UserIds PROVE ToldInv(u)'
    <2>1. CASE u = w
      <3>1. CASE req[r].op = "script"
        BY <1>4, <1>7, <1>8, <2>1, <3>1 DEF ToldInv
      <3>2. CASE req[r].op # "script"
        <4>1. Owes(r, u)'
          BY <1>5, <1>6, <1>7, <1>8, <2>1, <3>2 DEF Owes
        <4> QED BY <4>1 DEF ToldInv
      <3> QED BY <3>1, <3>2
    <2>2. CASE u # w
      <3>1. \A s \in AReplicas : Owes(s, u) => s # r /\ Owes(s, u)'
        BY <1>1, <1>6, <1>8, <2>2 DEF Owes
      <3>2. handed \subseteq handed'
        BY <1>4
      <3> QED BY <1>4, <1>8, <1>12, <2>2, <3>1, <3>2 DEF AccountsIInv, ToldInv
    <2> QED BY <2>1, <2>2
  <1> QED BY <1>11, <1>13, <1>14, <1>16, <1>17, <1>18 DEF AccountsIInv

LEMMA AccountsNextInv == AccountsIInv /\ [AccountsNext]_avars => AccountsIInv'
  <1> SUFFICES ASSUME AccountsIInv, [AccountsNext]_avars PROVE AccountsIInv'
    OBVIOUS
  <1>1. CASE \/ UNCHANGED avars \/ Deactivate
             \/ \E r \in AReplicas, k \in KeyIds : Login(r, k)
             \/ \E r \in AReplicas, t \in Accts : SessionEnds(r, t)
    BY <1>1, AccountsRestInv
  <1>2. ASSUME NEW r \in AReplicas,
               \/ \E e \in Emails : SignupBegins(r, e) \/ OAuthBegins(r, e)
               \/ CheckInvite(r) \/ CheckEmail(r) \/ SeedTenant(r) \/ InsertUser(r)
               \/ MailAndRevalidate(r) \/ CountUse(r)
        PROVE  AccountsIInv'
    BY <1>2, SignupBeginsInv, CheckInviteInv, CheckEmailInv, SeedTenantInv, InsertUserInv,
       MailAndRevalidateInv, CountUseInv
  <1>3. ASSUME NEW r \in AReplicas,
               \/ \E tok \in 1..MaxMails : BurnToken(r, tok)
               \/ RestoreToken(r) \/ NewToken(r)
               \/ \E u \in UserIds : ResendBegins(r, u) \/ RotateBegins(r, u) \/ ScriptBegins(r, u)
               \/ RotateKey(r) \/ ShowKey(r) \/ CallFails(r) \/ ProcessRestarts(r)
        PROVE  AccountsIInv'
    BY <1>3, BurnTokenInv, RestoreTokenInv, NewTokenInv, UserBeginsInv, RotateKeyInv,
       ShowKeyInv, CallFailsInv, ProcessRestartsInv
  <1> QED BY <1>1, <1>2, <1>3 DEF AccountsNext

LEMMA AccountsIsSafe == AccountsIInv => AccountsInv
  <1> SUFFICES ASSUME AccountsIInv PROVE AccountsInv
    OBVIOUS
  <1>1. RotatedKeyIsDead
    <2> SUFFICES ASSUME NEW r \in AReplicas, NEW k \in KeyIds, LookupKey(r, k) # NoAcct
                 PROVE  tenantkey[LookupKey(r, k)] = k
      BY DEF RotatedKeyIsDead
    <2>1. LookupKey(r, k) = TenantByKey(k)
      BY DEF LookupKey, AccountsIInv, RegistryInv
    <2>2. \E t \in Accts : tenantkey[t] = k
      BY <2>1 DEF TenantByKey
    <2> QED BY <2>1, <2>2 DEF TenantByKey
  <1>2. VerifiedHasKey
    <2> SUFFICES ASSUME NEW u \in UserIds, Has(u), users[u].verified
                 PROVE  \/ users[u].key \in handed \/ u \in lost
                        \/ \E r \in AReplicas : req[r].user = u /\ HalfWay(r)
      BY DEF VerifiedHasKey, Verified
    <2> QED BY OwesIsHalfWay DEF AccountsIInv, ToldInv
  <1> QED BY <1>1, <1>2 DEF AccountsIInv, OwnersInv, AccountsInv

-----------------------------------------------------------------------------
(* Support desk.  The version of an identity only grows, and a session or  *)
(* a login under way holds an older or the current one; after a revocation *)
(* an older one.  What an agent is about to write is legal for the status  *)
(* it read.                                                                *)
SessionInv(a) ==
    /\ identity[a].version <= cuts + 1
    /\ sess[a].version <= identity[a].version
    /\ At(a, "login") => hand[a].version <= identity[a].version
    /\ a \in cut => /\ ~SessionValid(a)
                    /\ At(a, "login") => hand[a].version < identity[a].version

HandInv(a) ==
    /\ At(a, "assign") => /\ a \in InScope /\ hand[a].saw \in TicketStatus
                          /\ \/ hand[a].saw = "in_progress"
                             \/ "in_progress" \in ValidStatusTransitions[hand[a].saw]
    /\ At(a, "move") => /\ a \in InScope /\ hand[a].saw \in TicketStatus
                        /\ hand[a].to \in ValidStatusTransitions[hand[a].saw]

SupportIInv == SupportTypeOK /\ \A a \in Agents : SessionInv(a) /\ HandInv(a)

HandRow == [pc : Doing, saw : TicketStatus \cup {"none"}, to : TicketStatus \cup {"none"},
            version : 0..(MaxCuts + 1)]

LEMMA RestingRow == Resting \in HandRow /\ Resting.pc = "idle"
  BY SupportScope DEF Resting, HandRow, Doing

LEMMA SupportInitInv == SupportInit => SupportIInv
  <1> SUFFICES ASSUME SupportInit PROVE SupportIInv
    OBVIOUS
  <1> USE SupportScope DEF SupportInit
  <1>1. hand \in [Persons -> HandRow]
    BY RestingRow
  <1>2. SupportTypeOK
    BY <1>1 DEF SupportTypeOK, HandRow
  <1>3. ASSUME NEW a \in Agents PROVE SessionInv(a) /\ HandInv(a)
    <2>1. hand[a] = Resting
      BY DEF Persons
    <2> QED BY <2>1, RestingRow DEF SessionInv, HandInv, At
  <1> QED BY <1>2, <1>3 DEF SupportIInv

(* A person's request moves and the others stay where they are.            *)
LEMMA OneHandMoves ==
    ASSUME SupportIInv, NEW p \in Persons, NEW row \in HandRow,
           hand' = [hand EXCEPT ![p] = row]
    PROVE  /\ hand' \in [Persons -> HandRow] /\ hand'[p] = row
           /\ \A q \in Persons : q # p => hand'[q] = hand[q]
  BY DEF SupportIInv, SupportTypeOK, HandRow

(* Steps that leave identities, sessions and revocations alone.            *)
LEMMA HandMovesInv ==
    ASSUME SupportIInv, NEW p \in Persons, NEW row \in HandRow,
           hand' = [hand EXCEPT ![p] = row], UNCHANGED <<identity, sess, cut, cuts>>,
           ticket' \in [status : TicketStatus \cup {"none"}, agent : Agents \cup {Nobody}],
           turns' \in 0..MaxTurns, row.pc # "login", p \in Agents => HandInv(p)'
    PROVE  SupportIInv'
  <1>1. /\ hand' \in [Persons -> HandRow] /\ hand'[p] = row
        /\ \A q \in Persons : q # p => hand'[q] = hand[q]
    BY OneHandMoves
  <1>2. SupportTypeOK'
    BY <1>1 DEF SupportIInv, SupportTypeOK, HandRow
  <1>3. ASSUME NEW a \in Agents PROVE SessionInv(a)' /\ HandInv(a)'
    <2>1. a \in Persons
      BY DEF Persons
    <2>2. CASE a = p
      BY <1>1, <2>1, <2>2 DEF SupportIInv, SessionInv, At, SessionValid, SessionStands
    <2>3. CASE a # p
      BY <1>1, <2>1, <2>3 DEF SupportIInv, SessionInv, HandInv, At, SessionValid, SessionStands
    <2> QED BY <2>2, <2>3
  <1> QED BY <1>2, <1>3 DEF SupportIInv

LEMMA RestsInv ==
    ASSUME SupportIInv, NEW p \in Persons, Rests(p), UNCHANGED <<identity, sess, cut, cuts>>,
           ticket' \in [status : TicketStatus \cup {"none"}, agent : Agents \cup {Nobody}],
           turns' \in 0..MaxTurns
    PROVE  SupportIInv'
  <1>1. p \in Agents => HandInv(p)'
    BY RestingRow, OneHandMoves DEF Rests, HandInv, At
  <1> QED BY <1>1, RestingRow, HandMovesInv DEF Rests

LEMMA TurnType ==
    ASSUME SupportIInv, Turn
    PROVE  turns' \in 0..MaxTurns
  BY SupportScope DEF SupportIInv, SupportTypeOK, Turn

LEMMA CustomerInv ==
    ASSUME SupportIInv, CreateTicket \/ ReplyReads \/ ReplyWrites
    PROVE  SupportIInv'
  <1>1. CASE CreateTicket
    <2>1. SupportTypeOK'
      BY <1>1, TurnType DEF CreateTicket, SupportIInv, SupportTypeOK, TicketStatus
    <2> QED BY <1>1, <2>1
            DEF CreateTicket, SupportIInv, SessionInv, HandInv, At, SessionValid, SessionStands
  <1>2. CASE ReplyReads
    <2>1. PICK h \in HandRow, st \in TicketStatus \cup {"none"} :
             h = hand[Customer] /\ st = ticket.status
      BY DEF SupportIInv, SupportTypeOK, HandRow, Persons
    <2> DEFINE row == [h EXCEPT !.pc = "reply", !.saw = st]
    <2>2. row \in HandRow /\ row.pc = "reply"
      BY DEF HandRow, Doing
    <2>3. hand' = [hand EXCEPT ![Customer] = row] /\ Customer \in Persons
      BY <1>2, <2>1 DEF ReplyReads, SupportIInv, SupportTypeOK, Persons
    <2> HIDE DEF row
    <2> QED BY <1>2, <2>2, <2>3, HandMovesInv, SupportScope
            DEF ReplyReads, SupportIInv, SupportTypeOK
  <1>3. CASE ReplyWrites
    <2>1. ticket' \in [status : TicketStatus \cup {"none"}, agent : Agents \cup {Nobody}]
      BY <1>3 DEF ReplyWrites, SupportIInv, SupportTypeOK, TicketStatus
    <2> QED BY <1>3, <2>1, TurnType, RestsInv, Customer \in Persons DEF ReplyWrites, Persons
  <1> QED BY <1>1, <1>2, <1>3

LEMMA AgentReadsInv ==
    ASSUME SupportIInv, NEW a \in Agents,
           Gated(a) \/ AssignReads(a) \/ \E new \in TicketStatus : TransitionReads(a, new)
    PROVE  SupportIInv'
  <1>1. PICK h \in HandRow, st \in TicketStatus \cup {"none"} :
           h = hand[a] /\ st = ticket.status /\ a \in Persons
    BY DEF SupportIInv, SupportTypeOK, HandRow, Persons
  <1>2. UNCHANGED <<ticket, identity, sess, turns, cut, cuts>>
    BY DEF Gated, AssignReads, TransitionReads
  <1>3. /\ ticket' \in [status : TicketStatus \cup {"none"}, agent : Agents \cup {Nobody}]
        /\ turns' \in 0..MaxTurns
    BY <1>2 DEF SupportIInv, SupportTypeOK
  <1>4. CASE Rests(a)
    BY <1>1, <1>2, <1>3, <1>4, RestsInv
  <1>5. CASE Gated(a)
    <2> DEFINE row == [h EXCEPT !.pc = "authenticated"]
    <2>1. row \in HandRow /\ row.pc = "authenticated"
      BY DEF HandRow, Doing
    <2>2. hand' = [hand EXCEPT ![a] = row]
      BY <1>1, <1>5 DEF Gated, SupportIInv, SupportTypeOK
    <2> HIDE DEF row
    <2>3. HandInv(a)'
      BY <1>1, <2>1, <2>2, OneHandMoves DEF HandInv, At
    <2> QED BY <1>1, <1>2, <1>3, <2>1, <2>2, <2>3, HandMovesInv
  <1>6. CASE AssignReads(a) /\ ~Rests(a)
    <2> DEFINE row == [h EXCEPT !.pc = "assign", !.saw = st]
    <2>1. row \in HandRow /\ row.pc = "assign" /\ row.saw = st
      BY DEF HandRow, Doing
    <2>2. /\ hand' = [hand EXCEPT ![a] = row] /\ a \in InScope /\ st # "none"
          /\ st = "in_progress" \/ "in_progress" \in ValidStatusTransitions[st]
      BY <1>1, <1>6 DEF AssignReads, SupportIInv, SupportTypeOK
    <2> HIDE DEF row
    <2>3. HandInv(a)'
      BY <1>1, <2>1, <2>2, OneHandMoves DEF HandInv, At
    <2> QED BY <1>1, <1>2, <1>3, <2>1, <2>2, <2>3, HandMovesInv
  <1>7. ASSUME NEW new \in TicketStatus, TransitionReads(a, new), ~Rests(a) PROVE SupportIInv'
    <2> DEFINE row == [h EXCEPT !.pc = "move", !.saw = st, !.to = new]
    <2>1. row \in HandRow /\ row.pc = "move" /\ row.saw = st /\ row.to = new
      BY DEF HandRow, Doing
    <2>2. /\ hand' = [hand EXCEPT ![a] = row] /\ a \in InScope /\ st # "none"
          /\ new \in ValidStatusTransitions[st]
      BY <1>1, <1>7 DEF TransitionReads, SupportIInv, SupportTypeOK
    <2> HIDE DEF row
    <2>3. HandInv(a)'
      BY <1>1, <2>1, <2>2, OneHandMoves DEF HandInv, At
    <2> QED BY <1>1, <1>2, <1>3, <2>1, <2>2, <2>3, HandMovesInv
  <1> QED BY <1>4, <1>5, <1>6, <1>7

LEMMA AgentWritesInv ==
    ASSUME SupportIInv, NEW a \in Agents, AssignWrites(a) \/ TransitionWrites(a)
    PROVE  SupportIInv'
  <1>1. hand[a].to \in TicketStatus \cup {"none"} /\ a \in Persons
    BY DEF SupportIInv, SupportTypeOK, Persons
  <1>2. ticket' \in [status : TicketStatus \cup {"none"}, agent : Agents \cup {Nobody}]
    BY <1>1 DEF AssignWrites, TransitionWrites, SupportIInv, SupportTypeOK, TicketStatus
  <1> QED BY <1>1, <1>2, TurnType, RestsInv DEF AssignWrites, TransitionWrites

LEMMA LoginInv ==
    ASSUME SupportIInv, NEW a \in Agents, LoginReads(a) \/ LoginInserts(a)
    PROVE  SupportIInv'
  <1>1. PICK h \in HandRow, v \in 1..(MaxCuts + 1) :
           h = hand[a] /\ v = identity[a].version /\ a \in Persons
    BY DEF SupportIInv, SupportTypeOK, HandRow, Persons
  <1>2. CASE LoginReads(a)
    <2> DEFINE row == [Resting EXCEPT !.pc = "login", !.version = v]
    <2>1. row \in HandRow /\ row.pc = "login" /\ row.version = v
      <3>1. v \in 0..(MaxCuts + 1)
        OBVIOUS
      <3> QED BY <3>1, RestingRow DEF HandRow, Doing
    <2>2. /\ hand' = [hand EXCEPT ![a] = row] /\ cut' = cut \ {a}
          /\ UNCHANGED <<ticket, identity, sess, turns, cuts>>
      BY <1>1, <1>2 DEF LoginReads
    <2> HIDE DEF row
    <2>3. /\ hand' \in [Persons -> HandRow] /\ hand'[a] = row
          /\ \A q \in Persons : q # a => hand'[q] = hand[q]
      BY <1>1, <2>1, <2>2, OneHandMoves
    <2>4. SupportTypeOK'
      BY <2>2, <2>3 DEF SupportIInv, SupportTypeOK, HandRow
    <2>5. ASSUME NEW b \in Agents PROVE SessionInv(b)' /\ HandInv(b)'
      <3>1. b \in Persons
        BY DEF Persons
      <3>2. CASE b = a
        BY <1>1, <2>1, <2>2, <2>3, <3>2 DEF SupportIInv, SessionInv, HandInv, At
      <3>3. CASE b # a
        BY <2>2, <2>3, <3>1, <3>3
        DEF SupportIInv, SessionInv, HandInv, At, SessionValid, SessionStands
      <3> QED BY <3>2, <3>3
    <2> QED BY <2>4, <2>5 DEF SupportIInv
  <1>3. CASE LoginInserts(a)
    <2> DEFINE row == [live |-> TRUE, version |-> h.version]
    <2>1. row \in [live : BOOLEAN, version : 0..(MaxCuts + 1)] /\ row.version = h.version
      BY DEF HandRow
    <2>2. /\ sess' = [sess EXCEPT ![a] = row] /\ hand' = [hand EXCEPT ![a] = Resting]
          /\ At(a, "login") /\ UNCHANGED <<ticket, identity, turns, cut, cuts>>
      BY <1>1, <1>3 DEF LoginInserts, Rests
    <2> HIDE DEF row
    <2>3. /\ hand' \in [Persons -> HandRow] /\ hand'[a] = Resting
          /\ \A q \in Persons : q # a => hand'[q] = hand[q]
      BY <1>1, <2>2, RestingRow, OneHandMoves
    <2>4. /\ sess' \in [Agents -> [live : BOOLEAN, version : 0..(MaxCuts + 1)]] /\ sess'[a] = row
          /\ \A b \in Agents : b # a => sess'[b] = sess[b]
      BY <2>1, <2>2 DEF SupportIInv, SupportTypeOK
    <2>5. SupportTypeOK'
      BY <2>2, <2>3, <2>4 DEF SupportIInv, SupportTypeOK, HandRow
    <2>6. ASSUME NEW b \in Agents PROVE SessionInv(b)' /\ HandInv(b)'
      <3>1. b \in Persons
        BY DEF Persons
      <3>2. CASE b = a
        <4>1. /\ h.version <= v /\ (a \in cut => h.version < v) /\ v <= cuts + 1
              /\ h.version \in Nat /\ v \in Nat
          BY <1>1, <2>2, SupportScope DEF SupportIInv, SessionInv, HandRow
        <4> QED BY <1>1, <2>1, <2>2, <2>3, <2>4, <3>2, <4>1, RestingRow
                DEF SessionInv, HandInv, At, SessionValid
      <3>3. CASE b # a
        BY <2>2, <2>3, <2>4, <3>1, <3>3
        DEF SupportIInv, SessionInv, HandInv, At, SessionValid, SessionStands
      <3> QED BY <3>2, <3>3
    <2> QED BY <2>5, <2>6 DEF SupportIInv
  <1> QED BY <1>2, <1>3

(* An operator or the clock acts on an agent's rows: the version of the    *)
(* identity stays or is bumped, and then the session is revoked.           *)
LEMMA RowsChangeInv ==
    ASSUME SupportIInv, NEW a \in Agents,
           NEW i1 \in [active : BOOLEAN, version : Nat, credential : BOOLEAN],
           NEW s1 \in [live : BOOLEAN, version : 0..(MaxCuts + 1)],
           identity' = [identity EXCEPT ![a] = i1], sess' = [sess EXCEPT ![a] = s1],
           UNCHANGED <<ticket, hand, turns>>, cuts' \in 0..MaxCuts, cut' \subseteq Agents,
           \A b \in Agents : b # a => (b \in cut' <=> b \in cut), cuts <= cuts',
           s1.version = sess[a].version, s1.live => sess[a].live,
           i1.active => identity[a].active,
           \/ i1.version = identity[a].version /\ (a \in cut' => a \in cut)
           \/ i1.version = identity[a].version + 1 /\ ~s1.live /\ cuts' = cuts + 1
    PROVE  SupportIInv'
  <1> USE SupportScope
  <1>1. /\ identity[a].version \in 1..(MaxCuts + 1) /\ identity[a].version <= cuts + 1
        /\ cuts \in Nat /\ sess[a].version \in Nat /\ sess[a].version <= identity[a].version
    BY DEF SupportIInv, SupportTypeOK, SessionInv
  <1>2. i1.version \in 1..(MaxCuts + 1) /\ i1.version <= cuts' + 1
    BY <1>1
  <1>3. i1 \in [active : BOOLEAN, version : 1..(MaxCuts + 1), credential : BOOLEAN]
    BY <1>2
  <1>4. /\ identity' \in [Agents -> [active : BOOLEAN, version : 1..(MaxCuts + 1),
                                    credential : BOOLEAN]]
        /\ identity'[a] = i1 /\ sess'[a] = s1
        /\ sess' \in [Agents -> [live : BOOLEAN, version : 0..(MaxCuts + 1)]]
        /\ \A b \in Agents : b # a => identity'[b] = identity[b] /\ sess'[b] = sess[b]
    BY <1>3 DEF SupportIInv, SupportTypeOK
  <1>5. SupportTypeOK'
    BY <1>4 DEF SupportIInv, SupportTypeOK
  <1>6. ASSUME NEW b \in Agents PROVE SessionInv(b)' /\ HandInv(b)'
    <2>1. HandInv(b)'
      BY DEF SupportIInv, HandInv, At
    <2>2. CASE b = a
      <3>1. hand[a].version \in Nat
        BY DEF SupportIInv, SupportTypeOK, Persons
      <3>2. /\ identity'[a].version = i1.version /\ sess'[a].version = sess[a].version
            /\ hand'[a] = hand[a]
        BY <1>4
      <3>3. /\ identity'[a].version <= cuts' + 1 /\ identity[a].version <= identity'[a].version
            /\ sess'[a].version <= identity'[a].version
        BY <1>1, <1>2, <3>2
      <3>4. At(a, "login")' => hand'[a].version <= identity'[a].version
        BY <1>1, <1>2, <3>1, <3>2, <3>3 DEF SupportIInv, SessionInv, At
      <3>5. ASSUME a \in cut'
            PROVE  ~SessionValid(a)' /\ (At(a, "login")' => hand'[a].version < identity'[a].version)
        <4>1. CASE i1.version = identity[a].version /\ (a \in cut' => a \in cut)
          <5>1. SessionValid(a)' => SessionValid(a)
            BY <1>4, <3>2, <4>1 DEF SessionValid, SessionStands
          <5> QED BY <3>2, <3>5, <4>1, <5>1 DEF SupportIInv, SessionInv, At
        <4>2. CASE i1.version = identity[a].version + 1 /\ ~s1.live
          <5>1. ~SessionValid(a)'
            BY <1>4, <4>2 DEF SessionValid, SessionStands
          <5>2. At(a, "login")' => hand'[a].version < identity'[a].version
            BY <1>1, <3>1, <3>2, <4>2 DEF SupportIInv, SessionInv, At
          <5> QED BY <5>1, <5>2
        <4> QED BY <4>1, <4>2
      <3> QED BY <2>1, <2>2, <3>3, <3>4, <3>5 DEF SessionInv
    <2>3. CASE b # a
      <3>1. identity[b].version \in Nat /\ cuts' \in Nat /\ cuts \in Nat
        BY DEF SupportIInv, SupportTypeOK
      <3> QED BY <1>4, <2>1, <2>3, <3>1
              DEF SupportIInv, SessionInv, At, SessionValid, SessionStands
    <2> QED BY <2>1, <2>2, <2>3
  <1> QED BY <1>5, <1>6 DEF SupportIInv

LEMMA OperatorInv ==
    ASSUME SupportIInv, NEW a \in Agents,
           SessionOver(a) \/ RevokeCredential(a) \/ RevokeSessions(a) \/ DeactivateIdentity(a)
    PROVE  SupportIInv'
  <1> USE SupportScope
  <1>1. PICK i \in [active : BOOLEAN, version : Nat, credential : BOOLEAN],
             s \in [live : BOOLEAN, version : 0..(MaxCuts + 1)] :
           i = identity[a] /\ s = sess[a]
    <2>1. identity[a] \in [active : BOOLEAN, version : Nat, credential : BOOLEAN]
      BY DEF SupportIInv, SupportTypeOK
    <2> QED BY <2>1 DEF SupportIInv, SupportTypeOK
  <1>2. /\ cuts \in 0..MaxCuts /\ cut \subseteq Agents
        /\ identity = [identity EXCEPT ![a] = i] /\ sess = [sess EXCEPT ![a] = s]
    BY <1>1 DEF SupportIInv, SupportTypeOK
  <1>3. Intervention => cuts' \in 0..MaxCuts /\ cuts' = cuts + 1 /\ cuts <= cuts'
    BY <1>2 DEF Intervention
  <1> DEFINE s1 == [s EXCEPT !.live = FALSE]
             i1 == [i EXCEPT !.credential = FALSE]
             i2 == [i EXCEPT !.version = @ + 1]
             i3 == [i2 EXCEPT !.active = FALSE]
  <1>4. /\ s1 \in [live : BOOLEAN, version : 0..(MaxCuts + 1)] /\ s1.live = FALSE
        /\ s1.version = s.version
    OBVIOUS
  <1>5. /\ i1 \in [active : BOOLEAN, version : Nat, credential : BOOLEAN]
        /\ i1.version = i.version /\ i1.active = i.active
    OBVIOUS
  <1>6. /\ i2 \in [active : BOOLEAN, version : Nat, credential : BOOLEAN]
        /\ i2.version = i.version + 1 /\ i2.active = i.active
    OBVIOUS
  <1>7. /\ i3 \in [active : BOOLEAN, version : Nat, credential : BOOLEAN]
        /\ i3.version = i.version + 1 /\ i3.active = FALSE
    BY <1>6
  <1>8. sess' = [sess EXCEPT ![a].live = FALSE] => sess' = [sess EXCEPT ![a] = s1]
    BY <1>1 DEF SupportIInv, SupportTypeOK
  <1>9. CASE SessionOver(a)
    <2>1. /\ identity' = [identity EXCEPT ![a] = i] /\ sess' = [sess EXCEPT ![a] = s1]
          /\ UNCHANGED <<ticket, hand, turns, cut, cuts>>
      BY <1>2, <1>8, <1>9 DEF SessionOver
    <2>2. /\ cuts' \in 0..MaxCuts /\ cut' \subseteq Agents /\ cuts <= cuts'
          /\ \A b \in Agents : b \in cut' <=> b \in cut
      BY <1>2, <2>1
    <2>3. /\ s1.version = sess[a].version /\ (s1.live => sess[a].live)
          /\ (i.active => identity[a].active) /\ i.version = identity[a].version
      BY <1>1, <1>4
    <2> HIDE DEF s1
    <2> QED BY <1>4, <2>1, <2>2, <2>3, RowsChangeInv
  <1>10. CASE RevokeCredential(a)
    <2>1. identity' = [identity EXCEPT ![a] = i1]
      BY <1>1, <1>10 DEF RevokeCredential, SupportIInv, SupportTypeOK
    <2>2. sess' = [sess EXCEPT ![a] = s] /\ UNCHANGED <<ticket, hand, turns, cut>>
      BY <1>2, <1>10 DEF RevokeCredential
    <2>3. /\ cuts' \in 0..MaxCuts /\ cut' \subseteq Agents /\ cuts <= cuts'
          /\ \A b \in Agents : b \in cut' <=> b \in cut
      BY <1>2, <1>3, <1>10, <2>2 DEF RevokeCredential
    <2>4. /\ s.version = sess[a].version /\ (s.live => sess[a].live)
          /\ (i1.active => identity[a].active) /\ i1.version = identity[a].version
      BY <1>1, <1>5
    <2> HIDE DEF i1
    <2> QED BY <1>5, <2>1, <2>2, <2>3, <2>4, RowsChangeInv
  <1>11. CASE RevokeSessions(a)
    <2>1. identity' = [identity EXCEPT ![a] = i2]
      BY <1>1, <1>11 DEF RevokeSessions, Bumped, SupportIInv, SupportTypeOK
    <2>2. sess' = [sess EXCEPT ![a] = s1]
      BY <1>8, <1>11 DEF RevokeSessions, RevokedRows
    <2> HIDE DEF i2, s1
    <2> QED BY <1>1, <1>2, <1>3, <1>4, <1>6, <1>11, <2>1, <2>2, RowsChangeInv DEF RevokeSessions
  <1>12. CASE DeactivateIdentity(a)
    <2>1. Bumped(a) = [identity EXCEPT ![a] = i2]
      BY <1>1 DEF Bumped, SupportIInv, SupportTypeOK
    <2>2. identity' = [identity EXCEPT ![a] = i3]
      BY <1>1, <1>12, <2>1 DEF DeactivateIdentity, SupportIInv, SupportTypeOK
    <2>3. sess' = [sess EXCEPT ![a] = s1]
      BY <1>8, <1>12 DEF DeactivateIdentity, RevokedRows
    <2>4. /\ cuts' \in 0..MaxCuts /\ cut' \subseteq Agents /\ cuts' = cuts + 1 /\ cuts <= cuts'
          /\ \A b \in Agents : b # a => (b \in cut' <=> b \in cut)
      BY <1>2, <1>3, <1>12 DEF DeactivateIdentity
    <2>5. /\ s1.version = sess[a].version /\ ~s1.live /\ ~i3.active
          /\ i3.version = identity[a].version + 1
      BY <1>1, <1>4, <1>7
    <2> HIDE DEF i2, i3, s1
    <2> QED BY <1>4, <1>7, <1>12, <2>2, <2>3, <2>4, <2>5, RowsChangeInv DEF DeactivateIdentity
  <1> QED BY <1>9, <1>10, <1>11, <1>12

LEMMA SupportNextInv == SupportIInv /\ [SupportNext]_scvars => SupportIInv'
  <1> SUFFICES ASSUME SupportIInv, [SupportNext]_scvars PROVE SupportIInv'
    OBVIOUS
  <1>1. CASE UNCHANGED scvars
    <2>1. SupportTypeOK'
      BY <1>1 DEF scvars, SupportIInv, SupportTypeOK
    <2> QED BY <1>1, <2>1
            DEF scvars, SupportIInv, SessionInv, HandInv, At, SessionValid, SessionStands
  <1>2. CASE ChatRestarts
    <2>1. hand' \in [Persons -> HandRow]
      BY <1>2, RestingRow DEF ChatRestarts
    <2>2. SupportTypeOK'
      BY <1>2, <2>1 DEF ChatRestarts, SupportIInv, SupportTypeOK, HandRow
    <2>3. ASSUME NEW a \in Agents PROVE SessionInv(a)' /\ HandInv(a)'
      BY <1>2, RestingRow DEF ChatRestarts, Persons, SupportIInv, SessionInv, HandInv, At,
                              SessionValid, SessionStands
    <2> QED BY <2>2, <2>3 DEF SupportIInv
  <1> QED BY <1>1, <1>2, CustomerInv, AgentReadsInv, AgentWritesInv, LoginInv, OperatorInv
          DEF SupportNext

LEMMA SupportIsSafe == SupportIInv => NoSessionSurvivesRevocation
  BY DEF SupportIInv, SupportTypeOK, SessionInv, NoSessionSurvivesRevocation

(* What an agent writes is legal for what it read, and the UPDATE repeats  *)
(* what it read.                                                           *)
LEMMA SupportStepsLegally == SupportIInv /\ SupportNext => AgentsMoveLegally
  <1> SUFFICES ASSUME SupportIInv, SupportNext, ticket.status # "none",
                      ticket'.status # ticket.status
               PROVE  \/ ticket'.status = "in_progress" /\ At(Customer, "reply")
                      \/ /\ ticket'.status \in ValidStatusTransitions[ticket.status]
                         /\ \E a \in InScope : ticket'.agent = a /\ hand'[a] # hand[a]
    BY DEF AgentsMoveLegally
  <1>1. CASE ReplyWrites
    BY <1>1 DEF ReplyWrites, SupportIInv, SupportTypeOK
  <1>2. ASSUME NEW a \in Agents, AssignWrites(a) \/ TransitionWrites(a)
        PROVE  /\ ticket'.status \in ValidStatusTransitions[ticket.status]
               /\ a \in InScope /\ ticket'.agent = a /\ hand'[a] # hand[a]
    <2>1. hand'[a] = Resting /\ hand[a].pc \in {"assign", "move"}
      BY <1>2 DEF AssignWrites, TransitionWrites, Rests, At, SupportIInv, SupportTypeOK, Persons
    <2>2. hand'[a] # hand[a]
      BY <2>1, RestingRow
    <2>3. HandInv(a)
      BY DEF SupportIInv
    <2>4. CASE AssignWrites(a)
      BY <2>2, <2>3, <2>4 DEF AssignWrites, HandInv, At
    <2>5. CASE TransitionWrites(a)
      BY <2>2, <2>3, <2>5
      DEF TransitionWrites, TransitionMatches, HandInv, At, SupportIInv, SupportTypeOK
    <2> QED BY <1>2, <2>4, <2>5
  <1>3. CASE UNCHANGED ticket
    BY <1>3
  <1> QED BY <1>1, <1>2, <1>3
          DEF SupportNext, CreateTicket, ReplyReads, ChatRestarts, LoginReads, LoginInserts, Gated,
              SessionOver, AssignReads, TransitionReads, RevokeCredential, RevokeSessions,
              DeactivateIdentity

-----------------------------------------------------------------------------
LEMMA AccessInit == ServingInit => AccountsIInv /\ SupportIInv
  BY AccountsInitInv, SupportInitInv DEF ServingInit

LEMMA AccessNext ==
    AccountsIInv /\ SupportIInv /\ [ServingNext]_ServingVars => (AccountsIInv /\ SupportIInv)'
  <1>1. [ServingNext]_ServingVars => [AccountsNext]_avars /\ [SupportNext]_scvars
    BY DEF ServingNext, ServingVars
  <1> QED BY <1>1, AccountsNextInv, SupportNextInv

(* No rotated key and no revoked session opens anything: keys are dead on  *)
(* every process at once, both rows of an account carry one key, who is    *)
(* verified was told it, an invite code is overused at most once per       *)
(* process, and no login under way outlives a revocation.                  *)
THEOREM AccessIsControlled == ServingSpec => []AccessControlled
  <1>1. AccountsIInv /\ SupportIInv => AccessControlled
    BY AccountsIsSafe, SupportIsSafe DEF AccessControlled
  <1> QED BY <1>1, AccessInit, AccessNext, PTL DEF ServingSpec, ServingVars

(* Agents move a ticket along VALID_STATUS_TRANSITIONS and only the one it *)
(* is assigned to does, however their requests interleave.                 *)
THEOREM TicketsMoveLegally == ServingSpec => AgentsMoveLegallyAlways
  <1>1. SupportIInv /\ [ServingNext]_ServingVars => [AgentsMoveLegally]_scvars
    BY SupportStepsLegally DEF ServingNext, ServingVars
  <1> QED BY <1>1, AccessInit, AccessNext, PTL DEF ServingSpec, ServingVars, AgentsMoveLegallyAlways

-----------------------------------------------------------------------------
(* Campaigns.  A lead that a run is at, and would mark as invited, was     *)
(* given a code and a mail; a lead that is still to be mailed or is not    *)
(* marked has no mail that a fault did not cost.                           *)
SenderRow == [pc : {"idle", "pick", "send", "write"}, todo : SUBSET Leads,
              at : Leads \cup {"none"}, tries : 0..MaxRetries3]

SenderInv(s) ==
    /\ sender[s].pc = "idle" => sender[s].todo = {}
    /\ sender[s].pc # "idle" => campaigns[s] > 0
    /\ sender[s].pc \in {"send", "write"} => sender[s].at \in Leads \ sender[s].todo
    /\ sender[s].pc = "send" => s \notin DryRuns /\ codes[sender[s].at] > 0
    /\ sender[s].pc = "write" /\ s \notin DryRuns =>
          codes[sender[s].at] > 0 /\ mails[sender[s].at] > 0

Mailing == {s \in Senders \ DryRuns : campaigns[s] > 0}
Quiet == Cardinality(Mailing) <= 1
Waits(l) ==
    \/ \E s \in Senders \ DryRuns : l \in sender[s].todo \/ (sender[s].pc = "send" /\ sender[s].at = l)
    \/ /\ lead[l] # "invited"
       /\ \A s \in Senders \ DryRuns : ~(sender[s].pc = "write" /\ sender[s].at = l)
MailsInv(l) ==
    Quiet => mails[l] <= 1 + mailFaults /\ (Waits(l) => mails[l] <= mailFaults)

(* Commands.  What a command read is the file until a second one runs.     *)
ShellRow == [pc : {"idle", "read"}, slug : Slugs \cup {"none"},
             op : {"none", "create", "suspend", "activate"}, seen : TenantFile]
ShellInv(p) ==
    /\ shell[p].pc = "read" => /\ shell[p].slug \in Slugs
                               /\ shell[p].op = "create" => shell[p].slug \notin BadSlugs
    /\ \A b \in BadSlugs : shell[p].seen[b] = "none"
    /\ ~overlapped /\ shell[p].pc = "read" =>
          /\ shell[p].seen = tenants
          /\ \A q \in Shells : shell[q].pc = "read" => q = p

CampaignIInv ==
    /\ lead \in [Leads -> {"absent", "new", "invited"}]
    /\ codes \in [Leads -> Nat] /\ mails \in [Leads -> Nat]
    /\ sender \in [Senders -> SenderRow]
    /\ campaigns \in [Senders -> 0..MaxCampaigns] /\ mailFaults \in 0..MaxMailFaults
    /\ InvitedWasMailed
    /\ \A s \in Senders : SenderInv(s)
    /\ \A l \in Leads : MailsInv(l)

TenantsIInv ==
    /\ tenants \in TenantFile /\ ordered \in TenantFile /\ overlapped \in BOOLEAN
    /\ shell \in [Shells -> ShellRow] /\ NoTenantLost
    /\ \A p \in Shells : ShellInv(p)

LEMMA CampaignInitInv == OnboardingInit => CampaignIInv
  <1> SUFFICES ASSUME OnboardingInit PROVE CampaignIInv
    OBVIOUS
  <1> USE OnboardingBounds DEF OnboardingInit
  <1>1. sender \in [Senders -> SenderRow]
    BY DEF AtRest, SenderRow
  <1>2. \A s \in Senders : SenderInv(s)
    BY DEF SenderInv, AtRest
  <1>3. InvitedWasMailed /\ \A l \in Leads : MailsInv(l)
    BY DEF InvitedWasMailed, MailsInv
  <1> QED BY <1>1, <1>2, <1>3 DEF CampaignIInv

LEMMA SoleOf ==
    ASSUME NEW S, IsFiniteSet(S), Cardinality(S) <= 1, NEW s \in S, NEW t \in S
    PROVE  s = t
  <1> SUFFICES ASSUME s # t PROVE FALSE
    OBVIOUS
  <1>1. IsFiniteSet({s}) /\ Cardinality({s}) = 1
    BY FS_Singleton
  <1>2. Cardinality({s} \cup {t}) = 2
    BY <1>1, AddOneCount
  <1>3. Cardinality({s} \cup {t}) <= Cardinality(S) /\ Cardinality(S) \in Nat
    BY SubsetCount, ({s} \cup {t}) \subseteq S
  <1> QED BY <1>2, <1>3

LEMMA SenderMoves ==
    ASSUME CampaignIInv, NEW s \in Senders, NEW row \in SenderRow,
           sender' = [sender EXCEPT ![s] = row]
    PROVE  /\ sender' \in [Senders -> SenderRow] /\ sender'[s] = row
           /\ \A t \in Senders : t # s => sender'[t] = sender[t]
  BY DEF CampaignIInv

(* As long as one run mails, the others are at rest.                       *)
LEMMA MailsAlone ==
    ASSUME CampaignIInv, Quiet', campaigns' \in [Senders -> 0..MaxCampaigns],
           \A t \in Senders : campaigns[t] <= campaigns'[t]
    PROVE  /\ Quiet
           /\ \A s \in Senders \ DryRuns, t \in Senders \ DryRuns :
                 campaigns'[s] > 0 /\ t # s => sender[t].pc = "idle" /\ sender[t].todo = {}
  <1> USE OnboardingBounds
  <1>1. Mailing' = {s \in Senders \ DryRuns : campaigns'[s] > 0}
    BY DEF Mailing
  <1>2. \A t \in Senders : campaigns[t] \in Nat /\ campaigns'[t] \in Nat
    BY DEF CampaignIInv
  <1>3. Mailing \subseteq Mailing'
    BY <1>1, <1>2 DEF Mailing
  <1>4. IsFiniteSet(Mailing') /\ Cardinality(Mailing') \in Nat
    BY <1>1, SubsetCount, Mailing' \subseteq Senders
  <1>5. Quiet
    <2>1. Cardinality(Mailing) \in Nat /\ Cardinality(Mailing) <= Cardinality(Mailing')
      BY <1>3, <1>4, SubsetCount
    <2> QED BY <1>4, <2>1 DEF Quiet
  <1>6. ASSUME NEW s \in Senders \ DryRuns, NEW t \in Senders \ DryRuns,
               campaigns'[s] > 0, t # s
        PROVE  sender[t].pc = "idle" /\ sender[t].todo = {}
    <2>1. s \in Mailing'
      BY <1>1, <1>6
    <2>2. t \notin Mailing'
      BY <1>4, <1>6, <2>1, SoleOf DEF Quiet
    <2>3. ~(campaigns[t] > 0)
      BY <1>1, <1>2, <1>6, <2>2
    <2> QED BY <2>3 DEF CampaignIInv, SenderInv
  <1> QED BY <1>5, <1>6

(* A dry run mails nobody; whom it marks is not waited for any more.       *)
LEMMA DryMails ==
    ASSUME CampaignIInv, NEW s \in DryRuns, NEW row \in SenderRow,
           sender' = [sender EXCEPT ![s] = row], campaigns' \in [Senders -> 0..MaxCampaigns],
           \A t \in Senders : campaigns[t] <= campaigns'[t], mails' = mails,
           \A l \in Leads : lead[l] = "invited" => lead'[l] = "invited",
           mailFaults' \in Nat, mailFaults <= mailFaults'
    PROVE  \A l \in Leads : MailsInv(l)'
  <1> SUFFICES ASSUME NEW l \in Leads, Quiet'
               PROVE  mails[l] <= 1 + mailFaults' /\ (Waits(l)' => mails[l] <= mailFaults')
    BY DEF MailsInv
  <1>1. Quiet
    BY MailsAlone
  <1>2. \A t \in Senders \ DryRuns : sender'[t] = sender[t]
    BY SenderMoves, OnboardingBounds
  <1>3. Waits(l)' => Waits(l)
    BY <1>2 DEF Waits
  <1>4. mails[l] \in Nat /\ mailFaults \in Nat
    BY DEF CampaignIInv
  <1> QED BY <1>1, <1>3, <1>4 DEF CampaignIInv, MailsInv

(* Whoever marks a lead as invited has mailed it, so a step that marks     *)
(* nobody else and takes no mail back keeps the invariant.                 *)
LEMMA InvitedKept ==
    ASSUME CampaignIInv, campaigns' \in [Senders -> 0..MaxCampaigns],
           \A t \in Senders : campaigns[t] <= campaigns'[t],
           codes' \in [Leads -> Nat], mails' \in [Leads -> Nat],
           \A l \in Leads : codes[l] <= codes'[l] /\ mails[l] <= mails'[l],
           \A l \in Leads : lead'[l] = "invited" =>
               \/ lead[l] = "invited" \/ (codes[l] > 0 /\ mails[l] > 0)
               \/ \E s \in DryRuns : campaigns[s] > 0
    PROVE  InvitedWasMailed'
  <1> SUFFICES ASSUME \A s \in DryRuns : campaigns'[s] = 0, NEW l \in Leads, lead'[l] = "invited"
               PROVE  mails'[l] > 0 /\ codes'[l] > 0
    BY DEF InvitedWasMailed
  <1>1. \A s \in DryRuns : campaigns[s] = 0
    BY OnboardingBounds DEF CampaignIInv
  <1>2. mails[l] > 0 /\ codes[l] > 0
    BY <1>1 DEF CampaignIInv, InvitedWasMailed
  <1> QED BY <1>2 DEF CampaignIInv

(* With one run mailing, who waits is a matter of that run.                *)
LEMMA WaitsForOne ==
    ASSUME CampaignIInv, Quiet', campaigns' \in [Senders -> 0..MaxCampaigns],
           \A t \in Senders : campaigns[t] <= campaigns'[t],
           NEW s \in Senders \ DryRuns, campaigns'[s] > 0, NEW row \in SenderRow,
           sender' = [sender EXCEPT ![s] = row], NEW l \in Leads
    PROVE  /\ Waits(l)' <=> \/ l \in row.todo \/ (row.pc = "send" /\ row.at = l)
                            \/ (lead'[l] # "invited" /\ ~(row.pc = "write" /\ row.at = l))
           /\ Waits(l) <=> \/ l \in sender[s].todo \/ (sender[s].pc = "send" /\ sender[s].at = l)
                           \/ (lead[l] # "invited" /\ ~(sender[s].pc = "write" /\ sender[s].at = l))
           /\ mails[l] <= 1 + mailFaults /\ (Waits(l) => mails[l] <= mailFaults)
           /\ mails[l] \in Nat /\ mailFaults \in Nat
  <1>1. /\ Quiet
        /\ \A t \in Senders \ DryRuns : t # s => sender[t].pc = "idle" /\ sender[t].todo = {}
    BY MailsAlone
  <1>2. sender'[s] = row /\ \A t \in Senders : t # s => sender'[t] = sender[t]
    BY SenderMoves
  <1>3. Waits(l)' <=> \/ l \in row.todo \/ (row.pc = "send" /\ row.at = l)
                      \/ (lead'[l] # "invited" /\ ~(row.pc = "write" /\ row.at = l))
    BY <1>1, <1>2 DEF Waits
  <1>4. Waits(l) <=> \/ l \in sender[s].todo \/ (sender[s].pc = "send" /\ sender[s].at = l)
                     \/ (lead[l] # "invited" /\ ~(sender[s].pc = "write" /\ sender[s].at = l))
    BY <1>1 DEF Waits
  <1> QED BY <1>1, <1>3, <1>4 DEF CampaignIInv, MailsInv

LEMMA OtherSenders ==
    ASSUME CampaignIInv, NEW s \in Senders, NEW row \in SenderRow,
           sender' = [sender EXCEPT ![s] = row], SenderInv(s)',
           campaigns' \in [Senders -> 0..MaxCampaigns],
           \A t \in Senders : campaigns[t] <= campaigns'[t],
           codes' \in [Leads -> Nat], mails' \in [Leads -> Nat],
           \A l \in Leads : codes[l] <= codes'[l] /\ mails[l] <= mails'[l]
    PROVE  \A t \in Senders : SenderInv(t)'
  <1> SUFFICES ASSUME NEW t \in Senders, t # s PROVE SenderInv(t)'
    OBVIOUS
  <1>1. sender'[t] = sender[t] /\ campaigns[t] \in Nat /\ campaigns'[t] \in Nat
    <2>1. sender'[t] = sender[t]
      BY SenderMoves
    <2>2. campaigns[t] \in 0..MaxCampaigns /\ campaigns'[t] \in 0..MaxCampaigns
      BY DEF CampaignIInv
    <2> QED BY <2>1, <2>2, OnboardingBounds
  <1>2. \A l \in Leads : codes[l] \in Nat /\ mails[l] \in Nat /\ codes'[l] \in Nat /\ mails'[l] \in Nat
    BY DEF CampaignIInv
  <1> QED BY <1>1, <1>2 DEF CampaignIInv, SenderInv

LEMMA AtRestRow == AtRest \in SenderRow /\ AtRest.pc = "idle" /\ AtRest.todo = {}
  BY OnboardingBounds DEF AtRest, SenderRow

LEMMA Apply4BetaInv ==
    ASSUME CampaignIInv, NEW l \in Leads, Apply4Beta(l)
    PROVE  CampaignIInv'
  <1>1. /\ lead' \in [Leads -> {"absent", "new", "invited"}]
        /\ \A k \in Leads : lead'[k] = "invited" <=> lead[k] = "invited"
        /\ UNCHANGED <<codes, mails, sender, campaigns, mailFaults>>
    BY DEF Apply4Beta, CampaignIInv
  <1>2. InvitedWasMailed'
    BY <1>1 DEF CampaignIInv, InvitedWasMailed
  <1>3. \A s \in Senders : SenderInv(s)'
    BY <1>1 DEF CampaignIInv, SenderInv
  <1>4. \A k \in Leads : MailsInv(k)'
    BY <1>1 DEF CampaignIInv, MailsInv, Quiet, Mailing, Waits
  <1> QED BY <1>1, <1>2, <1>3, <1>4 DEF CampaignIInv

LEMMA LoadLeadsInv ==
    ASSUME CampaignIInv, NEW s \in Senders, LoadLeads(s)
    PROVE  CampaignIInv'
  <1> USE OnboardingBounds
  <1> DEFINE row == [AtRest EXCEPT !.pc = "pick", !.todo = {l \in Leads : lead[l] = "new"}]
  <1>1. /\ row \in SenderRow /\ row.pc = "pick"
        /\ row.todo = {l \in Leads : lead[l] = "new"}
    BY AtRestRow DEF SenderRow, AtRest
  <1>2. /\ sender' = [sender EXCEPT ![s] = row] /\ sender[s].pc = "idle"
        /\ campaigns' = [campaigns EXCEPT ![s] = @ + 1] /\ campaigns[s] < MaxCampaigns
        /\ UNCHANGED <<lead, codes, mails, mailFaults>>
    BY DEF LoadLeads
  <1> HIDE DEF row
  <1>3. /\ campaigns' \in [Senders -> 0..MaxCampaigns] /\ campaigns'[s] > 0
        /\ \A t \in Senders : campaigns[t] <= campaigns'[t]
    BY <1>2 DEF CampaignIInv
  <1>4. sender' \in [Senders -> SenderRow] /\ sender'[s] = row
    BY <1>1, <1>2, SenderMoves
  <1>5. /\ codes' \in [Leads -> Nat] /\ mails' \in [Leads -> Nat]
        /\ \A l \in Leads : codes[l] <= codes'[l] /\ mails[l] <= mails'[l]
    BY <1>2 DEF CampaignIInv
  <1>6. InvitedWasMailed'
    BY <1>2, <1>3, <1>5, InvitedKept
  <1>7. SenderInv(s)'
    BY <1>1, <1>3, <1>4 DEF SenderInv
  <1>8. \A t \in Senders : SenderInv(t)'
    BY <1>1, <1>2, <1>3, <1>5, <1>7, OtherSenders
  <1>9. \A l \in Leads : MailsInv(l)'
    <2>1. CASE s \in DryRuns
      <3>1. mailFaults' \in Nat /\ mailFaults <= mailFaults'
        BY <1>2 DEF CampaignIInv
      <3> QED BY <1>1, <1>2, <1>3, <2>1, <3>1, DryMails
    <2>2. CASE s \notin DryRuns
      <3> SUFFICES ASSUME NEW l \in Leads, Quiet'
                   PROVE  mails[l] <= 1 + mailFaults /\ (Waits(l)' => mails[l] <= mailFaults)
        BY <1>2 DEF MailsInv
      <3> QED BY <1>1, <1>2, <1>3, <2>2, WaitsForOne
    <2> QED BY <2>1, <2>2
  <1> QED BY <1>2, <1>3, <1>4, <1>5, <1>6, <1>8, <1>9 DEF CampaignIInv

LEMMA PickLeadInv ==
    ASSUME CampaignIInv, NEW s \in Senders, NEW k \in Leads, PickLead(s, k)
    PROVE  CampaignIInv'
  <1> USE OnboardingBounds
  <1> DEFINE row == [pc |-> IF s \in DryRuns THEN "write" ELSE "send",
                     todo |-> sender[s].todo \ {k}, at |-> k, tries |-> 0]
  <1>1. /\ row \in SenderRow /\ row.pc = (IF s \in DryRuns THEN "write" ELSE "send")
        /\ row.todo = sender[s].todo \ {k} /\ row.at = k
    BY DEF SenderRow, CampaignIInv
  <1>2. /\ sender' = [sender EXCEPT ![s] = row] /\ sender[s].pc = "pick" /\ k \in sender[s].todo
        /\ codes' = IF s \in DryRuns THEN codes ELSE [codes EXCEPT ![k] = @ + 1]
        /\ UNCHANGED <<lead, mails, campaigns, mailFaults>>
    BY DEF PickLead
  <1> HIDE DEF row
  <1>3. /\ campaigns' \in [Senders -> 0..MaxCampaigns] /\ campaigns'[s] > 0
        /\ \A t \in Senders : campaigns[t] <= campaigns'[t]
    BY <1>2 DEF CampaignIInv, SenderInv
  <1>4. sender' \in [Senders -> SenderRow] /\ sender'[s] = row
    BY <1>1, <1>2, SenderMoves
  <1>5. /\ codes' \in [Leads -> Nat] /\ mails' \in [Leads -> Nat]
        /\ \A l \in Leads : codes[l] <= codes'[l] /\ mails[l] <= mails'[l]
        /\ s \notin DryRuns => codes'[k] > 0
    BY <1>2 DEF CampaignIInv
  <1>6. InvitedWasMailed'
    BY <1>2, <1>3, <1>5, InvitedKept
  <1>7. SenderInv(s)'
    BY <1>1, <1>3, <1>4, <1>5 DEF SenderInv
  <1>8. \A t \in Senders : SenderInv(t)'
    BY <1>1, <1>2, <1>3, <1>5, <1>7, OtherSenders
  <1>9. \A l \in Leads : MailsInv(l)'
    <2>1. CASE s \in DryRuns
      <3>1. mailFaults' \in Nat /\ mailFaults <= mailFaults'
        BY <1>2 DEF CampaignIInv
      <3> QED BY <1>1, <1>2, <1>3, <2>1, <3>1, DryMails
    <2>2. CASE s \notin DryRuns
      <3> SUFFICES ASSUME NEW l \in Leads, Quiet'
                   PROVE  mails[l] <= 1 + mailFaults /\ (Waits(l)' => mails[l] <= mailFaults)
        BY <1>2 DEF MailsInv
      <3> QED BY <1>1, <1>2, <1>3, <2>2, WaitsForOne
    <2> QED BY <2>1, <2>2
  <1> QED BY <1>2, <1>3, <1>4, <1>5, <1>6, <1>8, <1>9 DEF CampaignIInv

LEMMA StepSenderRow ==
    ASSUME NEW q \in SenderRow, NEW p \in {"pick", "write"}
    PROVE  /\ [q EXCEPT !.pc = p] \in SenderRow /\ [q EXCEPT !.pc = p].pc = p
           /\ [q EXCEPT !.pc = p].todo = q.todo /\ [q EXCEPT !.pc = p].at = q.at
  BY DEF SenderRow

LEMMA SenderSteps ==
    ASSUME CampaignIInv, NEW s \in Senders, NEW p \in {"pick", "write"},
           sender' = [sender EXCEPT ![s].pc = p]
    PROVE  \E row \in SenderRow :
              /\ sender' = [sender EXCEPT ![s] = row] /\ row.pc = p
              /\ row.todo = sender[s].todo /\ row.at = sender[s].at
  <1>1. PICK q \in SenderRow : q = sender[s]
    BY DEF CampaignIInv
  <1>2. sender' = [sender EXCEPT ![s] = [q EXCEPT !.pc = p]]
    BY <1>1 DEF CampaignIInv
  <1>3. [q EXCEPT !.pc = p] \in SenderRow
    BY StepSenderRow
  <1> WITNESS [q EXCEPT !.pc = p] \in SenderRow
  <1> QED BY <1>1, <1>2, StepSenderRow

LEMMA FaultType ==
    ASSUME CampaignIInv, MailFault
    PROVE  mailFaults' \in 0..MaxMailFaults /\ mailFaults' = mailFaults + 1 /\ mailFaults \in Nat
  BY OnboardingBounds DEF CampaignIInv, MailFault

LEMMA SendAcceptedInv ==
    ASSUME CampaignIInv, NEW s \in Senders, SendAccepted(s)
    PROVE  CampaignIInv'
  <1> USE OnboardingBounds
  <1>1. PICK row \in SenderRow :
              /\ sender' = [sender EXCEPT ![s] = row] /\ row.pc = "write"
              /\ row.todo = sender[s].todo /\ row.at = sender[s].at
    BY SenderSteps DEF SendAccepted
  <1>2. PICK k \in Leads : k = sender[s].at
    BY DEF SendAccepted, CampaignIInv, SenderInv
  <1>3. /\ sender[s].pc = "send" /\ s \notin DryRuns /\ k \notin sender[s].todo /\ codes[k] > 0
        /\ mails' = [mails EXCEPT ![k] = @ + 1] /\ UNCHANGED <<lead, codes, campaigns, mailFaults>>
    BY <1>2 DEF SendAccepted, CampaignIInv, SenderInv
  <1>4. /\ campaigns' \in [Senders -> 0..MaxCampaigns] /\ campaigns'[s] > 0
        /\ \A t \in Senders : campaigns[t] <= campaigns'[t]
    BY <1>3 DEF CampaignIInv, SenderInv
  <1>5. sender' \in [Senders -> SenderRow] /\ sender'[s] = row
    BY <1>1, SenderMoves
  <1>6. /\ codes' \in [Leads -> Nat] /\ mails' \in [Leads -> Nat] /\ mails'[k] = mails[k] + 1
        /\ mails'[k] > 0 /\ \A l \in Leads : l # k => mails'[l] = mails[l]
        /\ \A l \in Leads : codes[l] <= codes'[l] /\ mails[l] <= mails'[l]
    BY <1>3 DEF CampaignIInv
  <1>7. InvitedWasMailed'
    BY <1>3, <1>4, <1>6, InvitedKept
  <1>8. SenderInv(s)'
    BY <1>1, <1>2, <1>3, <1>4, <1>5, <1>6 DEF SenderInv
  <1>9. \A t \in Senders : SenderInv(t)'
    BY <1>1, <1>4, <1>6, <1>8, OtherSenders
  <1>10. \A l \in Leads : MailsInv(l)'
    <2> SUFFICES ASSUME NEW l \in Leads, Quiet'
                 PROVE  mails'[l] <= 1 + mailFaults /\ (Waits(l)' => mails'[l] <= mailFaults)
      BY <1>3 DEF MailsInv
    <2>1. /\ Waits(l)' <=> \/ l \in row.todo \/ (row.pc = "send" /\ row.at = l)
                           \/ (lead'[l] # "invited" /\ ~(row.pc = "write" /\ row.at = l))
          /\ Waits(l) <=> \/ l \in sender[s].todo \/ (sender[s].pc = "send" /\ sender[s].at = l)
                          \/ (lead[l] # "invited" /\ ~(sender[s].pc = "write" /\ sender[s].at = l))
          /\ mails[l] <= 1 + mailFaults /\ (Waits(l) => mails[l] <= mailFaults)
          /\ mails[l] \in Nat /\ mailFaults \in Nat
      BY <1>1, <1>3, <1>4, WaitsForOne
    <2> QED BY <1>1, <1>2, <1>3, <1>6, <2>1
  <1> QED BY <1>3, <1>4, <1>5, <1>6, <1>7, <1>9, <1>10 DEF CampaignIInv

LEMMA SendFailsInv ==
    ASSUME CampaignIInv, NEW s \in Senders, SendFails(s)
    PROVE  CampaignIInv'
  <1> USE OnboardingBounds
  <1>1. PICK row \in SenderRow :
              /\ sender' = [sender EXCEPT ![s] = row] /\ row.pc \in {"send", "pick"}
              /\ row.todo = sender[s].todo /\ row.at = sender[s].at
    <2>1. CASE sender[s].tries + 1 < MaxRetries3
      <3>1. PICK q \in SenderRow : q = sender[s]
        BY DEF CampaignIInv
      <3>2. /\ [q EXCEPT !.tries = @ + 1] \in SenderRow
            /\ [q EXCEPT !.tries = @ + 1].pc = q.pc /\ [q EXCEPT !.tries = @ + 1].todo = q.todo
            /\ [q EXCEPT !.tries = @ + 1].at = q.at
        <4>1. q.tries + 1 \in 0..MaxRetries3
          BY <2>1, <3>1 DEF SenderRow
        <4> QED BY <4>1 DEF SenderRow
      <3>3. sender' = [sender EXCEPT ![s] = [q EXCEPT !.tries = @ + 1]] /\ q.pc = "send"
        BY <2>1, <3>1 DEF SendFails, CampaignIInv
      <3> QED BY <3>1, <3>2, <3>3
    <2>2. CASE ~(sender[s].tries + 1 < MaxRetries3)
      <3>1. sender' = [sender EXCEPT ![s].pc = "pick"]
        BY <2>2 DEF SendFails, GivesUp
      <3> QED BY <3>1, SenderSteps
    <2> QED BY <2>1, <2>2
  <1>2. PICK k \in Leads, n \in {0, 1} :
           k = sender[s].at /\ mails' = [mails EXCEPT ![k] = @ + n]
    BY DEF SendFails, CampaignIInv, SenderInv
  <1>3. /\ sender[s].pc = "send" /\ s \notin DryRuns /\ k \notin sender[s].todo /\ codes[k] > 0
        /\ UNCHANGED <<lead, codes, campaigns>>
    BY <1>2 DEF SendFails, CampaignIInv, SenderInv
  <1>4. mailFaults' \in 0..MaxMailFaults /\ mailFaults' = mailFaults + 1 /\ mailFaults \in Nat
    BY FaultType DEF SendFails
  <1>5. /\ campaigns' \in [Senders -> 0..MaxCampaigns] /\ campaigns'[s] > 0
        /\ \A t \in Senders : campaigns[t] <= campaigns'[t]
    BY <1>3 DEF CampaignIInv, SenderInv
  <1>6. sender' \in [Senders -> SenderRow] /\ sender'[s] = row
    BY <1>1, SenderMoves
  <1>7. /\ codes' \in [Leads -> Nat] /\ mails' \in [Leads -> Nat]
        /\ \A l \in Leads : codes[l] <= codes'[l] /\ mails[l] <= mails'[l]
        /\ \A l \in Leads : mails'[l] <= mails[l] + 1
    BY <1>2, <1>3 DEF CampaignIInv
  <1>8. InvitedWasMailed'
    BY <1>3, <1>5, <1>7, InvitedKept
  <1>9. SenderInv(s)'
    BY <1>1, <1>2, <1>3, <1>5, <1>6, <1>7 DEF SenderInv
  <1>10. \A t \in Senders : SenderInv(t)'
    BY <1>1, <1>5, <1>7, <1>9, OtherSenders
  <1>11. \A l \in Leads : MailsInv(l)'
    <2> SUFFICES ASSUME NEW l \in Leads, Quiet'
                 PROVE  mails'[l] <= 1 + mailFaults' /\ (Waits(l)' => mails'[l] <= mailFaults')
      BY DEF MailsInv
    <2>1. /\ Waits(l)' <=> \/ l \in row.todo \/ (row.pc = "send" /\ row.at = l)
                           \/ (lead'[l] # "invited" /\ ~(row.pc = "write" /\ row.at = l))
          /\ Waits(l) <=> \/ l \in sender[s].todo \/ (sender[s].pc = "send" /\ sender[s].at = l)
                          \/ (lead[l] # "invited" /\ ~(sender[s].pc = "write" /\ sender[s].at = l))
          /\ mails[l] <= 1 + mailFaults /\ (Waits(l) => mails[l] <= mailFaults)
          /\ mails[l] \in Nat /\ mailFaults \in Nat
      BY <1>1, <1>5, <1>3, WaitsForOne
    <2>2. Waits(l)' => Waits(l)
      BY <1>1, <1>3, <2>1
    <2>3. mails'[l] \in Nat /\ mails'[l] <= mails[l] + 1 /\ (l # k => mails'[l] = mails[l])
      BY <1>2, <1>7 DEF CampaignIInv
    <2>4. CASE l = k
      <3>1. mails[l] <= mailFaults
        BY <1>2, <1>3, <2>1, <2>4
      <3> QED BY <1>4, <2>1, <2>3, <3>1
    <2>5. CASE l # k
      BY <1>4, <2>1, <2>2, <2>3, <2>5
    <2> QED BY <2>4, <2>5
  <1> QED BY <1>3, <1>4, <1>5, <1>6, <1>7, <1>8, <1>10, <1>11 DEF CampaignIInv

LEMMA MarkInvitedInv ==
    ASSUME CampaignIInv, NEW s \in Senders, MarkInvited(s)
    PROVE  CampaignIInv'
  <1> USE OnboardingBounds
  <1>1. PICK row \in SenderRow :
              /\ sender' = [sender EXCEPT ![s] = row] /\ row.pc = "pick"
              /\ row.todo = sender[s].todo /\ row.at = sender[s].at
    BY SenderSteps DEF MarkInvited
  <1>2. PICK k \in Leads : k = sender[s].at
    BY DEF MarkInvited, CampaignIInv, SenderInv
  <1>3. /\ sender[s].pc = "write" /\ k \notin sender[s].todo /\ UNCHANGED <<codes, mails, campaigns>>
        /\ s \notin DryRuns => codes[k] > 0 /\ mails[k] > 0
    BY <1>2 DEF MarkInvited, CampaignIInv, SenderInv
  <1>4. /\ lead' \in [Leads -> {"absent", "new", "invited"}] /\ mailFaults' \in 0..MaxMailFaults
        /\ mailFaults \in Nat /\ mailFaults' \in Nat /\ mailFaults <= mailFaults'
        /\ \/ lead' = [lead EXCEPT ![k] = "invited"]
           \/ lead' = lead /\ mailFaults' = mailFaults + 1
    <2>1. CASE lead' = [lead EXCEPT ![k] = "invited"] /\ UNCHANGED mailFaults
      <3>1. mailFaults \in 0..MaxMailFaults /\ mailFaults \in Nat
        BY DEF CampaignIInv
      <3>2. lead' \in [Leads -> {"absent", "new", "invited"}]
        BY <2>1 DEF CampaignIInv
      <3>3. /\ mailFaults' \in 0..MaxMailFaults /\ mailFaults' \in Nat
            /\ mailFaults <= mailFaults'
        BY <2>1, <3>1
      <3> QED BY <2>1, <3>1, <3>2, <3>3
    <2>2. CASE UNCHANGED lead /\ MailFault
      <3>1. mailFaults' \in 0..MaxMailFaults /\ mailFaults' = mailFaults + 1 /\ mailFaults \in Nat
        BY <2>2, FaultType
      <3> QED BY <2>2, <3>1 DEF CampaignIInv
    <2> QED BY <1>2, <2>1, <2>2 DEF MarkInvited
  <1>5. \A l \in Leads : /\ lead[l] = "invited" => lead'[l] = "invited"
                         /\ l # k => lead'[l] = lead[l]
    BY <1>4 DEF CampaignIInv
  <1>6. /\ campaigns' \in [Senders -> 0..MaxCampaigns] /\ campaigns'[s] > 0 /\ campaigns[s] > 0
        /\ \A t \in Senders : campaigns[t] <= campaigns'[t]
    BY <1>3 DEF CampaignIInv, SenderInv
  <1>7. sender' \in [Senders -> SenderRow] /\ sender'[s] = row
    BY <1>1, SenderMoves
  <1>8. /\ codes' \in [Leads -> Nat] /\ mails' \in [Leads -> Nat]
        /\ \A l \in Leads : codes[l] <= codes'[l] /\ mails[l] <= mails'[l]
    BY <1>3 DEF CampaignIInv
  <1>9. InvitedWasMailed'
    <2>1. \A l \in Leads : lead'[l] = "invited" =>
               \/ lead[l] = "invited" \/ (codes[l] > 0 /\ mails[l] > 0)
               \/ \E d \in DryRuns : campaigns[d] > 0
      BY <1>3, <1>5, <1>6
    <2> QED BY <1>6, <1>8, <2>1, InvitedKept
  <1>10. SenderInv(s)'
    BY <1>1, <1>6, <1>7 DEF SenderInv
  <1>11. \A t \in Senders : SenderInv(t)'
    BY <1>1, <1>6, <1>8, <1>10, OtherSenders
  <1>12. \A l \in Leads : MailsInv(l)'
    <2>1. CASE s \in DryRuns
      BY <1>1, <1>3, <1>4, <1>5, <1>6, <2>1, DryMails
    <2>2. CASE s \notin DryRuns
      <3> SUFFICES ASSUME NEW l \in Leads, Quiet'
                   PROVE  mails[l] <= 1 + mailFaults' /\ (Waits(l)' => mails[l] <= mailFaults')
        BY <1>3 DEF MailsInv
      <3>1. /\ Waits(l)' <=> \/ l \in row.todo \/ (row.pc = "send" /\ row.at = l)
                             \/ (lead'[l] # "invited" /\ ~(row.pc = "write" /\ row.at = l))
            /\ Waits(l) <=> \/ l \in sender[s].todo \/ (sender[s].pc = "send" /\ sender[s].at = l)
                            \/ (lead[l] # "invited" /\ ~(sender[s].pc = "write" /\ sender[s].at = l))
            /\ mails[l] <= 1 + mailFaults /\ (Waits(l) => mails[l] <= mailFaults)
            /\ mails[l] \in Nat /\ mailFaults \in Nat
        BY <1>1, <1>6, <2>2, WaitsForOne
      <3>2. CASE l = k
        <4>1. (lead' = lead /\ mailFaults' = mailFaults + 1) \/ lead'[l] = "invited"
          BY <1>4, <3>2 DEF CampaignIInv
        <4> QED BY <1>1, <1>3, <1>4, <3>1, <3>2, <4>1
      <3>3. CASE l # k
        BY <1>1, <1>2, <1>3, <1>4, <1>5, <3>1, <3>3
      <3> QED BY <3>2, <3>3
    <2> QED BY <2>1, <2>2
  <1> QED BY <1>4, <1>6, <1>7, <1>8, <1>9, <1>11, <1>12 DEF CampaignIInv

LEMMA CampaignEndsInv ==
    ASSUME CampaignIInv, NEW s \in Senders, CampaignEnds(s)
    PROVE  CampaignIInv'
  <1> USE OnboardingBounds
  <1>1. /\ sender' = [sender EXCEPT ![s] = AtRest] /\ sender[s].pc # "idle"
        /\ UNCHANGED <<lead, codes, mails, campaigns>>
    BY DEF CampaignEnds
  <1>2. /\ mailFaults' \in 0..MaxMailFaults /\ mailFaults \in Nat /\ mailFaults' \in Nat
        /\ mailFaults <= mailFaults'
        /\ sender[s].pc = "pick" \/ mailFaults' = mailFaults + 1
    <2>1. CASE UNCHANGED mailFaults /\ sender[s].pc = "pick"
      BY <2>1 DEF CampaignIInv
    <2>2. CASE MailFault
      BY <2>2, FaultType
    <2> QED BY <2>1, <2>2 DEF CampaignEnds
  <1>3. /\ campaigns' \in [Senders -> 0..MaxCampaigns] /\ campaigns'[s] > 0
        /\ \A t \in Senders : campaigns[t] <= campaigns'[t]
    BY <1>1 DEF CampaignIInv, SenderInv
  <1>4. sender' \in [Senders -> SenderRow] /\ sender'[s] = AtRest
    BY <1>1, AtRestRow, SenderMoves
  <1>5. /\ codes' \in [Leads -> Nat] /\ mails' \in [Leads -> Nat]
        /\ \A l \in Leads : codes[l] <= codes'[l] /\ mails[l] <= mails'[l]
    BY <1>1 DEF CampaignIInv
  <1>6. InvitedWasMailed'
    BY <1>1, <1>3, <1>5, InvitedKept
  <1>7. SenderInv(s)'
    BY <1>4, AtRestRow DEF SenderInv
  <1>8. \A t \in Senders : SenderInv(t)'
    BY <1>1, <1>3, <1>5, <1>7, AtRestRow, OtherSenders
  <1>9. \A l \in Leads : MailsInv(l)'
    <2>1. CASE s \in DryRuns
      BY <1>1, <1>2, <1>3, <2>1, AtRestRow, DryMails
    <2>2. CASE s \notin DryRuns
      <3> SUFFICES ASSUME NEW l \in Leads, Quiet'
                   PROVE  mails[l] <= 1 + mailFaults' /\ (Waits(l)' => mails[l] <= mailFaults')
        BY <1>1 DEF MailsInv
      <3>1. /\ Waits(l)' <=> \/ l \in AtRest.todo \/ (AtRest.pc = "send" /\ AtRest.at = l)
                             \/ (lead'[l] # "invited" /\ ~(AtRest.pc = "write" /\ AtRest.at = l))
            /\ Waits(l) <=> \/ l \in sender[s].todo \/ (sender[s].pc = "send" /\ sender[s].at = l)
                            \/ (lead[l] # "invited" /\ ~(sender[s].pc = "write" /\ sender[s].at = l))
            /\ mails[l] <= 1 + mailFaults /\ (Waits(l) => mails[l] <= mailFaults)
            /\ mails[l] \in Nat /\ mailFaults \in Nat
        BY <1>1, <1>3, <2>2, AtRestRow, WaitsForOne
      <3>2. CASE mailFaults' = mailFaults + 1
        BY <3>1, <3>2
      <3>3. CASE sender[s].pc = "pick"
        BY <1>1, <1>2, <3>1, <3>3, AtRestRow
      <3> QED BY <1>2, <3>2, <3>3
    <2> QED BY <2>1, <2>2
  <1> QED BY <1>1, <1>2, <1>3, <1>4, <1>5, <1>6, <1>8, <1>9 DEF CampaignIInv

LEMMA CampaignNextInv == CampaignIInv /\ (CampaignNext \/ UNCHANGED lvars) => CampaignIInv'
  <1> SUFFICES ASSUME CampaignIInv, CampaignNext \/ UNCHANGED lvars PROVE CampaignIInv'
    OBVIOUS
  <1>1. CASE UNCHANGED lvars
    BY <1>1 DEF lvars, CampaignIInv, InvitedWasMailed, SenderInv, MailsInv, Quiet, Mailing, Waits
  <1> QED BY <1>1, Apply4BetaInv, LoadLeadsInv, PickLeadInv, SendAcceptedInv, SendFailsInv,
             MarkInvitedInv, CampaignEndsInv DEF CampaignNext

(* The file of tenants.                                                    *)
LEMMA TenantsInitInv == OnboardingInit => TenantsIInv
  <1> SUFFICES ASSUME OnboardingInit PROVE TenantsIInv
    OBVIOUS
  <1> USE OnboardingBounds DEF OnboardingInit
  <1>1. tenants \in TenantFile /\ ordered \in TenantFile /\ overlapped \in BOOLEAN
    BY DEF TenantFile
  <1>2. shell \in [Shells -> ShellRow]
    BY DEF NoOrder, ShellRow, TenantFile
  <1>3. NoTenantLost /\ \A p \in Shells : ShellInv(p)
    BY DEF NoTenantLost, ShellInv, NoOrder
  <1> QED BY <1>1, <1>2, <1>3 DEF TenantsIInv

LEMMA NoOrderRow ==
    NoOrder \in ShellRow /\ NoOrder.pc = "idle" /\ \A b \in Slugs : NoOrder.seen[b] = "none"
  BY DEF NoOrder, ShellRow, TenantFile

LEMMA ShellMoves ==
    ASSUME TenantsIInv, NEW p \in Shells, NEW row \in ShellRow,
           shell' = [shell EXCEPT ![p] = row]
    PROVE  /\ shell' \in [Shells -> ShellRow] /\ shell'[p] = row
           /\ \A q \in Shells : q # p => shell'[q] = shell[q]
  BY DEF TenantsIInv

LEMMA CommandReadsInv ==
    ASSUME TenantsIInv, NEW p \in Shells, NEW op \in {"create", "suspend", "activate"},
           NEW slug \in Slugs, CommandReads(p, op, slug)
    PROVE  TenantsIInv'
  <1> USE OnboardingBounds
  <1>1. PICK f \in TenantFile : f = tenants
    BY DEF TenantsIInv
  <1> DEFINE row == [pc |-> "read", slug |-> slug, op |-> op, seen |-> f]
  <1>2. /\ row \in ShellRow /\ row.pc = "read" /\ row.slug = slug /\ row.op = op /\ row.seen = f
    BY DEF ShellRow
  <1>3. /\ shell' = [shell EXCEPT ![p] = row] /\ (op = "create" => slug \notin BadSlugs)
        /\ UNCHANGED <<tenants, ordered>> /\ shell[p].pc = "idle"
        /\ overlapped' = (overlapped \/ \E q \in Shells \ {p} : shell[q].pc = "read")
    BY <1>1 DEF CommandReads, Valid
  <1> HIDE DEF row
  <1>4. /\ shell' \in [Shells -> ShellRow] /\ shell'[p] = row
        /\ \A q \in Shells : q # p => shell'[q] = shell[q]
    BY <1>2, <1>3, ShellMoves
  <1>5. overlapped' \in BOOLEAN
    BY <1>3
  <1>6. ~overlapped' => ~overlapped /\ \A q \in Shells : q # p => shell[q].pc # "read"
    BY <1>3
  <1>7. NoTenantLost'
    BY <1>3, <1>6 DEF TenantsIInv, NoTenantLost
  <1>8. ASSUME NEW q \in Shells PROVE ShellInv(q)'
    <2>1. CASE q = p
      <3>1. \A b \in BadSlugs : f[b] = "none"
        BY <1>1 DEF TenantsIInv, NoTenantLost
      <3> QED BY <1>1, <1>2, <1>3, <1>4, <1>6, <2>1, <3>1 DEF ShellInv
    <2>2. CASE q # p
      BY <1>3, <1>4, <1>6, <2>2 DEF TenantsIInv, ShellInv
    <2> QED BY <2>1, <2>2
  <1> QED BY <1>3, <1>4, <1>5, <1>7, <1>8 DEF TenantsIInv

LEMMA CommandWritesInv ==
    ASSUME TenantsIInv, NEW p \in Shells, CommandWrites(p)
    PROVE  TenantsIInv'
  <1> USE OnboardingBounds
  <1>1. PICK h \in ShellRow : h = shell[p]
    BY DEF TenantsIInv
  <1>2. h.pc = "read" /\ h.slug \in Slugs /\ h.seen \in TenantFile /\ UNCHANGED overlapped
    BY <1>1 DEF CommandWrites, TenantsIInv, ShellInv, ShellRow
  <1>3. /\ shell' \in [Shells -> ShellRow] /\ shell'[p] = NoOrder
        /\ \A q \in Shells : q # p => shell'[q] = shell[q]
    BY NoOrderRow, ShellMoves DEF CommandWrites
  <1>4. /\ h.op = "create" => h.slug \notin BadSlugs
        /\ \A b \in BadSlugs : h.seen[b] = "none"
        /\ ~overlapped => h.seen = tenants /\ \A q \in Shells : shell[q].pc = "read" => q = p
    BY <1>1, <1>2 DEF TenantsIInv, ShellInv
  <1>5. CASE h.op = "create" \/ h.seen[h.slug] # "none"
    <2>1. PICK v \in {"active", "suspended"} : v = StatusOf(h.op)
      BY DEF StatusOf
    <2>2. tenants' = [h.seen EXCEPT ![h.slug] = v] /\ ordered' = [ordered EXCEPT ![h.slug] = v]
      BY <1>1, <1>5, <2>1 DEF CommandWrites, SavedFile
    <2>3. tenants' \in TenantFile /\ ordered' \in TenantFile
      BY <1>2, <2>2 DEF TenantsIInv, TenantFile
    <2>4. h.slug \notin BadSlugs
      BY <1>4, <1>5
    <2>5. NoTenantLost'
      <3>1. \A b \in BadSlugs : tenants'[b] = "none"
        BY <1>2, <1>4, <2>2, <2>4 DEF TenantFile
      <3>2. ~overlapped => tenants' = ordered'
        BY <1>4, <2>2 DEF TenantsIInv, NoTenantLost
      <3> QED BY <1>2, <3>1, <3>2 DEF NoTenantLost
    <2>6. ASSUME NEW q \in Shells PROVE ShellInv(q)'
      <3>1. CASE q = p
        BY <1>3, <3>1, NoOrderRow DEF ShellInv
      <3>2. CASE q # p
        BY <1>2, <1>3, <1>4, <3>2, NoOrderRow DEF TenantsIInv, ShellInv
      <3> QED BY <3>1, <3>2
    <2> QED BY <1>2, <1>3, <2>3, <2>5, <2>6 DEF TenantsIInv
  <1>6. CASE ~(h.op = "create" \/ h.seen[h.slug] # "none")
    <2>1. UNCHANGED <<tenants, ordered>>
      BY <1>1, <1>6 DEF CommandWrites
    <2>2. NoTenantLost'
      BY <1>2, <2>1 DEF TenantsIInv, NoTenantLost
    <2>3. ASSUME NEW q \in Shells PROVE ShellInv(q)'
      <3>1. CASE q = p
        BY <1>3, <3>1, NoOrderRow DEF ShellInv
      <3>2. CASE q # p
        BY <1>2, <1>3, <2>1, <3>2, NoOrderRow DEF TenantsIInv, ShellInv
      <3> QED BY <3>1, <3>2
    <2> QED BY <1>2, <1>3, <2>1, <2>2, <2>3 DEF TenantsIInv
  <1> QED BY <1>5, <1>6

LEMMA TenantsNextInv == TenantsIInv /\ (TenantsNext \/ UNCHANGED tvars) => TenantsIInv'
  <1> SUFFICES ASSUME TenantsIInv, TenantsNext \/ UNCHANGED tvars PROVE TenantsIInv'
    OBVIOUS
  <1>1. CASE UNCHANGED tvars
    BY <1>1 DEF tvars, TenantsIInv, NoTenantLost, ShellInv
  <1> QED BY <1>1, CommandReadsInv, CommandWritesInv DEF TenantsNext

LEMMA OnboardingIsSafe == CampaignIInv /\ TenantsIInv => OnboardingInv /\ OnboardingTypeOK
  <1> SUFFICES ASSUME CampaignIInv, TenantsIInv PROVE OnboardingInv /\ OnboardingTypeOK
    OBVIOUS
  <1>1. MailedOnce
    BY DEF CampaignIInv, MailsInv, Quiet, Mailing, MailedOnce
  <1>2. OnboardingTypeOK
    <2>1. \A s \in Senders : /\ sender[s].pc \in {"idle", "pick", "send", "write"}
                             /\ sender[s].todo \subseteq Leads /\ sender[s].tries \in 0..MaxRetries3
      BY DEF CampaignIInv, SenderRow
    <2>2. \A p \in Shells : shell[p].pc \in {"idle", "read"} /\ shell[p].seen \in TenantFile
      BY DEF TenantsIInv, ShellRow
    <2> QED BY <2>1, <2>2 DEF CampaignIInv, TenantsIInv, OnboardingTypeOK
  <1> QED BY <1>1, <1>2 DEF CampaignIInv, TenantsIInv, OnboardingInv

LEMMA OnboardingInitial == ServingInit => CampaignIInv /\ TenantsIInv
  BY CampaignInitInv, TenantsInitInv DEF ServingInit

LEMMA OnboardingNext ==
    CampaignIInv /\ TenantsIInv /\ [ServingNext]_ServingVars => (CampaignIInv /\ TenantsIInv)'
  <1>1. [ServingNext]_ServingVars =>
           (CampaignNext \/ UNCHANGED lvars) /\ (TenantsNext \/ UNCHANGED tvars)
    BY DEF ServingNext, ServingVars, CampaignNext, TenantsNext, lvars, tvars
  <1> QED BY <1>1, CampaignNextInv, TenantsNextInv

(* Whoever counts as invited was mailed, nobody is mailed twice without a  *)
(* fault or a second campaign, and commands that do not overlap lose no    *)
(* tenant.                                                                 *)
THEOREM OnboardingIsSound == ServingSpec => []OnboardingInv
  BY OnboardingInitial, OnboardingNext, OnboardingIsSafe, PTL DEF ServingSpec, ServingVars


-----------------------------------------------------------------------------
(* Decisions.  A desk waits when its decision is recorded and its job not  *)
(* yet inserted, and is permitted from the gate until then.                *)
DecRow == [key : IdemKeys \cup {NoIdemKey}, ok : BOOLEAN, path : Paths, wants : BOOLEAN]
QueueRow == [did : Nat, status : JobStatuses]
TrailRow == [type : {"policy.denied", "decision.allowed", "decision.denied", "job.created"}, of : Nat]
AllowedEvent(i) == [type |-> "decision.allowed", of |-> i]

Recorded(d) == d.pc \in {"audit", "job", "auditJob"}
Waiting(d) == d.pc \in {"audit", "job"} /\ d.job = 0
Permitted(d) == d.pc \in {"record", "audit", "job"} /\ d.ok /\ d.job = 0
Admitting == {r \in DReplicas : Permitted(desk[r])}
QuotaLimit == IF PlanJobs > FallbackJobs THEN PlanJobs ELSE FallbackJobs

DecTypes ==
    /\ decided \in Seq(DecRow) /\ queue \in Seq(QueueRow) /\ trail \in Seq(TrailRow)
    /\ desk \in [DReplicas -> DesksType] /\ decFaults \in Nat /\ overlapping \in BOOLEAN

(* What a handler holds, given the records and the trail.                  *)
DeskOK(d, rows, events) ==
    /\ d.pc \in {"find", "gate"} => ~d.ok
    /\ d.pc \in {"find", "gate", "record"} => d.job = 0
    /\ d.pc = "job" => d.ok /\ d.wants /\ d.job = 0
    /\ d.pc = "audit" /\ d.job # 0 => d.path = "store" /\ d.ok
    /\ Recorded(d) => /\ d.did \in 1..Len(rows) /\ (rows[d.did].ok <=> d.ok)
                      /\ (rows[d.did].wants <=> d.wants) /\ rows[d.did].path = d.path
    /\ d.pc = "job" /\ d.path = "router" => AllowedEvent(d.did) \in ToSet(events)

EventOK(e, rows) ==
    e.type \in {"decision.allowed", "decision.denied"} =>
        e.of \in 1..Len(rows) /\ (rows[e.of].ok <=> e.type = "decision.allowed")

DesksInv ==
    \A r \in DReplicas :
        /\ DeskOK(desk[r], decided, trail)
        /\ Waiting(desk[r]) =>
              /\ \A j \in 1..Len(queue) : queue[j].did # desk[r].did
              /\ \A q \in DReplicas : Waiting(desk[q]) /\ desk[q].did = desk[r].did => q = r

QueueInv ==
    /\ \A j \in 1..Len(queue) :
          /\ queue[j].did \in 1..Len(decided) /\ decided[queue[j].did].ok /\ decided[queue[j].did].wants
          /\ decided[queue[j].did].path = "router" => AllowedEvent(queue[j].did) \in ToSet(trail)
    /\ \A i, j \in 1..Len(queue) : queue[i].did = queue[j].did => i = j

TrailInv ==
    \A e \in ToSet(trail) : EventOK(e, decided)

QuotaInv == Len(queue) + Cardinality(Admitting) <= QuotaLimit + Cardinality(DReplicas) - 1

AloneInv ==
    ~overlapping =>
        /\ \A r, q \in DReplicas : desk[r].pc # "idle" /\ desk[q].pc # "idle" => r = q
        /\ \A r \in DReplicas :
              desk[r].path = "router" /\ desk[r].pc \in {"gate", "record"} /\ desk[r].key # NoIdemKey =>
                 \A i \in 1..Len(decided) : decided[i].key # desk[r].key
        /\ \A i, j \in 1..Len(decided) :
              decided[i].key = decided[j].key /\ decided[i].key # NoIdemKey /\ decided[j].path = "router" => i >= j

FollowedInv ==
    decFaults = 0 =>
        \A i \in 1..Len(decided) : decided[i].ok /\ decided[i].wants =>
            \/ \E j \in 1..Len(queue) : queue[j].did = i
            \/ \E r \in DReplicas : Waiting(desk[r]) /\ desk[r].did = i

DecisionsIInv == DecTypes /\ DesksInv /\ QueueInv /\ TrailInv /\ QuotaInv /\ AloneInv /\ FollowedInv


LEMMA AppendedSet ==
    ASSUME NEW S, NEW s \in Seq(S), NEW e \in S
    PROVE  Append(s, e) \in Seq(S) /\ ToSet(Append(s, e)) = ToSet(s) \cup {e}
  <1> DEFINE n == Len(s)
             u == Append(s, e)
  <1>1. n \in Nat /\ DOMAIN s = 1..n
    BY LenProperties
  <1>2. u \in Seq(S) /\ Len(u) = n + 1 /\ u[n + 1] = e /\ \A i \in 1..n : u[i] = s[i]
    BY AppendProperties
  <1>3. DOMAIN u = 1..(n + 1)
    BY <1>2, LenProperties
  <1> HIDE DEF n, u
  <1>4. 1..(n + 1) = (1..n) \cup {n + 1}
    BY <1>1
  <1>5. ToSet(u) = ToSet(s) \cup {e}
    BY <1>1, <1>2, <1>3, <1>4 DEF ToSet
  <1> QED BY <1>2, <1>5 DEF u

LEMMA AuditedSet ==
    ASSUME trail \in Seq(TrailRow), NEW y, NEW i, [type |-> y, of |-> i] \in TrailRow
    PROVE  /\ Audited(y, i) \in Seq(TrailRow)
           /\ ToSet(Audited(y, i)) = ToSet(trail) \cup {[type |-> y, of |-> i]}
  <1> DEFINE e == [type |-> y, of |-> i]
  <1>1. Append(trail, e) \in Seq(TrailRow) /\ ToSet(Append(trail, e)) = ToSet(trail) \cup {e}
    BY AppendedSet
  <1>2. Audited(y, i) = IF i # 0 /\ e \in ToSet(trail) THEN trail ELSE Append(trail, e)
    BY DEF Audited
  <1> HIDE DEF e
  <1>3. Audited(y, i) \in Seq(TrailRow) /\ ToSet(Audited(y, i)) = ToSet(trail) \cup {e}
    BY <1>1, <1>2
  <1> QED BY <1>3 DEF e

LEMMA DecisionsInitInv == DecisionsInit => DecisionsIInv
  <1> SUFFICES ASSUME DecisionsInit PROVE DecisionsIInv
    OBVIOUS
  <1>0. /\ decided = <<>> /\ queue = <<>> /\ trail = <<>> /\ desk = [r \in DReplicas |-> AtDesk]
        /\ decFaults = 0 /\ overlapping = FALSE
    BY DEF DecisionsInit
  <1>1. Len(<<>>) = 0 /\ 1..0 = {} /\ DOMAIN <<>> = {} /\ ToSet(<<>>) = {}
    BY EmptySeq DEF ToSet
  <1>2. AtDesk \in DesksType /\ AtDesk.pc = "idle"
    BY DEF AtDesk, DesksType, Paths
  <1>3. DecTypes
    BY <1>0, <1>2, EmptySeq DEF DecTypes
  <1>4. \A r \in DReplicas : desk[r].pc = "idle"
    BY <1>0, <1>2
  <1>5. DesksInv
    BY <1>4 DEF DesksInv, DeskOK, Waiting, Recorded
  <1>6. QueueInv /\ TrailInv
    BY <1>0, <1>1 DEF QueueInv, TrailInv
  <1>7. QuotaInv
    <2>1. Admitting = {}
      BY <1>4 DEF Admitting, Permitted
    <2>2. Cardinality(Admitting) = 0
      BY <2>1, FS_EmptySet
    <2>3. Cardinality(DReplicas) \in Nat /\ Cardinality(DReplicas) # 0
      BY DecisionAssumption, FS_CardinalityType, FS_EmptySet
    <2>4. QuotaLimit \in Nat
      BY DecisionAssumption DEF QuotaLimit
    <2> QED BY <1>0, <1>1, <2>2, <2>3, <2>4 DEF QuotaInv
  <1>8. AloneInv
    BY <1>0, <1>1, <1>4 DEF AloneInv
  <1>9. FollowedInv
    BY <1>0, <1>1 DEF FollowedInv
  <1> QED BY <1>3, <1>5, <1>6, <1>7, <1>8, <1>9 DEF DecisionsIInv

(* A desk moves, the tables of records and jobs do not.                    *)
LEMMA DeskMoves ==
    ASSUME DecisionsIInv, NEW r \in DReplicas, NEW f \in DesksType, desk' = [desk EXCEPT ![r] = f],
           UNCHANGED <<decided, queue>>, trail' \in Seq(TrailRow), ToSet(trail) \subseteq ToSet(trail'),
           DeskOK(f, decided, trail'), Waiting(f) => Waiting(desk[r]) /\ f.did = desk[r].did,
           Permitted(f) => Permitted(desk[r]) \/ Len(queue) < QuotaLimit,
           decFaults' \in Nat, overlapping' \in BOOLEAN
    PROVE  DecTypes' /\ DesksInv' /\ QueueInv' /\ QuotaInv'
  <1>t. DecTypes
    BY DEF DecisionsIInv
  <1>1. desk \in [DReplicas -> DesksType] /\ desk' \in [DReplicas -> DesksType]
    BY <1>t DEF DecTypes
  <1>2. desk'[r] = f /\ \A q \in DReplicas : q # r => desk'[q] = desk[q]
    BY <1>1
  <1>3. DecTypes'
    BY <1>1, <1>t DEF DecTypes
  <1>4. DesksInv'
    <2>1. \A q \in DReplicas : DeskOK(desk[q], decided, trail)
      BY DEF DecisionsIInv, DesksInv
    <2>2. \A q \in DReplicas : DeskOK(desk[q], decided, trail')
      BY <2>1 DEF DeskOK
    <2>3. \A q \in DReplicas : DeskOK(desk'[q], decided, trail')
      BY <1>2, <2>2
    <2>4. \A q \in DReplicas : Waiting(desk'[q]) => Waiting(desk[q]) /\ desk'[q].did = desk[q].did
      BY <1>2
    <2>5. \A q \in DReplicas : Waiting(desk[q]) =>
             /\ \A j \in 1..Len(queue) : queue[j].did # desk[q].did
             /\ \A p \in DReplicas : Waiting(desk[p]) /\ desk[p].did = desk[q].did => p = q
      BY DEF DecisionsIInv, DesksInv
    <2>6. \A q \in DReplicas : Waiting(desk'[q]) =>
             /\ \A j \in 1..Len(queue) : queue[j].did # desk'[q].did
             /\ \A p \in DReplicas : Waiting(desk'[p]) /\ desk'[p].did = desk'[q].did => p = q
      BY <2>4, <2>5
    <2>7. \A q \in DReplicas : Waiting(desk[q])' <=> Waiting(desk'[q])
      BY DEF Waiting
    <2>8. \A q \in DReplicas : DeskOK(desk[q], decided, trail)'
      BY <2>3 DEF DeskOK, Recorded, AllowedEvent, ToSet
    <2> QED BY <2>6, <2>7, <2>8 DEF DesksInv
  <1>5. QueueInv'
    BY DEF DecisionsIInv, QueueInv, AllowedEvent
  <1>6. QuotaInv'
    <2> DEFINE m == Cardinality(Admitting)
               d == Cardinality(DReplicas)
               k == Len(queue)
    <2>1. IsFiniteSet(DReplicas) /\ d \in Nat /\ k \in Nat /\ QuotaLimit \in Nat
      BY <1>t, DecisionAssumption, FS_CardinalityType, LenProperties DEF DecTypes, QuotaLimit
    <2>2. Admitting \subseteq DReplicas /\ Admitting' \subseteq DReplicas
      BY DEF Admitting
    <2>3. k + m <= QuotaLimit + d - 1
      BY DEF DecisionsIInv, QuotaInv
    <2>4. CASE Permitted(f) => Permitted(desk[r])
      <3>1. Admitting' \subseteq Admitting
        BY <1>2, <2>4 DEF Admitting, Permitted
      <3>2. IsFiniteSet(Admitting) /\ m \in Nat
        BY <2>1, <2>2, SubsetCount
      <3>3. Cardinality(Admitting') <= m /\ Cardinality(Admitting') \in Nat
        BY <3>1, <3>2, SubsetCount
      <3> HIDE DEF m, d, k
      <3>4. k + Cardinality(Admitting') <= QuotaLimit + d - 1
        BY <2>1, <2>3, <3>2, <3>3
      <3> QED BY <3>4 DEF QuotaInv, k, d, QuotaLimit
    <2>5. CASE k < QuotaLimit
      <3>1. Cardinality(Admitting') <= d /\ Cardinality(Admitting') \in Nat
        BY <2>1, <2>2, SubsetCount
      <3> HIDE DEF m, d, k
      <3>4. k + Cardinality(Admitting') <= QuotaLimit + d - 1
        BY <2>1, <2>5, <3>1
      <3> QED BY <3>4 DEF QuotaInv, k, d, QuotaLimit
    <2> QED BY <2>4, <2>5
  <1> QED BY <1>3, <1>4, <1>5, <1>6

LEMMA DeskMovesAlone ==
    ASSUME DecisionsIInv, NEW r \in DReplicas, NEW f, desk' = [desk EXCEPT ![r] = f], UNCHANGED decided,
           ~overlapping' => /\ ~overlapping
                            /\ f.pc # "idle" => desk[r].pc # "idle" \/ \A q \in DReplicas : desk[q].pc = "idle"
                            /\ f.path = "router" /\ f.pc \in {"gate", "record"} /\ f.key # NoIdemKey =>
                                  \A i \in 1..Len(decided) : decided[i].key # f.key
    PROVE  AloneInv'
  <1> SUFFICES ASSUME ~overlapping' PROVE AloneInv'
    BY DEF AloneInv
  <1>1. /\ \A p, q \in DReplicas : desk[p].pc # "idle" /\ desk[q].pc # "idle" => p = q
        /\ \A p \in DReplicas :
              desk[p].path = "router" /\ desk[p].pc \in {"gate", "record"} /\ desk[p].key # NoIdemKey =>
                 \A i \in 1..Len(decided) : decided[i].key # desk[p].key
        /\ \A i, j \in 1..Len(decided) :
              decided[i].key = decided[j].key /\ decided[i].key # NoIdemKey /\ decided[j].path = "router" => i >= j
    BY DEF DecisionsIInv, AloneInv
  <1>2. desk'[r] = f /\ \A q \in DReplicas : q # r => desk'[q] = desk[q]
    BY DEF DecisionsIInv, DecTypes
  <1>3. \A p, q \in DReplicas : desk'[p].pc # "idle" /\ desk'[q].pc # "idle" => p = q
    BY <1>1, <1>2
  <1>4. \A p \in DReplicas :
           desk'[p].path = "router" /\ desk'[p].pc \in {"gate", "record"} /\ desk'[p].key # NoIdemKey =>
              \A i \in 1..Len(decided) : decided[i].key # desk'[p].key
    BY <1>1, <1>2
  <1> QED BY <1>1, <1>3, <1>4 DEF AloneInv

LEMMA DeskMovesFollowed ==
    ASSUME DecisionsIInv, NEW r \in DReplicas, NEW f, desk' = [desk EXCEPT ![r] = f], UNCHANGED <<decided, queue>>,
           decFaults' = 0 => /\ decFaults = 0
                             /\ Waiting(desk[r]) => \/ Waiting(f) /\ f.did = desk[r].did
                                                    \/ ~(desk[r].ok /\ desk[r].wants)
    PROVE  FollowedInv'
  <1> SUFFICES ASSUME decFaults' = 0, NEW i \in 1..Len(decided), decided[i].ok, decided[i].wants,
                      ~(\E j \in 1..Len(queue) : queue[j].did = i)
               PROVE  \E q \in DReplicas : Waiting(desk'[q]) /\ desk'[q].did = i
    BY DEF FollowedInv, Waiting
  <1>1. PICK q \in DReplicas : Waiting(desk[q]) /\ desk[q].did = i
    BY DEF DecisionsIInv, FollowedInv
  <1>2. desk'[r] = f /\ (q # r => desk'[q] = desk[q])
    BY DEF DecisionsIInv, DecTypes
  <1>3. (decided[desk[q].did].ok <=> desk[q].ok) /\ (decided[desk[q].did].wants <=> desk[q].wants)
    BY <1>1 DEF DecisionsIInv, DesksInv, DeskOK, Waiting, Recorded
  <1> QED BY <1>1, <1>2, <1>3

LEMMA EventsAdded ==
    ASSUME DecisionsIInv, UNCHANGED decided, NEW e, ToSet(trail') \subseteq ToSet(trail) \cup {e}, EventOK(e, decided)
    PROVE  TrailInv'
  <1>1. \A x \in ToSet(trail') : EventOK(x, decided)
    BY DEF DecisionsIInv, TrailInv
  <1>2. \A x \in ToSet(trail') : EventOK(x, decided')
    BY <1>1
  <1> QED BY <1>2 DEF TrailInv, ToSet, EventOK


(* Changing a step of a handler.                                           *)
LEMMA DeskFields ==
    ASSUME NEW d \in DesksType
    PROVE  /\ d = [pc |-> d.pc, path |-> d.path, key |-> d.key, wants |-> d.wants, ok |-> d.ok, did |-> d.did, job |-> d.job]
           /\ d.path \in Paths /\ d.key \in IdemKeys \cup {NoIdemKey} /\ d.wants \in BOOLEAN /\ d.ok \in BOOLEAN
           /\ d.did \in Nat /\ d.job \in Nat
  BY DEF DesksType

LEMMA AtDeskIs ==
    /\ AtDesk \in DesksType /\ AtDesk.pc = "idle" /\ AtDesk.path = "router" /\ AtDesk.wants /\ ~AtDesk.ok
    /\ AtDesk.did = 0 /\ AtDesk.job = 0
  BY DEF AtDesk, DesksType, Paths

(* The first step of a request.                                            *)
LEMMA AskMoves ==
    ASSUME DecisionsIInv, NEW r \in DReplicas, Asking(r), UNCHANGED trail, NEW f \in DesksType,
           desk' = [desk EXCEPT ![r] = f], f.pc \in {"find", "gate", "record"}, f.job = 0, ~f.ok,
           ~(f.path = "router" /\ f.pc \in {"gate", "record"})
    PROVE  DecisionsIInv'
  <1>0. /\ desk[r].pc = "idle" /\ UNCHANGED <<decided, queue, decFaults>>
        /\ overlapping' = (overlapping \/ \E q \in DReplicas : desk[q].pc # "idle")
    BY DEF Asking
  <1>t. DecTypes
    BY DEF DecisionsIInv
  <1>1. ~overlapping' => ~overlapping /\ \A q \in DReplicas : desk[q].pc = "idle"
    BY <1>0
  <1>2. overlapping' \in BOOLEAN
    BY <1>0
  <1>3. DeskOK(f, decided, trail') /\ ~Waiting(f) /\ ~Permitted(f)
    BY DEF DeskOK, Waiting, Permitted, Recorded
  <1>4. DecTypes' /\ DesksInv' /\ QueueInv' /\ QuotaInv'
    BY <1>0, <1>2, <1>3, <1>t, DeskMoves DEF DecTypes
  <1>5. AloneInv'
    BY <1>0, <1>1, DeskMovesAlone
  <1>6. ~Waiting(desk[r])
    BY <1>0 DEF Waiting
  <1>7. FollowedInv'
    BY <1>0, <1>6, DeskMovesFollowed
  <1>8. TrailInv'
    BY <1>0 DEF DecisionsIInv, TrailInv
  <1> QED BY <1>4, <1>5, <1>7, <1>8 DEF DecisionsIInv

LEMMA AskRouterInv ==
    ASSUME DecisionsIInv, NEW r \in DReplicas, NEW k \in IdemKeys \cup {NoIdemKey}, NEW w \in BOOLEAN, AskRouter(r, k, w)
    PROVE  DecisionsIInv'
  <1>a. Asking(r)
    BY DEF AskRouter
  <1>t. DecTypes
    BY DEF DecisionsIInv
  <1>1. CASE trail' = Audited("policy.denied", 0) /\ UNCHANGED desk
    <2> DEFINE e == [type |-> "policy.denied", of |-> 0]
    <2>0. /\ UNCHANGED <<decided, queue, decFaults, desk>>
          /\ overlapping' = (overlapping \/ \E q \in DReplicas : desk[q].pc # "idle")
      BY <1>1, <1>a DEF Asking
    <2>1. e \in TrailRow /\ EventOK(e, decided)
      BY DEF TrailRow, EventOK
    <2>2. trail' \in Seq(TrailRow) /\ ToSet(trail') = ToSet(trail) \cup {e}
      BY <1>1, <1>t, <2>1, AuditedSet DEF DecTypes
    <2>3. TrailInv'
      BY <2>0, <2>1, <2>2, EventsAdded
    <2> DEFINE f == desk[r]
    <2>4. desk' = [desk EXCEPT ![r] = f] /\ f \in DesksType
      BY <1>t, <2>0 DEF DecTypes
    <2>5. DeskOK(f, decided, trail')
      BY <2>2 DEF DecisionsIInv, DesksInv, DeskOK
    <2>6. overlapping' \in BOOLEAN /\ (~overlapping' => ~overlapping)
      BY <2>0
    <2>7. DecTypes' /\ DesksInv' /\ QueueInv' /\ QuotaInv'
      BY <1>t, <2>0, <2>2, <2>4, <2>5, <2>6, DeskMoves DEF DecTypes
    <2>8. ~overlapping => (f.path = "router" /\ f.pc \in {"gate", "record"} /\ f.key # NoIdemKey =>
                              \A i \in 1..Len(decided) : decided[i].key # f.key)
      BY DEF DecisionsIInv, AloneInv
    <2>9. AloneInv'
      BY <2>0, <2>4, <2>6, <2>8, DeskMovesAlone
    <2>10. FollowedInv'
      BY <2>0, <2>4, DeskMovesFollowed
    <2> QED BY <2>3, <2>7, <2>9, <2>10 DEF DecisionsIInv
  <1>2. CASE Stands(r, [AtDesk EXCEPT !.pc = "find", !.key = k, !.wants = w]) /\ UNCHANGED trail
    <2> DEFINE a == AtDesk
               f1 == [a EXCEPT !.pc = "find"]
               f2 == [f1 EXCEPT !.key = k]
               f == [f2 EXCEPT !.wants = w]
    <2>2. desk' = [desk EXCEPT ![r] = f]
      BY <1>2 DEF Stands
    <2>0. a \in DesksType /\ a.path = "router" /\ ~a.ok /\ a.job = 0
      BY AtDeskIs
    <2> HIDE DEF a
    <2>4. f1 = [pc |-> "find", path |-> a.path, key |-> a.key, wants |-> a.wants, ok |-> a.ok, did |-> a.did, job |-> a.job]
      BY <2>0, DeskFields
    <2> HIDE DEF f1
    <2>5. f2 = [pc |-> "find", path |-> a.path, key |-> k, wants |-> a.wants, ok |-> a.ok, did |-> a.did, job |-> a.job]
      BY <2>4
    <2> HIDE DEF f2
    <2>6. f = [pc |-> "find", path |-> a.path, key |-> k, wants |-> w, ok |-> a.ok, did |-> a.did, job |-> a.job]
      BY <2>5
    <2> HIDE DEF f
    <2>7. f \in DesksType
      BY <2>0, <2>6, DeskFields DEF DesksType
    <2>3. f \in DesksType /\ f.pc = "find" /\ f.job = 0 /\ ~f.ok
      BY <2>0, <2>6, <2>7
    <2> QED BY <1>2, <1>a, <2>2, <2>3, AskMoves
  <1> QED BY <1>1, <1>2, Zenon DEF AskRouter

LEMMA AskServiceInv ==
    ASSUME DecisionsIInv, NEW r \in DReplicas, NEW k \in IdemKeys, AskService(r, k) \/ AskStore(r, k)
    PROVE  DecisionsIInv'
  <1>1. ASSUME NEW pc \in {"gate", "record"}, NEW path \in {"service", "store"}, Asking(r), UNCHANGED trail,
               Stands(r, [AtDesk EXCEPT !.pc = pc, !.path = path, !.key = k])
        PROVE  DecisionsIInv'
    <2> DEFINE a == AtDesk
               f1 == [a EXCEPT !.pc = pc]
               f2 == [f1 EXCEPT !.path = path]
               f == [f2 EXCEPT !.key = k]
    <2>2. desk' = [desk EXCEPT ![r] = f]
      BY <1>1 DEF Stands
    <2>0. a \in DesksType /\ ~a.ok /\ a.job = 0
      BY AtDeskIs
    <2> HIDE DEF a
    <2>5. f1 = [pc |-> pc, path |-> a.path, key |-> a.key, wants |-> a.wants, ok |-> a.ok, did |-> a.did, job |-> a.job]
      BY <2>0, DeskFields
    <2> HIDE DEF f1
    <2>6. f2 = [pc |-> pc, path |-> path, key |-> a.key, wants |-> a.wants, ok |-> a.ok, did |-> a.did, job |-> a.job]
      BY <2>5
    <2> HIDE DEF f2
    <2>7. f = [pc |-> pc, path |-> path, key |-> k, wants |-> a.wants, ok |-> a.ok, did |-> a.did, job |-> a.job]
      BY <2>6
    <2> HIDE DEF f
    <2>8. f \in DesksType
      BY <2>0, <2>7, DeskFields DEF DesksType, Paths
    <2>3. f \in DesksType /\ f.pc = pc /\ f.job = 0 /\ ~f.ok /\ f.path = path
      BY <2>0, <2>7, <2>8
    <2>4. path # "router"
      OBVIOUS
    <2> QED BY <1>1, <2>2, <2>3, <2>4, AskMoves
  <1>2. CASE AskService(r, k)
    BY <1>1, <1>2, Zenon DEF AskService
  <1>3. CASE AskStore(r, k)
    <2> DEFINE pc == IF subscribed = "active" THEN "gate" ELSE "record"
    <2>1. pc \in {"gate", "record"}
      OBVIOUS
    <2>2. Asking(r) /\ UNCHANGED trail /\ Stands(r, [AtDesk EXCEPT !.pc = pc, !.path = "store", !.key = k])
      BY <1>3, Zenon DEF AskStore
    <2> HIDE DEF pc
    <2> QED BY <1>1, <2>1, <2>2, Zenon
  <1> QED BY <1>2, <1>3

(* A handler goes back to its desk.                                        *)
LEMMA DeskLeaves ==
    ASSUME DecisionsIInv, NEW r \in DReplicas, Stands(r, AtDesk), UNCHANGED <<decided, queue, overlapping>>,
           trail' \in Seq(TrailRow), ToSet(trail) \subseteq ToSet(trail'), TrailInv', decFaults' \in Nat,
           decFaults' = 0 => decFaults = 0 /\ (Waiting(desk[r]) => ~(desk[r].ok /\ desk[r].wants))
    PROVE  DecisionsIInv'
  <1>0. desk' = [desk EXCEPT ![r] = AtDesk]
    BY DEF Stands
  <1>1. AtDesk \in DesksType /\ AtDesk.pc = "idle"
    BY DEF AtDesk, DesksType, Paths
  <1>2. DeskOK(AtDesk, decided, trail') /\ ~Waiting(AtDesk) /\ ~Permitted(AtDesk)
    BY <1>1 DEF DeskOK, Waiting, Permitted, Recorded
  <1>3. overlapping' \in BOOLEAN
    BY DEF DecisionsIInv, DecTypes
  <1>4. DecTypes' /\ DesksInv' /\ QueueInv' /\ QuotaInv'
    BY <1>0, <1>1, <1>2, <1>3, DeskMoves
  <1>5. AloneInv'
    BY <1>0, <1>1, DeskMovesAlone
  <1>6. FollowedInv'
    BY <1>0, DeskMovesFollowed
  <1> QED BY <1>4, <1>5, <1>6 DEF DecisionsIInv

LEMMA FindDecisionInv == ASSUME DecisionsIInv, NEW r \in DReplicas, FindDecision(r) PROVE DecisionsIInv'
  <1>0. /\ desk[r].pc = "find" /\ UNCHANGED <<decided, queue, trail, decFaults, overlapping>>
        /\ Stands(r, IF desk[r].key # NoIdemKey /\ FoundByKey(desk[r].key) # {}
                 THEN AtDesk ELSE [desk[r] EXCEPT !.pc = "gate"])
    BY DEF FindDecision
  <1>t. DecTypes /\ TrailInv
    BY DEF DecisionsIInv
  <1>1. TrailInv' /\ trail' \in Seq(TrailRow) /\ decFaults' \in Nat /\ overlapping' \in BOOLEAN
    BY <1>0, <1>t DEF DecTypes, TrailInv
  <1>w. ~Waiting(desk[r])
    BY <1>0 DEF Waiting
  <1>2. CASE Stands(r, AtDesk)
    BY <1>0, <1>1, <1>2, <1>w, DeskLeaves
  <1>3. CASE Stands(r, [desk[r] EXCEPT !.pc = "gate"]) /\ ~(desk[r].key # NoIdemKey /\ FoundByKey(desk[r].key) # {})
    <2> DEFINE d == desk[r]
               f == [d EXCEPT !.pc = "gate"]
    <2>1. d \in DesksType /\ d.pc = "find"
      BY <1>0, <1>t DEF DecTypes
    <2>2. desk' = [desk EXCEPT ![r] = f]
      BY <1>3 DEF Stands
    <2>3. ~d.ok /\ d.job = 0
      BY <2>1 DEF DecisionsIInv, DesksInv, DeskOK
    <2>k. d.key # NoIdemKey => \A i \in 1..Len(decided) : decided[i].key # d.key
      <3>1. DOMAIN decided = 1..Len(decided)
        BY <1>t, LenProperties DEF DecTypes
      <3> QED BY <1>3, <3>1 DEF FoundByKey
    <2>i. d = desk[r]
      OBVIOUS
    <2> HIDE DEF d
    <2>4. f = [pc |-> "gate", path |-> d.path, key |-> d.key, wants |-> d.wants, ok |-> d.ok, did |-> d.did, job |-> d.job]
      BY <2>1, DeskFields
    <2>5. f \in DesksType
      BY <2>1, <2>4, DeskFields DEF DesksType
    <2>6. f.pc = "gate" /\ f.ok = d.ok /\ f.job = d.job /\ f.key = d.key
      BY <2>4
    <2> HIDE DEF f
    <2>7. DeskOK(f, decided, trail') /\ ~Waiting(f) /\ ~Permitted(f)
      BY <2>3, <2>6 DEF DeskOK, Waiting, Permitted, Recorded
    <2>8. DecTypes' /\ DesksInv' /\ QueueInv' /\ QuotaInv'
      BY <1>0, <1>1, <2>2, <2>5, <2>7, DeskMoves
    <2>9. AloneInv'
      BY <1>0, <2>2, <2>6, <2>k, DeskMovesAlone
    <2>10. FollowedInv'
      BY <1>0, <1>w, <2>2, DeskMovesFollowed
    <2> QED BY <1>1, <2>8, <2>9, <2>10 DEF DecisionsIInv
  <1> QED BY <1>0, <1>2, <1>3

LEMMA EvaluateGateInv == ASSUME DecisionsIInv, NEW r \in DReplicas, EvaluateGate(r) PROVE DecisionsIInv'
  <1> DEFINE d == desk[r]
  <1>0. d.pc = "gate" /\ UNCHANGED <<decided, queue, trail, decFaults, overlapping>>
    BY DEF EvaluateGate
  <1>t. DecTypes /\ TrailInv
    BY DEF DecisionsIInv
  <1>1. \E ok \in BOOLEAN : Stands(r, [d EXCEPT !.pc = "record", !.ok = ok]) /\ (ok => GateAllows(d.path))
    <2>1. PICK cap \in {-1, 0, 2}, durable \in BOOLEAN, balance \in {1, 2} :
             Stands(r, [d EXCEPT !.pc = "record",
                         !.ok = GateAllows(d.path) /\ (d.path = "store" => SpendCapAllows(cap, durable, balance, 1))])
      BY Zenon DEF EvaluateGate
    <2> DEFINE ok == GateAllows(d.path) /\ (d.path = "store" => SpendCapAllows(cap, durable, balance, 1))
    <2>2. ok \in BOOLEAN /\ (ok => GateAllows(d.path))
      OBVIOUS
    <2>3. Stands(r, [d EXCEPT !.pc = "record", !.ok = ok])
      BY <2>1, Zenon
    <2> HIDE DEF ok
    <2> QED BY <2>2, <2>3, Zenon
  <1>2. PICK ok \in BOOLEAN : Stands(r, [d EXCEPT !.pc = "record", !.ok = ok]) /\ (ok => GateAllows(d.path))
    BY <1>1, Zenon
  <1> DEFINE f == [d EXCEPT !.pc = "record", !.ok = ok]
  <1>3. desk' = [desk EXCEPT ![r] = f] /\ d \in DesksType
    BY <1>2, <1>t DEF Stands, DecTypes
  <1>4. d.job = 0
    BY <1>0 DEF DecisionsIInv, DesksInv, DeskOK
  <1>w. ~Waiting(d)
    BY <1>0 DEF Waiting
  <1>k. ~overlapping => (d.path = "router" /\ d.key # NoIdemKey => \A i \in 1..Len(decided) : decided[i].key # d.key)
    BY <1>0 DEF DecisionsIInv, AloneInv
  <1>5. f = [pc |-> "record", path |-> d.path, key |-> d.key, wants |-> d.wants, ok |-> ok, did |-> d.did, job |-> d.job]
    <2> DEFINE f1 == [d EXCEPT !.pc = "record"]
               f2 == [f1 EXCEPT !.ok = ok]
    <2>i. f = f2
      OBVIOUS
    <2> HIDE DEF d, f
    <2>1. f1 = [pc |-> "record", path |-> d.path, key |-> d.key, wants |-> d.wants, ok |-> d.ok, did |-> d.did, job |-> d.job]
      BY <1>3, DeskFields
    <2> HIDE DEF f1
    <2>2. f2 = [pc |-> "record", path |-> d.path, key |-> d.key, wants |-> d.wants, ok |-> ok, did |-> d.did, job |-> d.job]
      BY <2>1
    <2> HIDE DEF f2
    <2> QED BY <2>2, <2>i
  <1>6. f \in DesksType
    <2> HIDE DEF d, f
    <2> QED BY <1>3, <1>5, DeskFields DEF DesksType
  <1>7. f.pc = "record" /\ f.ok = ok /\ f.job = d.job /\ f.key = d.key /\ f.path = d.path
    BY <1>5
  <1>8. ok => Len(queue) < QuotaLimit
    <2>1. Len(queue) \in Nat
      BY <1>t, LenProperties DEF DecTypes
    <2> QED BY <1>2, <2>1, DecisionAssumption DEF GateAllows, JobsCounted, QuotaLimit
  <1> HIDE DEF f
  <1>9. DeskOK(f, decided, trail') /\ ~Waiting(f) /\ (Permitted(f) => Len(queue) < QuotaLimit)
    BY <1>4, <1>7, <1>8 DEF DeskOK, Waiting, Permitted, Recorded
  <1>10. trail' \in Seq(TrailRow) /\ decFaults' \in Nat /\ overlapping' \in BOOLEAN /\ TrailInv'
    BY <1>0, <1>t DEF DecTypes, TrailInv
  <1>11. DecTypes' /\ DesksInv' /\ QueueInv' /\ QuotaInv'
    BY <1>0, <1>3, <1>6, <1>9, <1>10, DeskMoves
  <1>12. AloneInv'
    BY <1>0, <1>3, <1>7, <1>k, DeskMovesAlone
  <1>13. FollowedInv'
    BY <1>0, <1>3, <1>w, DeskMovesFollowed
  <1> QED BY <1>10, <1>11, <1>12, <1>13 DEF DecisionsIInv


LEMMA RecordDecisionInv == ASSUME DecisionsIInv, NEW r \in DReplicas, RecordDecision(r) PROVE DecisionsIInv'
  <1> DEFINE d == desk[r]
             x == [key |-> d.key, ok |-> d.ok, path |-> d.path, wants |-> d.wants]
             n == Len(decided)
             f1 == [d EXCEPT !.pc = "audit"]
             f == [f1 EXCEPT !.did = n + 1]
  <1>0. /\ d.pc = "record" /\ decided' = Append(decided, x) /\ desk' = [desk EXCEPT ![r] = f]
        /\ UNCHANGED <<queue, trail, decFaults, overlapping>>
    BY DEF RecordDecision, Stands
  <1>t. DecTypes
    BY DEF DecisionsIInv
  <1>a. /\ decided \in Seq(DecRow) /\ queue \in Seq(QueueRow) /\ desk \in [DReplicas -> DesksType]
        /\ overlapping \in BOOLEAN /\ decFaults \in Nat /\ trail \in Seq(TrailRow)
    BY <1>t DEF DecTypes
  <1>1. n \in Nat /\ d \in DesksType /\ d.job = 0
    BY <1>0, <1>a, LenProperties DEF DecisionsIInv, DesksInv, DeskOK
  <1>k. ~overlapping => (d.path = "router" /\ d.key # NoIdemKey => \A i \in 1..n : decided[i].key # d.key)
    BY <1>0 DEF DecisionsIInv, AloneInv
  <1>s. ~overlapping => \A q \in DReplicas : q # r => desk[q].pc = "idle"
    BY <1>0 DEF DecisionsIInv, AloneInv
  <1>i. d = desk[r]
    OBVIOUS
  <1> HIDE DEF d
  <1>2. x \in DecRow /\ x.key = d.key /\ x.path = d.path
    BY <1>1, DeskFields DEF DecRow
  <1>b. (x.ok <=> d.ok) /\ (x.wants <=> d.wants)
    BY <1>1, DeskFields
  <1> HIDE DEF x
  <1>3. /\ decided' \in Seq(DecRow) /\ Len(decided') = n + 1 /\ decided'[n + 1] = x
        /\ \A i \in 1..n : decided'[i] = decided[i]
    BY <1>0, <1>2, <1>a, AppendProperties
  <1> HIDE DEF n
  <1>4. \A i \in 1..(n + 1) : i \in 1..n \/ i = n + 1
    BY <1>1
  <1>5. n + 1 \in 1..(n + 1) /\ n + 1 \in Nat /\ n + 1 \notin 1..n /\ 1..n \subseteq 1..(n + 1)
    BY <1>1
  <1>6. f1 = [pc |-> "audit", path |-> d.path, key |-> d.key, wants |-> d.wants, ok |-> d.ok, did |-> d.did, job |-> d.job]
    BY <1>1, DeskFields
  <1> HIDE DEF f1
  <1>7. f = [pc |-> "audit", path |-> d.path, key |-> d.key, wants |-> d.wants, ok |-> d.ok, did |-> n + 1, job |-> d.job]
    BY <1>6
  <1>8. f \in DesksType
    BY <1>1, <1>5, <1>7, DeskFields DEF DesksType
  <1>9. f.pc = "audit" /\ f.path = d.path /\ f.wants = d.wants /\ f.ok = d.ok /\ f.did = n + 1 /\ f.job = 0
    BY <1>1, <1>7
  <1> HIDE DEF f
  <1>10. desk'[r] = f /\ \A q \in DReplicas : q # r => desk'[q] = desk[q]
    BY <1>0, <1>a
  <1>11. desk' \in [DReplicas -> DesksType]
    BY <1>0, <1>8, <1>a
  <1>12. DecTypes'
    BY <1>0, <1>3, <1>11, <1>a DEF DecTypes
  <1>13. \A q \in DReplicas : DeskOK(desk'[q], decided', trail)
    <2>1. \A q \in DReplicas : DeskOK(desk[q], decided, trail)
      BY DEF DecisionsIInv, DesksInv
    <2>2. ASSUME NEW e, DeskOK(e, decided, trail) PROVE DeskOK(e, decided', trail)
      BY <1>3, <1>5, <2>2 DEF DeskOK, n
    <2>3. DeskOK(f, decided', trail)
      BY <1>3, <1>5, <1>9, <1>2, <1>b DEF DeskOK, Recorded
    <2> QED BY <1>10, <2>1, <2>2, <2>3
  <1>14. \A q \in DReplicas : q # r /\ Waiting(desk[q]) => desk[q].did \in 1..n
    BY DEF DecisionsIInv, DesksInv, DeskOK, Waiting, Recorded, n
  <1>15. \A j \in 1..Len(queue) : queue[j].did \in 1..n
    BY DEF DecisionsIInv, QueueInv, n
  <1>w. ~Waiting(d)
    BY <1>0 DEF Waiting
  <1>16. DesksInv'
    <2>1. ASSUME NEW q \in DReplicas, Waiting(desk'[q])
          PROVE  /\ \A j \in 1..Len(queue) : queue[j].did # desk'[q].did
                 /\ \A p \in DReplicas : Waiting(desk'[p]) /\ desk'[p].did = desk'[q].did => p = q
      <3>1. CASE q = r
        BY <1>5, <1>9, <1>10, <1>14, <1>15, <3>1
      <3>2. CASE q # r
        <4>1. Waiting(desk[q]) /\ desk'[q] = desk[q]
          BY <1>10, <2>1, <3>2
        <4>2. /\ \A j \in 1..Len(queue) : queue[j].did # desk[q].did
              /\ \A p \in DReplicas : Waiting(desk[p]) /\ desk[p].did = desk[q].did => p = q
          BY <4>1 DEF DecisionsIInv, DesksInv
        <4>3. desk'[r].did # desk[q].did
          BY <1>5, <1>9, <1>10, <1>14, <3>2, <4>1
        <4> QED BY <1>10, <4>1, <4>2, <4>3
      <3> QED BY <3>1, <3>2
    <2>2. \A q \in DReplicas : DeskOK(desk[q], decided, trail)'
      BY <1>0, <1>13 DEF DeskOK, Recorded, AllowedEvent, ToSet
    <2>3. \A q \in DReplicas : Waiting(desk[q])' <=> Waiting(desk'[q])
      BY DEF Waiting
    <2> QED BY <1>0, <2>1, <2>2, <2>3 DEF DesksInv
  <1>17. QueueInv'
    <2>1. /\ \A j \in 1..Len(queue) :
                /\ decided[queue[j].did].ok /\ decided[queue[j].did].wants
                /\ decided[queue[j].did].path = "router" => AllowedEvent(queue[j].did) \in ToSet(trail)
          /\ \A i, j \in 1..Len(queue) : queue[i].did = queue[j].did => i = j
      BY DEF DecisionsIInv, QueueInv
    <2>2. \A j \in 1..Len(queue) : queue[j].did \in 1..Len(decided') /\ decided'[queue[j].did] = decided[queue[j].did]
      BY <1>3, <1>5, <1>15
    <2> QED BY <1>0, <2>1, <2>2 DEF QueueInv, AllowedEvent
  <1>18. TrailInv'
    <2>1. \A e \in ToSet(trail) : EventOK(e, decided)
      BY DEF DecisionsIInv, TrailInv
    <2>2. \A e \in ToSet(trail) : EventOK(e, decided')
      BY <1>3, <1>5, <2>1 DEF EventOK, n
    <2> QED BY <1>0, <2>2 DEF TrailInv, EventOK, ToSet
  <1>19. QuotaInv'
    <2>1. Permitted(f) <=> Permitted(d)
      BY <1>0, <1>1, <1>9 DEF Permitted
    <2>2. Admitting' = Admitting
      BY <1>10, <2>1, <1>i DEF Admitting, Permitted
    <2> QED BY <1>0, <2>2 DEF DecisionsIInv, QuotaInv
  <1>20. AloneInv'
    <2> SUFFICES ASSUME ~overlapping' PROVE AloneInv'
      BY DEF AloneInv
    <2>0. ~overlapping
      BY <1>0
    <2>1. \A q \in DReplicas : desk'[q].pc # "idle" => q = r
      BY <1>10, <1>s, <2>0
    <2>2. \A q \in DReplicas : desk'[q].pc \notin {"gate", "record"}
      BY <1>9, <1>10, <2>1
    <2>3. \A i, j \in 1..n :
             decided[i].key = decided[j].key /\ decided[i].key # NoIdemKey /\ decided[j].path = "router" => i >= j
      BY <2>0 DEF DecisionsIInv, AloneInv, n
    <2>4. ASSUME NEW i \in 1..(n + 1), NEW j \in 1..(n + 1), decided'[i].key = decided'[j].key,
                 decided'[i].key # NoIdemKey, decided'[j].path = "router"
          PROVE  i >= j
      <3>1. CASE i = n + 1
        BY <1>1, <3>1
      <3>2. CASE i \in 1..n /\ j \in 1..n
        BY <1>3, <2>3, <2>4, <3>2
      <3>3. CASE i \in 1..n /\ j = n + 1
        BY <1>2, <1>3, <1>k, <2>0, <2>4, <3>3
      <3> QED BY <1>4, <3>1, <3>2, <3>3
    <2> QED BY <1>3, <2>1, <2>2, <2>4 DEF AloneInv
  <1>21. FollowedInv'
    <2> SUFFICES ASSUME decFaults' = 0, NEW i \in 1..(n + 1), decided'[i].ok, decided'[i].wants,
                        ~(\E j \in 1..Len(queue) : queue[j].did = i)
                 PROVE  \E q \in DReplicas : Waiting(desk'[q]) /\ desk'[q].did = i
      BY <1>0, <1>3 DEF FollowedInv, Waiting
    <2>1. CASE i = n + 1
      BY <1>9, <1>10, <2>1 DEF Waiting
    <2>2. CASE i \in 1..n
      <3>1. decided[i].ok /\ decided[i].wants /\ decFaults = 0
        BY <1>0, <1>3, <2>2
      <3>2. PICK q \in DReplicas : Waiting(desk[q]) /\ desk[q].did = i
        BY <2>2, <3>1 DEF DecisionsIInv, FollowedInv, n
      <3>3. q # r
        BY <1>i, <1>w, <3>2
      <3> QED BY <1>10, <3>2, <3>3
    <2> QED BY <1>4, <2>1, <2>2
  <1> QED BY <1>12, <1>16, <1>17, <1>18, <1>19, <1>20, <1>21 DEF DecisionsIInv

LEMMA InsertQueuedInv == ASSUME DecisionsIInv, NEW r \in DReplicas, InsertQueued(r) PROVE DecisionsIInv'
  <1> DEFINE d == desk[r]
             x == [did |-> d.did, status |-> "queued"]
             m == Len(queue)
             pc == IF d.path = "store" THEN "audit" ELSE "auditJob"
             f1 == [d EXCEPT !.job = m + 1]
             f == [f1 EXCEPT !.pc = pc]
  <1>0. /\ d.pc = "job" /\ queue' = Append(queue, x) /\ desk' = [desk EXCEPT ![r] = f]
        /\ UNCHANGED <<decided, trail, decFaults, overlapping>>
    BY DEF InsertQueued, Stands
  <1>t. DecTypes
    BY DEF DecisionsIInv
  <1>a. /\ decided \in Seq(DecRow) /\ queue \in Seq(QueueRow) /\ desk \in [DReplicas -> DesksType]
        /\ overlapping \in BOOLEAN /\ decFaults \in Nat /\ trail \in Seq(TrailRow)
    BY <1>t DEF DecTypes
  <1>1. m \in Nat /\ d \in DesksType /\ DeskOK(d, decided, trail)
    BY <1>a, LenProperties DEF DecisionsIInv, DesksInv
  <1>w. Waiting(d) /\ Permitted(d)
    BY <1>0, <1>1 DEF DeskOK, Waiting, Permitted
  <1>u. /\ \A j \in 1..m : queue[j].did # d.did
        /\ \A q \in DReplicas : Waiting(desk[q]) /\ desk[q].did = d.did => q = r
    BY <1>w DEF DecisionsIInv, DesksInv
  <1>i. d = desk[r]
    OBVIOUS
  <1> HIDE DEF d
  <1>2. /\ d.did \in 1..Len(decided) /\ decided[d.did].ok /\ decided[d.did].wants
        /\ decided[d.did].path = "router" => AllowedEvent(d.did) \in ToSet(trail)
    BY <1>0, <1>1 DEF DeskOK, Recorded
  <1>3. x \in QueueRow /\ x.did = d.did
    BY <1>1, DeskFields DEF QueueRow, JobStatuses
  <1> HIDE DEF x
  <1>4. /\ queue' \in Seq(QueueRow) /\ Len(queue') = m + 1 /\ queue'[m + 1] = x
        /\ \A i \in 1..m : queue'[i] = queue[i]
    BY <1>0, <1>3, <1>a, AppendProperties
  <1>l. m = Len(queue)
    OBVIOUS
  <1> HIDE DEF m
  <1>5. \A i \in 1..(m + 1) : i \in 1..m \/ i = m + 1
    BY <1>1
  <1>6. m + 1 \in Nat /\ m + 1 # 0 /\ m + 1 \in 1..(m + 1) /\ 1..m \subseteq 1..(m + 1)
    BY <1>1
  <1>7. pc \in {"audit", "auditJob"} /\ (pc = "audit" => d.path = "store")
    OBVIOUS
  <1> HIDE DEF pc
  <1>8. f1 = [pc |-> d.pc, path |-> d.path, key |-> d.key, wants |-> d.wants, ok |-> d.ok, did |-> d.did, job |-> m + 1]
    BY <1>1, DeskFields
  <1> HIDE DEF f1
  <1>9. f = [pc |-> pc, path |-> d.path, key |-> d.key, wants |-> d.wants, ok |-> d.ok, did |-> d.did, job |-> m + 1]
    BY <1>8
  <1>10. f \in DesksType
    BY <1>1, <1>6, <1>7, <1>9, DeskFields DEF DesksType
  <1>11. f.pc = pc /\ f.path = d.path /\ f.wants = d.wants /\ f.ok = d.ok /\ f.did = d.did /\ f.job = m + 1
    BY <1>9
  <1> HIDE DEF f
  <1>12. desk'[r] = f /\ \A q \in DReplicas : q # r => desk'[q] = desk[q]
    BY <1>0, <1>a
  <1>13. DecTypes'
    <2>1. desk' \in [DReplicas -> DesksType]
      BY <1>0, <1>10, <1>a
    <2> QED BY <1>0, <1>4, <1>a, <2>1 DEF DecTypes
  <1>14. DeskOK(f, decided, trail) /\ ~Waiting(f) /\ ~Permitted(f)
    BY <1>0, <1>1, <1>6, <1>7, <1>11 DEF DeskOK, Waiting, Permitted, Recorded
  <1>15. DesksInv'
    <2>1. \A q \in DReplicas : DeskOK(desk'[q], decided, trail)
      BY <1>12, <1>14 DEF DecisionsIInv, DesksInv
    <2>2. ASSUME NEW q \in DReplicas, Waiting(desk'[q])
          PROVE  /\ \A j \in 1..(m + 1) : queue'[j].did # desk'[q].did
                 /\ \A p \in DReplicas : Waiting(desk'[p]) /\ desk'[p].did = desk'[q].did => p = q
      <3>1. q # r
        BY <1>12, <1>14, <2>2
      <3>2. Waiting(desk[q]) /\ desk'[q] = desk[q]
        BY <1>12, <2>2, <3>1
      <3>3. /\ \A j \in 1..m : queue[j].did # desk[q].did
            /\ \A p \in DReplicas : Waiting(desk[p]) /\ desk[p].did = desk[q].did => p = q
        BY <1>l, <3>2 DEF DecisionsIInv, DesksInv
      <3>4. x.did # desk[q].did
        BY <1>3, <1>u, <3>1, <3>2
      <3>5. \A j \in 1..(m + 1) : queue'[j].did # desk[q].did
        BY <1>4, <1>5, <3>3, <3>4
      <3> QED BY <1>12, <1>14, <3>2, <3>3, <3>5
    <2>3. \A q \in DReplicas : DeskOK(desk[q], decided, trail)'
      BY <1>0, <2>1 DEF DeskOK, Recorded, AllowedEvent, ToSet
    <2>4. \A q \in DReplicas : Waiting(desk[q])' <=> Waiting(desk'[q])
      BY DEF Waiting
    <2> QED BY <1>4, <2>2, <2>3, <2>4 DEF DesksInv
  <1>16. QueueInv'
    <2>1. /\ \A j \in 1..m :
                /\ queue[j].did \in 1..Len(decided) /\ decided[queue[j].did].ok /\ decided[queue[j].did].wants
                /\ decided[queue[j].did].path = "router" => AllowedEvent(queue[j].did) \in ToSet(trail)
          /\ \A i, j \in 1..m : queue[i].did = queue[j].did => i = j
      BY <1>l DEF DecisionsIInv, QueueInv
    <2>2. \A j \in 1..(m + 1) :
             /\ queue'[j].did \in 1..Len(decided) /\ decided[queue'[j].did].ok /\ decided[queue'[j].did].wants
             /\ decided[queue'[j].did].path = "router" => AllowedEvent(queue'[j].did) \in ToSet(trail)
      BY <1>2, <1>3, <1>4, <1>5, <2>1
    <2>3. \A i, j \in 1..(m + 1) : queue'[i].did = queue'[j].did => i = j
      BY <1>3, <1>4, <1>5, <1>u, <2>1
    <2> QED BY <1>0, <1>4, <2>2, <2>3 DEF QueueInv, AllowedEvent
  <1>17. TrailInv'
    BY <1>0 DEF DecisionsIInv, TrailInv
  <1>18. QuotaInv'
    <2> DEFINE c == Cardinality(Admitting)
               k == Cardinality(DReplicas)
               c2 == Cardinality(Admitting')
    <2>1. Admitting' = Admitting \ {r} /\ r \in Admitting
      BY <1>12, <1>14, <1>i, <1>w DEF Admitting, Permitted
    <2>2. IsFiniteSet(Admitting)
      BY DecisionAssumption, FS_Subset DEF Admitting
    <2>3. c \in Nat /\ c2 \in Nat /\ c2 + 1 = c
      BY <2>1, <2>2, DropOneCount
    <2>4. m + c <= QuotaLimit + k - 1
      BY <1>l DEF DecisionsIInv, QuotaInv
    <2>5. k \in Nat /\ QuotaLimit \in Nat
      BY DecisionAssumption, FS_CardinalityType DEF QuotaLimit
    <2> HIDE DEF c, c2, k
    <2>6. (m + 1) + c2 <= QuotaLimit + k - 1
      BY <1>1, <2>3, <2>4, <2>5
    <2> QED BY <1>4, <2>6 DEF QuotaInv, c2, k, QuotaLimit
  <1>19. AloneInv'
    <2>1. d.pc # "idle" /\ f.pc \notin {"gate", "record"}
      BY <1>0, <1>7, <1>11
    <2> QED BY <1>0, <1>i, <2>1, DeskMovesAlone
  <1>20. FollowedInv'
    <2> SUFFICES ASSUME decFaults' = 0, NEW i \in 1..Len(decided), decided[i].ok, decided[i].wants,
                        ~(\E j \in 1..(m + 1) : queue'[j].did = i)
                 PROVE  \E q \in DReplicas : Waiting(desk'[q]) /\ desk'[q].did = i
      BY <1>0, <1>4 DEF FollowedInv, Waiting
    <2>1. ~(\E j \in 1..m : queue[j].did = i) /\ i # d.did
      BY <1>3, <1>4, <1>6
    <2>2. PICK q \in DReplicas : Waiting(desk[q]) /\ desk[q].did = i
      BY <1>0, <1>l, <2>1 DEF DecisionsIInv, FollowedInv
    <2>3. q # r
      BY <1>i, <2>1, <2>2
    <2> QED BY <1>12, <2>2, <2>3
  <1> QED BY <1>13, <1>15, <1>16, <1>17, <1>18, <1>19, <1>20 DEF DecisionsIInv


LEMMA AuditDecisionInv == ASSUME DecisionsIInv, NEW r \in DReplicas, AuditDecision(r) PROVE DecisionsIInv'
  <1> DEFINE d == desk[r]
             after == IF d.path = "store" /\ d.ok /\ d.job # 0 THEN "idle" ELSE Continues(d)
             y == IF d.ok THEN "decision.allowed" ELSE "decision.denied"
             e == [type |-> y, of |-> d.did]
             silent == d.ok /\ (d.path = "service" \/ (d.path = "store" /\ d.job = 0))
             f == [d EXCEPT !.pc = "job"]
  <1>0. /\ d.pc = "audit" /\ UNCHANGED <<decided, queue, decFaults, overlapping>>
        /\ trail' = IF silent THEN trail ELSE Audited(y, d.did)
        /\ Stands(r, IF after = "idle" THEN AtDesk ELSE [d EXCEPT !.pc = after])
    BY DEF AuditDecision
  <1>t. DecTypes
    BY DEF DecisionsIInv
  <1>a. /\ decided \in Seq(DecRow) /\ desk \in [DReplicas -> DesksType] /\ d \in DesksType
        /\ overlapping' \in BOOLEAN /\ decFaults' \in Nat /\ trail \in Seq(TrailRow)
    BY <1>0, <1>t DEF DecTypes
  <1>1. DeskOK(d, decided, trail)
    BY DEF DecisionsIInv, DesksInv
  <1>2. /\ d.did \in 1..Len(decided) /\ (decided[d.did].ok <=> d.ok) /\ (decided[d.did].wants <=> d.wants)
        /\ decided[d.did].path = d.path /\ (d.job # 0 => d.path = "store" /\ d.ok)
    BY <1>0, <1>1 DEF DeskOK, Recorded
  <1>i. d = desk[r]
    OBVIOUS
  <1> HIDE DEF d
  <1>3. e \in TrailRow
    BY <1>a, DeskFields DEF TrailRow
  <1>4. EventOK(e, decided)
    BY <1>2 DEF EventOK
  <1>5. Audited(y, d.did) \in Seq(TrailRow) /\ ToSet(Audited(y, d.did)) = ToSet(trail) \cup {e}
    BY <1>3, <1>a, AuditedSet
  <1>6. /\ trail' \in Seq(TrailRow) /\ ToSet(trail) \subseteq ToSet(trail') /\ ToSet(trail') \subseteq ToSet(trail) \cup {e}
        /\ ~silent => e \in ToSet(trail')
    <2> HIDE DEF e, y, silent
    <2> QED BY <1>0, <1>5, <1>a
  <1>7. TrailInv'
    <2> HIDE DEF e
    <2> QED BY <1>0, <1>4, <1>6, EventsAdded
  <1>8. d.ok /\ d.path = "router" => AllowedEvent(d.did) \in ToSet(trail')
    BY <1>6 DEF AllowedEvent
  <1> HIDE DEF y, e, silent
  <1>9. CASE Stands(r, AtDesk) /\ (Waiting(d) => ~(d.ok /\ d.wants))
    BY <1>0, <1>6, <1>7, <1>9, <1>a, <1>i, DeskLeaves
  <1>10. CASE Stands(r, f) /\ d.ok /\ d.wants /\ d.job = 0
    <2>1. desk' = [desk EXCEPT ![r] = f]
      BY <1>10 DEF Stands
    <2>2. f = [pc |-> "job", path |-> d.path, key |-> d.key, wants |-> d.wants, ok |-> d.ok, did |-> d.did, job |-> d.job]
      BY <1>a, DeskFields
    <2>3. f \in DesksType
      BY <1>a, <2>2, DeskFields DEF DesksType
    <2>4. f.pc = "job" /\ f.path = d.path /\ f.wants = d.wants /\ f.ok = d.ok /\ f.did = d.did /\ f.job = d.job
      BY <2>2
    <2> HIDE DEF f
    <2>5. DeskOK(f, decided, trail')
      BY <1>2, <1>8, <1>10, <2>4 DEF DeskOK, Recorded
    <2>6. Waiting(d) /\ Waiting(f) /\ (Permitted(f) => Permitted(d))
      BY <1>0, <1>10, <2>4 DEF Waiting, Permitted
    <2>7. DecTypes' /\ DesksInv' /\ QueueInv' /\ QuotaInv'
      BY <1>0, <1>6, <1>a, <1>i, <2>1, <2>3, <2>4, <2>5, <2>6, DeskMoves
    <2>8. AloneInv'
      BY <1>0, <1>i, <2>1, <2>4, DeskMovesAlone
    <2>9. FollowedInv'
      BY <1>0, <1>i, <2>1, <2>4, <2>6, DeskMovesFollowed
    <2> QED BY <1>7, <2>7, <2>8, <2>9 DEF DecisionsIInv
  <1>11. CASE after = "idle"
    <2>1. Waiting(d) => ~(d.ok /\ d.wants)
      BY <1>11 DEF Waiting, Continues
    <2> QED BY <1>0, <1>9, <1>11, <2>1
  <1>12. CASE after # "idle"
    <2>1. after = "job" /\ d.ok /\ d.wants /\ d.job = 0
      BY <1>2, <1>12 DEF Continues
    <2> HIDE DEF after
    <2>2. Stands(r, f)
      BY <1>0, <2>1
    <2> QED BY <1>10, <2>1, <2>2
  <1> QED BY <1>11, <1>12

LEMMA AuditJobInv == ASSUME DecisionsIInv, NEW r \in DReplicas, AuditJob(r) PROVE DecisionsIInv'
  <1> DEFINE e == [type |-> "job.created", of |-> desk[r].job]
  <1>0. /\ desk[r].pc = "auditJob" /\ trail' = Audited("job.created", desk[r].job) /\ Stands(r, AtDesk)
        /\ UNCHANGED <<decided, queue, decFaults, overlapping>>
    BY DEF AuditJob
  <1>t. trail \in Seq(TrailRow) /\ desk[r] \in DesksType /\ decFaults' \in Nat
    BY <1>0 DEF DecisionsIInv, DecTypes
  <1>1. e \in TrailRow
    BY <1>t, DeskFields DEF TrailRow
  <1>2. EventOK(e, decided)
    BY DEF EventOK
  <1>3. trail' \in Seq(TrailRow) /\ ToSet(trail') = ToSet(trail) \cup {e}
    BY <1>0, <1>1, <1>t, AuditedSet
  <1> HIDE DEF e
  <1>4. TrailInv'
    BY <1>0, <1>2, <1>3, EventsAdded
  <1>5. ~Waiting(desk[r])
    BY <1>0 DEF Waiting
  <1> QED BY <1>0, <1>3, <1>4, <1>5, <1>t, DeskLeaves

LEMMA ReplicaDiesInv == ASSUME DecisionsIInv, NEW r \in DReplicas, ReplicaDies(r) PROVE DecisionsIInv'
  <1>0. decFaults' = decFaults + 1 /\ Stands(r, AtDesk) /\ UNCHANGED <<decided, queue, trail, overlapping>>
    BY DEF ReplicaDies
  <1>1. trail' \in Seq(TrailRow) /\ decFaults \in Nat
    BY <1>0 DEF DecisionsIInv, DecTypes
  <1>2. decFaults' \in Nat /\ decFaults' # 0
    BY <1>0, <1>1
  <1>3. TrailInv'
    BY <1>0 DEF DecisionsIInv, TrailInv
  <1> QED BY <1>0, <1>1, <1>2, <1>3, DeskLeaves

LEMMA SetJobStatusInv ==
    ASSUME DecisionsIInv, NEW k \in DOMAIN queue, NEW s \in JobStatuses, SetJobStatus(k, s) PROVE DecisionsIInv'
  <1>0. queue' = [queue EXCEPT ![k].status = s] /\ UNCHANGED <<decided, trail, desk, decFaults, overlapping>>
    BY DEF SetJobStatus
  <1> DEFINE m == Len(queue)
  <1>1. queue \in Seq(QueueRow) /\ m \in Nat /\ DOMAIN queue = 1..m /\ queue \in [1..m -> QueueRow]
    BY LenProperties DEF DecisionsIInv, DecTypes
  <1> HIDE DEF m
  <1>2. queue' \in [1..m -> QueueRow] /\ \A j \in 1..m : queue'[j].did = queue[j].did
    BY <1>0, <1>1 DEF QueueRow
  <1>3. queue' \in Seq(QueueRow)
    BY <1>1, <1>2, SeqDef
  <1>4. Len(queue') = Len(queue)
    BY <1>1, <1>2, <1>3, LenProperties DEF m
  <1>5. DecTypes'
    BY <1>0, <1>3 DEF DecisionsIInv, DecTypes
  <1>6. DesksInv'
    <2>1. \A q \in DReplicas :
            /\ DeskOK(desk[q], decided, trail)
            /\ Waiting(desk[q]) =>
                  /\ \A j \in 1..m : queue[j].did # desk[q].did
                  /\ \A p \in DReplicas : Waiting(desk[p]) /\ desk[p].did = desk[q].did => p = q
      BY DEF DecisionsIInv, DesksInv, m
    <2>2. \A q \in DReplicas : (DeskOK(desk[q], decided, trail)' <=> DeskOK(desk[q], decided, trail))
                               /\ (Waiting(desk[q])' <=> Waiting(desk[q]))
      BY <1>0
    <2> QED BY <1>0, <1>2, <1>4, <2>1, <2>2 DEF DesksInv, m
  <1>7. QueueInv'
    <2>1. /\ \A j \in 1..m :
                /\ queue[j].did \in 1..Len(decided) /\ decided[queue[j].did].ok /\ decided[queue[j].did].wants
                /\ decided[queue[j].did].path = "router" => AllowedEvent(queue[j].did) \in ToSet(trail)
          /\ \A i, j \in 1..m : queue[i].did = queue[j].did => i = j
      BY DEF DecisionsIInv, QueueInv, m
    <2> QED BY <1>0, <1>2, <1>4, <2>1 DEF QueueInv, AllowedEvent, m
  <1>8. TrailInv'
    BY <1>0 DEF DecisionsIInv, TrailInv
  <1>9. QuotaInv'
    <2>1. Admitting' = Admitting
      BY <1>0 DEF Admitting
    <2> QED BY <1>4, <2>1 DEF DecisionsIInv, QuotaInv
  <1>10. AloneInv'
    BY <1>0 DEF DecisionsIInv, AloneInv
  <1>11. FollowedInv'
    <2>1. decFaults = 0 =>
             \A i \in 1..Len(decided) : decided[i].ok /\ decided[i].wants =>
                \/ \E j \in 1..m : queue[j].did = i
                \/ \E r \in DReplicas : Waiting(desk[r]) /\ desk[r].did = i
      BY DEF DecisionsIInv, FollowedInv, m
    <2> QED BY <1>0, <1>2, <1>4, <2>1 DEF FollowedInv, m
  <1> QED BY <1>5, <1>6, <1>7, <1>8, <1>9, <1>10, <1>11 DEF DecisionsIInv

(* The plans file, the subscription and the rest of the API.               *)
LEMMA AroundDesksInv ==
    ASSUME DecisionsIInv, UNCHANGED <<decided, queue, trail, desk, overlapping>>, decFaults' \in Nat,
           decFaults' = 0 => decFaults = 0
    PROVE  DecisionsIInv'
  <1>1. DecTypes' /\ TrailInv' /\ AloneInv' /\ QueueInv'
    BY DEF DecisionsIInv, DecTypes, TrailInv, AloneInv, QueueInv
  <1>2. DesksInv'
    BY DEF DecisionsIInv, DesksInv
  <1>3. QuotaInv'
    <2>1. Admitting' = Admitting
      BY DEF Admitting
    <2> QED BY <2>1 DEF DecisionsIInv, QuotaInv
  <1>4. FollowedInv'
    BY DEF DecisionsIInv, FollowedInv
  <1> QED BY <1>1, <1>2, <1>3, <1>4 DEF DecisionsIInv

LEMMA DecisionsNextInv == DecisionsIInv /\ [DecisionsNext]_dvars => DecisionsIInv'
  <1> SUFFICES ASSUME DecisionsIInv, [DecisionsNext]_dvars PROVE DecisionsIInv'
    OBVIOUS
  <1>t. decFaults \in Nat
    BY DEF DecisionsIInv, DecTypes
  <1>1. CASE UNCHANGED dvars
    BY <1>1, <1>t, AroundDesksInv DEF dvars
  <1>2. ASSUME NEW r \in DReplicas, NEW k \in IdemKeys \cup {NoIdemKey}, NEW w \in BOOLEAN, AskRouter(r, k, w)
        PROVE  DecisionsIInv'
    BY <1>2, AskRouterInv
  <1>3. ASSUME NEW r \in DReplicas, NEW k \in IdemKeys, AskService(r, k) \/ AskStore(r, k) PROVE DecisionsIInv'
    BY <1>3, AskServiceInv
  <1>4. ASSUME NEW r \in DReplicas,
               \/ FindDecision(r) \/ EvaluateGate(r) \/ RecordDecision(r)
               \/ AuditDecision(r) \/ InsertQueued(r) \/ AuditJob(r) \/ ReplicaDies(r)
        PROVE  DecisionsIInv'
    BY <1>4, FindDecisionInv, EvaluateGateInv, RecordDecisionInv, AuditDecisionInv, InsertQueuedInv, AuditJobInv,
       ReplicaDiesInv
  <1>5. ASSUME NEW j \in DOMAIN queue, NEW s \in JobStatuses \ {"queued"}, SetJobStatus(j, s) PROVE DecisionsIInv'
    BY <1>5, SetJobStatusInv
  <1>6. ASSUME PlansUnreadable \/ \E s : SubscriptionMoves(s) PROVE DecisionsIInv'
    <2>1. UNCHANGED <<decided, queue, trail, desk, overlapping>> /\ decFaults' = decFaults + 1
      BY <1>6 DEF PlansUnreadable, SubscriptionMoves
    <2>2. decFaults' \in Nat /\ decFaults' # 0
      BY <1>t, <2>1
    <2> QED BY <2>1, <2>2, AroundDesksInv
  <1> QED BY <1>1, <1>2, <1>3, <1>4, <1>5, <1>6, Zenon DEF DecisionsNext

LEMMA DecisionsAreSafe == DecisionsIInv => DecisionsInv
  <1> SUFFICES ASSUME DecisionsIInv PROVE DecisionsInv
    OBVIOUS
  <1>0. DOMAIN decided = 1..Len(decided) /\ DOMAIN queue = 1..Len(queue) /\ Len(queue) \in Nat
    BY LenProperties DEF DecisionsIInv, DecTypes
  <1>1. JobsAreDecided
    BY <1>0 DEF DecisionsIInv, QueueInv, JobsAreDecided
  <1>2. QuotaNearlyKept
    <2> DEFINE c == Cardinality(Admitting)
               k == Cardinality(DReplicas)
    <2>1. c \in Nat /\ k \in Nat /\ QuotaLimit \in Nat
      <3>1. IsFiniteSet(Admitting) /\ IsFiniteSet(DReplicas)
        BY DecisionAssumption, FS_Subset DEF Admitting
      <3> QED BY <3>1, FS_CardinalityType, DecisionAssumption DEF QuotaLimit
    <2>2. Len(queue) + c <= QuotaLimit + k - 1
      BY DEF DecisionsIInv, QuotaInv
    <2> HIDE DEF c, k
    <2>3. Len(queue) <= QuotaLimit + k - 1
      BY <1>0, <2>1, <2>2
    <2> QED BY <2>3 DEF QuotaNearlyKept, QuotaLimit, k
  <1>3. TrailIsTrue
    <2>1. \A i \in DOMAIN trail : trail[i] \in ToSet(trail)
      BY DEF ToSet
    <2>2. \A i \in DOMAIN trail : EventOK(trail[i], decided)
      BY <2>1 DEF DecisionsIInv, TrailInv
    <2>3. \A j \in DOMAIN queue :
             decided[queue[j].did].path = "router" => AllowedEvent(queue[j].did) \in ToSet(trail)
      BY <1>0 DEF DecisionsIInv, QueueInv
    <2> QED BY <2>2, <2>3 DEF TrailIsTrue, EventOK, AllowedEvent
  <1>4. KeysDecideOnce
    <2>1. ~overlapping =>
             \A i, j \in 1..Len(decided) :
                decided[i].key = decided[j].key /\ decided[i].key # NoIdemKey /\ decided[j].path = "router" => i >= j
      BY DEF DecisionsIInv, AloneInv
    <2>2. ASSUME decFaults = 0, \A r \in DReplicas : desk[r].pc = "idle", NEW i \in 1..Len(decided),
                 decided[i].ok, decided[i].wants
          PROVE  \E j \in 1..Len(queue) : queue[j].did = i
      BY <2>2 DEF DecisionsIInv, FollowedInv, Waiting
    <2> QED BY <1>0, <2>1, <2>2 DEF KeysDecideOnce
  <1> QED BY <1>1, <1>2, <1>3, <1>4 DEF DecisionsInv

(* A job comes from one decision that allowed it, the quota is overrun by  *)
(* fewer jobs than there are replicas, the audit trail agrees with the     *)
(* records, a key decides once and an allowed request gets its job, for    *)
(* any replicas, keys, limits and numbers of requests and crashes.         *)
THEOREM DecisionsAreSound == ServingSpec => []DecisionsInv
  <1>1. ServingInit => DecisionsIInv
    BY DecisionsInitInv DEF ServingInit
  <1>2. [ServingNext]_ServingVars => [DecisionsNext]_dvars
    BY DEF ServingNext, ServingVars
  <1>3. DecisionsIInv /\ [ServingNext]_ServingVars => DecisionsIInv'
    BY <1>2, DecisionsNextInv
  <1> QED BY <1>1, <1>3, DecisionsAreSafe, PTL DEF ServingSpec, ServingVars
=============================================================================
