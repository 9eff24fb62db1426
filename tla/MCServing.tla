------------------------------ MODULE MCServing ------------------------------
(***************************************************************************)
(* Instances, for TLC, of the parts of the API process and its storage.    *)
(* The parts keep apart: none reads a variable of another one, so nothing  *)
(* is lost by running one at a time.  The initial state chooses which; the *)
(* others rest in theirs.                                                  *)
(***************************************************************************)
EXTENDS MCSubmit, Payments, StripeWebhook, Wallets, Accounts, SupportChat, Onboarding,
        Decisions, DualStore, PgPool, Service, Jev, Plugins

VARIABLE focus     \* the part that runs

MCDeps == [p \in PluginNames |-> IF p = "b" THEN <<"a">> ELSE <<>>]

StoreParts == {"money", "users", "office", "events"}
Parts == {"submit", "payments", "stripe", "wallets", "accounts", "support", "campaign",
          "tenants", "decisions", "pool", "life", "chat", "sockets", "policies", "shadow",
          "routing", "sidecar", "plugins", "traces"} \cup StoreParts

\* The store's first rows and the presence of Redis vary only where they matter.
ServingInit ==
    /\ focus \in Parts
    /\ Init /\ PaymentsInit /\ StripeInit /\ WalletsInit /\ AccountsInit /\ SupportInit
    /\ OnboardingInit /\ DecisionsInit /\ DualStoreInit /\ PgPoolInit /\ ServiceInit
    /\ JevInit /\ PluginsInit
    /\ focus # "stripe" => redis
    /\ focus # "money" => \A t \in STenants : pg.tenants[t].hash = NoKeyHash

ServingNext ==
    /\ UNCHANGED focus
    /\ IF focus = "submit" THEN Next ELSE UNCHANGED vars
    /\ IF focus = "payments" THEN PaymentsNext ELSE UNCHANGED pvars
    /\ IF focus = "stripe" THEN StripeNext ELSE UNCHANGED svars
    /\ IF focus = "wallets" THEN WalletsNext ELSE UNCHANGED wvars
    /\ IF focus = "accounts" THEN AccountsNext ELSE UNCHANGED avars
    /\ IF focus = "support" THEN SupportNext ELSE UNCHANGED scvars
    /\ CASE focus = "campaign" -> CampaignNext
         [] focus = "tenants" -> TenantsNext
         [] OTHER -> UNCHANGED <<lvars, tvars>>
    /\ IF focus = "decisions" THEN DecisionsNext ELSE UNCHANGED dvars
    /\ CASE focus = "money" -> MoneyCalls
         [] focus = "users" -> UserCalls
         [] focus = "office" -> OfficeCalls
         [] focus = "events" -> EventCalls
         [] OTHER -> UNCHANGED dsvars
    /\ IF focus = "pool" THEN PgPoolNext ELSE UNCHANGED pgvars
    /\ CASE focus = "life" -> LifeNext
         [] focus = "chat" -> ChatNext
         [] focus = "sockets" -> SocketNext
         [] focus = "policies" -> AskNext
         [] OTHER -> UNCHANGED svcvars
    /\ CASE focus = "shadow" -> ShadowNext
         [] focus = "routing" -> RouteNext
         [] focus = "sidecar" -> SidecarNext
         [] OTHER -> UNCHANGED jevvars
    /\ CASE focus = "plugins" -> ManagerNext
         [] focus = "traces" -> TraceNext
         [] OTHER -> UNCHANGED plugvars

ServingSpec ==
    ServingInit /\ [][ServingNext]_<<focus, vars, pvars, svars, wvars, avars, scvars, lvars, tvars,
                                     dvars, dsvars, pgvars, svcvars, jevvars, plugvars>>

-----------------------------------------------------------------------------
(* Properties: those of Submit, Payments and SupportChat by their names,   *)
(* and the invariants of the parts, grouped by what they are about.  What  *)
(* rests is not looked at again.                                           *)

\* Every variable of a running part holds a value of its kind.
ServingTypeOK ==
    CASE focus = "submit" -> TypeOK
      [] focus = "payments" -> PaymentsTypeOK
      [] focus = "stripe" -> StripeTypeOK
      [] focus = "wallets" -> WalletsTypeOK
      [] focus = "accounts" -> AccountsTypeOK
      [] focus = "support" -> SupportTypeOK
      [] focus \in {"campaign", "tenants"} -> OnboardingTypeOK
      [] focus = "decisions" -> DecisionsTypeOK
      [] focus \in StoreParts -> DualStoreTypeOK
      [] focus = "pool" -> PgPoolTypeOK
      [] focus \in {"life", "chat", "sockets", "policies"} -> ServiceTypeOK
      [] focus \in {"shadow", "routing", "sidecar"} -> JevTypeOK
      [] focus \in {"plugins", "traces"} -> PluginsTypeOK

\* Money that comes in: plans follow payments (CloudPayments webhook), an
\* event of Stripe is handed on once, and a wallet hands out no Monero
\* subaddress twice (its provider and static addresses are shared).
MoneyReceived ==
    /\ focus = "payments" => PaymentsInv
    /\ focus = "stripe" => StripeInv
    /\ focus = "wallets" => WalletsInv

\* Keys and sessions: a rotated key and a revoked session are dead at once.
AccessControlled ==
    /\ focus = "accounts" => AccountsInv
    /\ focus = "support" => NoSessionSurvivesRevocation

\* Storage: both databases tell callers the same, a client that pages through
\* its decisions meets each of them, and the pool of connections loses none and
\* reports no commit that did not happen.
StorageSound ==
    /\ focus = "decisions" => PagesShowAll
    /\ focus \in StoreParts => DualStoreInv
    /\ focus = "pool" => PgPoolInv

\* Plugins, and the JEV advisor beside the hot path.
ExtensionsSound ==
    /\ focus \in {"plugins", "traces"} => PluginsInv
    /\ focus \in {"shadow", "routing", "sidecar"} => JevInv
=============================================================================
