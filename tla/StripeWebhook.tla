---------------------------- MODULE StripeWebhook ----------------------------
(***************************************************************************)
(* The Stripe webhook service (src/deploy/stripe-webhook/app/main.py).  It *)
(* claims an event in Redis, adds it to a stream and tells the API to sync *)
(* the tenant, with an await between each of these.  Stripe repeats an     *)
(* event until it gets a success answer.  A service that finds no Redis at *)
(* startup runs without claims and without the stream.                     *)
(***************************************************************************)
EXTENDS Naturals, FiniteSets

CONSTANTS
    StripeEvents, Handlers,
    NoEvent,
    MaxSends,        \* bound: deliveries of each event
    MaxStripeFaults  \* bound: restarts, and Redis calls that raise

ASSUME StripeAssumption ==
    /\ NoEvent \notin StripeEvents /\ MaxSends \in Nat /\ MaxStripeFaults \in Nat
    /\ IsFiniteSet(Handlers)

VARIABLES
    redis,     \* did startup find Redis
    seen,      \* the keys stripe:event:<id>
    stream,    \* how often each event was added to stripe:events
    stripe,    \* the handlers
    sends,     \* deliveries of each event
    acked,     \* events answered with success
    synced,    \* how often the API was told of each event
    sfaults

svars == <<redis, seen, stream, stripe, sends, acked, synced, sfaults>>

IdleHandler == [pc |-> "idle", event |-> NoEvent]

StripeTypeOK ==
    /\ redis \in BOOLEAN
    /\ seen \subseteq StripeEvents /\ acked \subseteq StripeEvents
    /\ stream \in [StripeEvents -> 0..MaxSends]
    /\ stripe \in [Handlers -> [pc : {"idle", "claim", "enqueue", "sync"},
                                event : StripeEvents \cup {NoEvent}]]
    /\ sends \in [StripeEvents -> 0..MaxSends]
    /\ synced \in [StripeEvents -> 0..MaxSends]
    /\ sfaults \in 0..MaxStripeFaults

StripeInit ==
    /\ redis \in BOOLEAN
    /\ seen = {} /\ acked = {}
    /\ stream = [e \in StripeEvents |-> 0]
    /\ stripe = [h \in Handlers |-> IdleHandler]
    /\ sends = [e \in StripeEvents |-> 0]
    /\ synced = [e \in StripeEvents |-> 0]
    /\ sfaults = 0

HandlerAt(h, pc) == stripe[h].pc = pc
HandlerTo(h, pc) == stripe' = [stripe EXCEPT ![h].pc = pc]

(* Stripe delivers an event that was not answered, or delivers it twice at *)
(* the same time; the signature is good.                                   *)
Deliver(h, e) ==
    /\ stripe[h] = IdleHandler /\ e \notin acked /\ sends[e] < MaxSends
    /\ sends' = [sends EXCEPT ![e] = @ + 1]
    /\ stripe' = [stripe EXCEPT ![h] = [pc |-> "claim", event |-> e]]
    /\ UNCHANGED <<redis, seen, stream, acked, synced, sfaults>>

(* SET NX: an event that was claimed before is answered at once.           *)
ClaimEvent(h) ==
    /\ HandlerAt(h, "claim")
    /\ IF redis /\ stripe[h].event \in seen
       THEN /\ acked' = acked \cup {stripe[h].event}
            /\ stripe' = [stripe EXCEPT ![h] = IdleHandler]
            /\ UNCHANGED seen
       ELSE /\ seen' = IF redis THEN seen \cup {stripe[h].event} ELSE seen
            /\ HandlerTo(h, IF redis THEN "enqueue" ELSE "sync")
            /\ UNCHANGED acked
    /\ UNCHANGED <<redis, stream, sends, synced, sfaults>>

(* _enqueue_event.                                                         *)
EnqueueEvent(h) ==
    /\ HandlerAt(h, "enqueue")
    /\ stream' = [stream EXCEPT ![stripe[h].event] = @ + 1]
    /\ HandlerTo(h, "sync")
    /\ UNCHANGED <<redis, seen, sends, acked, synced, sfaults>>

(* _sync_tenant, which may fail without anyone noticing; then the answer.  *)
SyncTenant(h) ==
    /\ HandlerAt(h, "sync")
    /\ \E reached \in {0, 1} : synced' = [synced EXCEPT ![stripe[h].event] = @ + reached]
    /\ acked' = acked \cup {stripe[h].event}
    /\ stripe' = [stripe EXCEPT ![h] = IdleHandler]
    /\ UNCHANGED <<redis, seen, stream, sends, sfaults>>

(* A Redis call raises: the answer is 500.                                 *)
RedisRaises(h) ==
    /\ redis /\ stripe[h].pc \in {"claim", "enqueue"} /\ sfaults < MaxStripeFaults
    /\ sfaults' = sfaults + 1
    /\ stripe' = [stripe EXCEPT ![h] = IdleHandler]
    /\ UNCHANGED <<redis, seen, stream, sends, acked, synced>>

(* The service restarts, with or without Redis.                            *)
StripeRestarts ==
    /\ sfaults < MaxStripeFaults
    /\ sfaults' = sfaults + 1
    /\ stripe' = [h \in Handlers |-> IdleHandler]
    /\ redis' \in BOOLEAN
    /\ UNCHANGED <<seen, stream, sends, acked, synced>>

StripeNext ==
    \/ \E h \in Handlers : \/ \E e \in StripeEvents : Deliver(h, e)
                           \/ ClaimEvent(h) \/ EnqueueEvent(h) \/ SyncTenant(h) \/ RedisRaises(h)
    \/ StripeRestarts

StripeSpec == StripeInit /\ [][StripeNext]_svars

-----------------------------------------------------------------------------
(* An event is in the stream at most once, however often it is delivered,  *)
(* by handlers at the same time or after a restart.                        *)
StreamedOnce == \A e \in StripeEvents : stream[e] <= 1

(* Without a fault, an event that was answered is in the stream, or one    *)
(* handler is about to put it there, or the service runs without Redis.    *)
AnsweredIsStreamed ==
    sfaults = 0 /\ redis =>
        \A e \in acked : \/ stream[e] = 1
                         \/ \E h \in Handlers : stripe[h] = [pc |-> "enqueue", event |-> e]

(* Every event reaches the stream once.                                    *)
StripeInv == StreamedOnce /\ AnsweredIsStreamed
=============================================================================
