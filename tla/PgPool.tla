------------------------------- MODULE PgPool -------------------------------
(***************************************************************************)
(* PGConnectionManager of billing/pg_connection.py: threads borrow         *)
(* connections from the current pool, a thread that finds the pool         *)
(* unavailable closes it and installs a new one while others still hold    *)
(* connections of the old, and _PgConnection commits, rolls back, returns  *)
(* or discards what it holds.  The other side of a connection is the       *)
(* server, which may fail any statement.                                   *)
(***************************************************************************)
EXTENDS Integers, Sequences, FiniteSets

CONSTANTS PThreads,
          PoolMax,        \* connections a pool lends at once
          Attempts,       \* PG_RECONNECT_ATTEMPTS
          MaxPools, MaxPgFaults, MaxBodies

ASSUME PgPoolAssumption == /\ PoolMax \in Nat \ {0} /\ Attempts \in Nat /\ MaxPools \in Nat \ {0}
                           /\ MaxBodies \in Nat /\ IsFiniteSet(PThreads)

VARIABLES pools,      \* every pool made: open or not, connections lent
          current,    \* PGConnectionManager._pool, 0 before the first
          available,  \* PGConnectionManager._pg_available
          thread,     \* what each thread is doing
          gauge,      \* roma_pg_connections_active
          outcome,    \* transactions: committed at the server, told to the caller
          pgFaults, bodies

pgvars == <<pools, current, available, thread, gauge, outcome, pgFaults, bodies>>

Unborrowed == [pc |-> "out", pool |-> 0, attempt |-> 0, tx |-> 0]

PgPoolTypeOK ==
    /\ \A p \in DOMAIN pools : pools[p] \in [open : BOOLEAN, lent : 0..PoolMax]
    /\ DOMAIN pools = 1..current /\ current \in 0..MaxPools
    /\ thread \in [PThreads -> [pc : {"out", "ensure", "create", "getconn", "probe", "body", "commit", "rollback", "release", "discard"},
                                pool : 0..current, attempt : 0..Attempts, tx : 0..MaxBodies]]
    /\ gauge \in 0..Cardinality(PThreads)
    /\ outcome \in [1..MaxBodies -> [done : BOOLEAN, said : {"none", "ok", "error"}]]

PgPoolInit ==
    /\ pools = <<>> /\ current = 0 /\ available = FALSE
    /\ thread = [t \in PThreads |-> Unborrowed]
    /\ gauge = 0
    /\ outcome = [b \in 1..MaxBodies |-> [done |-> FALSE, said |-> "none"]]
    /\ pgFaults = 0 /\ bodies = 0

Goes(t, pc) == thread' = [thread EXCEPT ![t].pc = pc]

Faulty == pgFaults < MaxPgFaults /\ pgFaults' = pgFaults + 1

Finishes(t, said) ==
    /\ outcome' = [outcome EXCEPT ![thread[t].tx].said = said]
    /\ thread' = [thread EXCEPT ![t] = Unborrowed]

-----------------------------------------------------------------------------
(* get_connection *)

GetConnection(t) ==
    /\ thread[t].pc = "out" /\ bodies < MaxBodies
    /\ bodies' = bodies + 1
    /\ thread' = [thread EXCEPT ![t] = [Unborrowed EXCEPT !.pc = "ensure", !.tx = bodies']]
    /\ UNCHANGED <<pools, current, available, gauge, outcome, pgFaults>>

\* _ensure_pool looks without the lock, so two threads may both decide to
\* make a pool.
EnsurePool(t) ==
    /\ thread[t].pc = "ensure"
    /\ Goes(t, IF current # 0 /\ available THEN "getconn" ELSE "create")
    /\ UNCHANGED <<pools, current, available, gauge, outcome, pgFaults, bodies>>

ClosedPools == [p \in DOMAIN pools |-> [pools[p] EXCEPT !.open = FALSE]]

\* _create_pool under its lock: the old pool is closed with everything it
\* lent, then a new one opened.  When that fails the call ends with
\* PGUnavailableError.
CreatePool(t) ==
    /\ thread[t].pc = "create"
    /\ \/ /\ current < MaxPools
          /\ pools' = Append(ClosedPools, [open |-> TRUE, lent |-> 0])
          /\ current' = current + 1
          /\ available' = TRUE
          /\ Goes(t, "getconn")
          /\ UNCHANGED <<outcome, pgFaults>>
       \/ /\ Faulty \/ (current = MaxPools /\ UNCHANGED pgFaults)
          /\ pools' = ClosedPools
          /\ available' = FALSE
          /\ Finishes(t, "error")
          /\ UNCHANGED current
    /\ UNCHANGED <<gauge, bodies>>

\* One more attempt, or none is left; other threads then make a new pool.
Retry(t) ==
    /\ available' = FALSE
    /\ IF thread[t].attempt = Attempts THEN Finishes(t, "error")
       ELSE /\ thread' = [thread EXCEPT ![t].pc = "ensure", ![t].pool = 0, ![t].attempt = @ + 1]
            /\ UNCHANGED outcome

\* getconn of the pool seen now, which is remembered as the lender; a pool
\* that is exhausted, or was closed since, refuses.
Borrow(t) ==
    /\ thread[t].pc = "getconn"
    /\ \/ /\ pools[current].open /\ pools[current].lent < PoolMax
          /\ pools' = [pools EXCEPT ![current].lent = @ + 1]
          /\ thread' = [thread EXCEPT ![t].pc = "probe", ![t].pool = current]
          /\ UNCHANGED <<available, outcome>>
       \/ /\ ~(pools[current].open /\ pools[current].lent < PoolMax)
          /\ Retry(t)
          /\ UNCHANGED pools
    /\ UNCHANGED <<current, gauge, pgFaults, bodies>>

Alive(t) == pools[thread[t].pool].open

PutBackLeaks(p) == pools

\* putconn, with or without closing, frees the slot of an open pool; a closed
\* one refuses and the connection is closed by hand.
PutBack(p) == IF pools[p].open THEN [pools EXCEPT ![p].lent = @ - 1] ELSE pools

\* The ping: SELECT 1 on a connection the server, or closeall, may have cut.
Probe(t) ==
    /\ thread[t].pc = "probe"
    /\ \/ /\ Alive(t)
          /\ gauge' = gauge + 1
          /\ Goes(t, "body")
          /\ UNCHANGED <<pools, available, outcome, pgFaults>>
       \/ /\ Faulty \/ (~Alive(t) /\ UNCHANGED pgFaults)
          /\ pools' = PutBack(thread[t].pool)
          /\ Retry(t)
          /\ UNCHANGED gauge
    /\ UNCHANGED <<current, bodies>>

-----------------------------------------------------------------------------
(* _PgConnection *)

\* The body of the with statement ends, or raises.
Body(t) ==
    /\ thread[t].pc = "body"
    /\ \/ Goes(t, "commit") /\ UNCHANGED pgFaults
       \/ /\ Faulty \/ (~Alive(t) /\ UNCHANGED pgFaults)
          /\ Goes(t, "rollback")
    /\ UNCHANGED <<pools, current, available, gauge, outcome, bodies>>

\* commit: when its answer is lost the transaction may have happened.
Commit(t) ==
    /\ thread[t].pc = "commit"
    /\ \/ /\ Alive(t)
          /\ outcome' = [outcome EXCEPT ![thread[t].tx].done = TRUE]
          /\ Goes(t, "release")
          /\ UNCHANGED pgFaults
       \/ /\ Faulty \/ (~Alive(t) /\ UNCHANGED pgFaults)
          /\ \E happened \in BOOLEAN :
                outcome' = [outcome EXCEPT ![thread[t].tx].done = happened /\ Alive(t)]
          /\ Goes(t, "discard")
    /\ UNCHANGED <<pools, current, available, gauge, bodies>>

\* _release, then the caller goes on: committed, or with the error of the
\* body or of the commit.
Release(t) ==
    /\ thread[t].pc \in {"release", "discard", "rollback"}
    /\ pools' = PutBack(thread[t].pool)
    /\ gauge' = gauge - 1
    /\ Finishes(t, IF thread[t].pc = "release" THEN "ok" ELSE "error")
    /\ UNCHANGED <<current, available, pgFaults, bodies>>

\* health and shutdown.
Shutdown ==
    /\ current # 0 /\ pools[current].open
    /\ pools' = [pools EXCEPT ![current].open = FALSE]
    /\ available' = FALSE
    /\ UNCHANGED <<current, thread, gauge, outcome, pgFaults, bodies>>

PgPoolNext ==
    \/ \E t \in PThreads : \/ GetConnection(t) \/ EnsurePool(t) \/ CreatePool(t) \/ Borrow(t) \/ Probe(t)
                           \/ Body(t) \/ Commit(t) \/ Release(t)
    \/ Shutdown

-----------------------------------------------------------------------------
(* Properties *)

Holders(p) == {t \in PThreads : thread[t].pool = p /\ thread[t].pc # "ensure"}

\* "The pool slot is released exactly once on every path": the slots an open
\* pool counts as lent are the connections threads hold, whatever pools were
\* replaced meanwhile.
LentIsHeld == \A p \in DOMAIN pools : pools[p].open => pools[p].lent = Cardinality(Holders(p))

\* The gauge counts the wrappers in use.
GaugeIsTrue == gauge = Cardinality({t \in PThreads : thread[t].pc \in {"body", "commit", "rollback", "release", "discard"}})

\* "A failed commit is never swallowed": a caller told of success has a
\* committed transaction.
SuccessIsCommitted == \A b \in 1..MaxBodies : outcome[b].said = "ok" => outcome[b].done

\* What the ledger relies on when it uses the pool.
PgPoolInv == LentIsHeld /\ GaugeIsTrue /\ SuccessIsCommitted
=============================================================================
