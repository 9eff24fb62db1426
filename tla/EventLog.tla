------------------------------ MODULE EventLog ------------------------------
(***************************************************************************)
(* The two append-only stores of durability/.                              *)
(*                                                                         *)
(* event_sourcing.py: a caller takes a tick from a counter in memory and   *)
(* appends its event afterwards, each under a lock of its own; a job's     *)
(* state is rebuilt from its events in tick order, and the whole log is    *)
(* replayed page by page.  event_store.py: number and insert under one     *)
(* lock, a failed commit is rolled back, a restart reads the last number.  *)
(***************************************************************************)
EXTENDS Naturals, Sequences, FiniteSets, FiniteSetsExt

CONSTANTS
    EJobs,          \* jobs, each driven by a caller of its own
    Page,           \* events a page of the replay holds
    MaxEvents,      \* bound: ticks taken in one life of the process
    MaxNumbers,     \* bound: numbered events
    MaxLives,       \* bound: lives of the process
    MaxBadCommits   \* bound: commits that fail

ASSUME EventBounds ==
    /\ Page \in Nat \ {0} /\ MaxLives \in Nat \ {0}
    /\ {MaxEvents, MaxNumbers, MaxBadCommits} \subseteq Nat

VARIABLES
    log,        \* committed rows, in the order of their commits
    opened,     \* rows of the open transaction of a commit that failed
    ticks,      \* _tick_counter
    writer,     \* the command of each job's caller
    acked,      \* the status of the last command that returned, per job
    life,       \* life of the process
    badcommits,
    stored,     \* numbers in the events table of event_store.py
    number      \* _sequence

evars == <<log, opened, ticks, writer, acked, life, badcommits, stored, number>>

\* Commands of JobAggregate and the status _apply_event gives them.
JobEvents == {"submitted", "queued", "scheduled", "running", "completed", "failed"}
Row == [job : EJobs, status : JobEvents, tick : 1..MaxEvents, life : 1..MaxLives]
NoCommand == [pc |-> "idle", status |-> "unknown", tick |-> 0]

EventTypeOK ==
    /\ log \in Seq(Row) /\ opened \in Seq(Row)
    /\ ticks \in 0..MaxEvents /\ life \in 1..MaxLives
    /\ writer \in [EJobs -> [pc : {"idle", "ticked"}, status : JobEvents \cup {"unknown"},
                             tick : 0..MaxEvents]]
    /\ acked \in [EJobs -> JobEvents \cup {"unknown"}]
    /\ badcommits \in 0..MaxBadCommits
    /\ stored \in Seq(1..MaxNumbers) /\ number \in 0..MaxNumbers

EventInit ==
    /\ log = <<>> /\ opened = <<>> /\ ticks = 0 /\ life = 1 /\ badcommits = 0
    /\ writer = [j \in EJobs |-> NoCommand]
    /\ acked = [j \in EJobs |-> "unknown"]
    /\ stored = <<>> /\ number = 0

-----------------------------------------------------------------------------
(* event_sourcing.py                                                       *)

\* The tick and the event that will carry it.  A job is submitted once and
\* ends once.
Follows(old, new) ==
    \/ old = "unknown" /\ new = "submitted"
    \/ old = "submitted" /\ new = "queued"
    \/ old = "queued" /\ new = "scheduled"
    \/ old = "scheduled" /\ new = "running"
    \/ old = "running" /\ new \in {"completed", "failed"}

TakeTick(j, s) ==
    /\ writer[j].pc = "idle" /\ Follows(acked[j], s) /\ ticks < MaxEvents
    /\ ticks' = ticks + 1
    /\ writer' = [writer EXCEPT ![j] = [pc |-> "ticked", status |-> s, tick |-> ticks']]
    /\ UNCHANGED <<log, opened, acked, life, badcommits, stored, number>>

RowOf(j) == [job |-> j, status |-> writer[j].status, tick |-> writer[j].tick, life |-> life]

\* INSERT and commit: what an earlier failed commit left open goes with it.
AppendEvent(j) ==
    /\ writer[j].pc = "ticked"
    /\ log' = log \o opened \o <<RowOf(j)>> /\ opened' = <<>>
    /\ acked' = [acked EXCEPT ![j] = writer[j].status]
    /\ writer' = [writer EXCEPT ![j] = NoCommand]
    /\ UNCHANGED <<ticks, life, badcommits, stored, number>>

\* The commit raises and nobody rolls back.
AppendRaises(j) ==
    /\ writer[j].pc = "ticked" /\ badcommits < MaxBadCommits
    /\ badcommits' = badcommits + 1
    /\ opened' = Append(opened, RowOf(j))
    /\ writer' = [writer EXCEPT ![j] = NoCommand]
    /\ UNCHANGED <<log, ticks, acked, life, stored, number>>

\* A new process starts to count at zero; it knows the number from the table.
EventsRestart ==
    /\ life < MaxLives /\ life' = life + 1
    /\ ticks' = 0 /\ opened' = <<>>
    /\ writer' = [j \in EJobs |-> NoCommand]
    /\ number' = Max({0} \cup {stored[i] : i \in 1..Len(stored)})
    /\ UNCHANGED <<log, acked, badcommits, stored>>

\* SELECT ... WHERE tick >= t ORDER BY tick LIMIT Page.
Rows == {log[i] : i \in 1..Len(log)}
RankOf(r, t) == Cardinality({q \in Rows : t <= q.tick /\ q.tick < r.tick})
PageBehind(t) == {r \in Rows : t < r.tick /\ RankOf(r, t) < Page}
PageFrom(t) == {r \in Rows : t <= r.tick /\ RankOf(r, t) < Page}

\* replay_from_tick goes on behind the last tick of the page before.
ReplayFrom[t \in 1..(MaxEvents + 1)] ==
    LET page == PageFrom(t)
        last == Max({r.tick : r \in page})
    IN  IF page = {} THEN {} ELSE page \cup ReplayFrom[last + 1]

\* build_state: the status of the event with the last tick.
Rebuilt(j) ==
    LET mine == {r \in Rows : r.job = j}
        last == {r \in mine : \A q \in mine : q.tick <= r.tick}
    IN  IF mine = {} THEN {"unknown"} ELSE {r.status : r \in last}

-----------------------------------------------------------------------------
(* event_store.py                                                          *)

NumberAfter(committed) == IF committed THEN number + 1 ELSE number

\* Number, insert and commit under the lock; a failed commit is rolled back.
AppendNumbered ==
    /\ number < MaxNumbers /\ Len(stored) < MaxNumbers
    /\ stored' = Append(stored, number + 1) /\ number' = NumberAfter(TRUE)
    /\ UNCHANGED <<log, opened, ticks, writer, acked, life, badcommits>>

AppendRolledBack ==
    /\ number < MaxNumbers /\ badcommits < MaxBadCommits
    /\ badcommits' = badcommits + 1 /\ number' = NumberAfter(FALSE)
    /\ UNCHANGED <<log, opened, ticks, writer, acked, life, stored>>

EventNext ==
    \/ \E j \in EJobs : \/ \E s \in JobEvents : TakeTick(j, s)
                        \/ AppendEvent(j) \/ AppendRaises(j)
    \/ EventsRestart \/ AppendNumbered \/ AppendRolledBack

-----------------------------------------------------------------------------
\* Stored numbers run without a gap or a repetition through failed commits
\* and restarts (event_store.py, append: "the counter must not eat the number
\* of a failed record").
NumbersAreGapless == stored = [i \in 1..Len(stored) |-> i]

OfOneLife == \A r, q \in Rows : r.life = q.life
Undisturbed(j) == \A r \in Rows : r.job = j => r.life = 1

\* While one process writes the log, replay tells every caller what it was
\* told: events of the same life carry different ticks, a job is rebuilt with
\* the status of its last command, and the pages of a replay leave no event
\* out.  (A restart counts ticks from one again and a commit that failed may
\* come back; both are excluded here.)
ReplayIsFaithful ==
    /\ \A r, q \in Rows : r.life = q.life /\ r.tick = q.tick => r = q
    /\ badcommits = 0 => \A j \in EJobs : Undisturbed(j) => Rebuilt(j) = {acked[j]}
    /\ OfOneLife => ReplayFrom[1] = Rows

\* The logs tell what happened, through restarts and failed commits.
EventLogInv == NumbersAreGapless /\ ReplayIsFaithful
=============================================================================
