----------------------------- MODULE StateStore -----------------------------
(***************************************************************************)
(* durability/state_store.py and the facade DurabilityLayer of             *)
(* event_store.py.  With their default paths both open the same events     *)
(* file, each through an EventStore with a counter of its own, so numbers  *)
(* repeat; a row is found again by its job, in the order of the numbers.   *)
(* Snapshots are a dictionary in memory and a JSON file that is truncated  *)
(* and rewritten.  An export can be imported into another store.           *)
(***************************************************************************)
EXTENDS Naturals, Sequences, FiniteSets, FiniteSetsExt

CONSTANTS
    SSJobs,       \* jobs that are recorded
    MaxLogged,    \* bound: rows of the events table
    MaxSaves,     \* bound: snapshots taken
    MaxStoreDeaths \* bound: deaths and restarts

ASSUME StateStoreBounds ==
    /\ SSJobs # {} /\ MaxLogged \in Nat \ {0} /\ {MaxSaves, MaxStoreDeaths} \subseteq Nat

VARIABLES
    entries,    \* rows of the events table, in the order of their commits
    counter,    \* _sequence of each of the two EventStore objects
    told,       \* kind of the last event of a job the facade has recorded
    snaps,      \* _snapshots
    snapfile,   \* the JSON file: torn, or the dictionary it holds
    saving,     \* the save_job_state under way
    taken,      \* snapshots taken so far
    wiped,      \* a torn file was read as an empty dictionary
    copy,       \* the store an export is imported into
    storedeaths

ssvars == <<entries, counter, told, snaps, snapfile, saving, taken, wiped, copy,
            storedeaths>>

\* What a job goes through; a caller may leave stages out.
Stages == <<"submitted", "queued", "dispatched", "locked", "started", "released",
            "completed", "failed", "cancelled">>
Ends == {"completed", "failed", "cancelled"}
Stage(kind) == CHOOSE i \in 1..Len(Stages) : Stages[i] = kind
StageKinds == {Stages[i] : i \in 1..Len(Stages)}

KnownStatuses == (StageKinds \ {"locked", "released", "started"}) \cup {"unknown", "running", "own"}
NoSnap == "none"
Snapshots == [SSJobs -> KnownStatuses \cup {NoSnap}]
Openers == {"layer", "state"}
LogEntry == [job : SSJobs, kind : StageKinds \cup {"snapshot"}, own : BOOLEAN, seq : 1..MaxLogged]
NotSaving == [pc |-> "idle", job |-> CHOOSE j \in SSJobs : TRUE, status |-> NoSnap]
NoCopy == [pc |-> "none", todo |-> <<>>, rows |-> <<>>]

StateStoreTypeOK ==
    /\ entries \in Seq(LogEntry) /\ Len(entries) <= MaxLogged
    /\ counter \in [Openers -> 0..MaxLogged]
    /\ told \in [SSJobs -> StageKinds \cup {"unknown"}]
    /\ snaps \in Snapshots /\ wiped \in BOOLEAN
    /\ snapfile \in [torn : BOOLEAN, at : Snapshots]
    /\ saving \in [pc : {"idle", "truncated", "written"}, job : SSJobs,
                   status : KnownStatuses \cup {NoSnap}]
    /\ copy.pc \in {"none", "exported", "importing", "broken", "done"}
    /\ copy.todo \in Seq(LogEntry) /\ copy.rows \in Seq(LogEntry)
    /\ taken \in 0..MaxSaves /\ storedeaths \in 0..MaxStoreDeaths

StateStoreInit ==
    /\ entries = <<>> /\ counter = [o \in Openers |-> 0]
    /\ told = [j \in SSJobs |-> "unknown"]
    /\ snaps = [j \in SSJobs |-> NoSnap]
    /\ snapfile = [torn |-> FALSE, at |-> snaps]
    /\ saving = NotSaving /\ wiped = FALSE /\ copy = NoCopy
    /\ taken = 0 /\ storedeaths = 0

-----------------------------------------------------------------------------
(* Reading the log.                                                        *)

\* ORDER BY sequence; rows with one number come in the order of insertion.
Before(rows, i, k) ==
    rows[i].seq < rows[k].seq \/ (rows[i].seq = rows[k].seq /\ i < k)

\* WHERE job_id = ?, of the kinds a reader has a case for.
GetEventsForJob(rows, j, kinds) ==
    {i \in 1..Len(rows) : rows[i].job = j /\ rows[i].kind \in kinds}

\* A reader goes over its rows in order and each overwrites the status, so the
\* last one says it.
StatusOf(e) == IF e.kind = "started" THEN "running" ELSE e.kind
LastOf(rows, found) == CHOOSE i \in found : \A k \in found \ {i} : Before(rows, k, i)
LastSays(rows, found) ==
    IF found = {} THEN "unknown" ELSE StatusOf(rows[LastOf(rows, found)])

\* get_job_state: the payload is merged last, so a result that names a status
\* of its own wins.
StateKinds == StageKinds \ {"locked", "released"}
GetJobState(rows, j) ==
    LET found == GetEventsForJob(rows, j, StateKinds)
    IN  IF found # {} /\ rows[LastOf(rows, found)].own THEN "own" ELSE LastSays(rows, found)

\* replay_to_state knows only the start and the ends.
ReplayKinds == Ends \cup {"started"}
ReplayToState(rows, j) == LastSays(rows, GetEventsForJob(rows, j, ReplayKinds))

\* rollback_to_sequence: what the rows up to the number say; a cancelled job
\* is not among the cases.
RollbackKinds == ReplayKinds \ {"cancelled"}
UpTo(j, n, kinds) == {i \in GetEventsForJob(entries, j, kinds) : entries[i].seq <= n}

-----------------------------------------------------------------------------
(* Recording.                                                              *)

NextSeq(o) == counter[o] + 1

\* DurabilityLayer.record_*: one committed row, numbered by its own counter.
Record(j, kind, own) ==
    /\ Len(entries) < MaxLogged /\ NextSeq("layer") <= MaxLogged
    /\ told[j] \notin Ends /\ told[j] # "unknown" => Stage(told[j]) < Stage(kind)
    /\ own => kind = "completed"
    /\ entries' = Append(entries, [job |-> j, kind |-> kind, own |-> own,
                                   seq |-> NextSeq("layer")])
    /\ counter' = [counter EXCEPT !["layer"] = NextSeq("layer")]
    /\ told' = [told EXCEPT ![j] = kind]
    /\ UNCHANGED <<snaps, snapfile, saving, wiped, copy, storedeaths, taken>>

\* save_job_state: the dictionary, then the file is opened for writing ...
Saves(j, status) ==
    /\ saving.pc = "idle" /\ taken < MaxSaves /\ taken' = taken + 1
    /\ snaps' = [snaps EXCEPT ![j] = status]
    /\ snapfile' = [snapfile EXCEPT !.torn = TRUE]
    /\ saving' = [pc |-> "truncated", job |-> j, status |-> status]
    /\ UNCHANGED <<entries, counter, told, wiped, copy, storedeaths>>

SaveJobState(j) == Saves(j, GetJobState(entries, j))

RollbackToSequence(j, n) ==
    /\ UpTo(j, n, StageKinds \cup {"snapshot"}) # {}
    /\ Saves(j, LastSays(entries, UpTo(j, n, RollbackKinds)))

\* ... is written ...
SaveSnapshots ==
    /\ saving.pc = "truncated"
    /\ snapfile' = [torn |-> FALSE, at |-> snaps]
    /\ saving' = [saving EXCEPT !.pc = "written"]
    /\ UNCHANGED <<entries, counter, told, snaps, wiped, copy, storedeaths, taken>>

\* ... and the checkpoint row follows.
EmitCheckpoint ==
    /\ saving.pc = "written" /\ Len(entries) < MaxLogged /\ NextSeq("state") <= MaxLogged
    /\ entries' = Append(entries, [job |-> saving.job, kind |-> "snapshot", own |-> FALSE,
                                   seq |-> NextSeq("state")])
    /\ counter' = [counter EXCEPT !["state"] = NextSeq("state")]
    /\ saving' = NotSaving
    /\ UNCHANGED <<told, snaps, snapfile, wiped, copy, storedeaths, taken>>

-----------------------------------------------------------------------------
(* Export, import, restart.                                                *)

\* order is that of the rows: ORDER BY sequence.
Ordering == {order \in [1..Len(entries) -> 1..Len(entries)] :
                \A i, k \in 1..Len(entries) : i < k => Before(entries, order[i], order[k])}
ExportAll ==
    /\ saving.pc = "idle" /\ entries # <<>>
    /\ \E order \in Ordering :
         copy' = [pc |-> "exported", rows |-> <<>>,
                  todo |-> [i \in 1..Len(entries) |-> entries[order[i]]]]
    /\ UNCHANGED <<entries, counter, told, snaps, snapfile, saving, wiped, storedeaths, taken>>

\* import_all into an empty store; with rows there, the first INSERT meets its
\* event_id again and raises, so a broken import cannot be repeated.
ImportAll ==
    /\ copy.pc \in {"exported", "broken"} /\ copy.rows = <<>>
    /\ copy' = [copy EXCEPT !.pc = "importing"]
    /\ UNCHANGED <<entries, counter, told, snaps, snapfile, saving, wiped, storedeaths, taken>>

\* append gives the row the number its own store counts.
ImportRow ==
    /\ copy.pc = "importing"
    /\ LET n == Len(copy.rows) + 1
           row == [copy.todo[n] EXCEPT !.seq = n]
       IN  copy' = [copy EXCEPT !.rows = Append(@, row),
                                !.pc = IF n = Len(copy.todo) THEN "done" ELSE @]
    /\ UNCHANGED <<entries, counter, told, snaps, snapfile, saving, wiped, storedeaths, taken>>

Dies == storedeaths < MaxStoreDeaths /\ storedeaths' = storedeaths + 1

ImportDies ==
    /\ copy.pc = "importing" /\ Dies
    /\ copy' = [copy EXCEPT !.pc = "broken"]
    /\ UNCHANGED <<entries, counter, told, snaps, snapfile, saving, wiped, taken>>

\* A new EventStore starts behind the last number of the table.
LastSeq == Max({0} \cup {entries[i].seq : i \in 1..Len(entries)})

LayerRestarts ==
    /\ Dies /\ counter' = [counter EXCEPT !["layer"] = LastSeq]
    /\ UNCHANGED <<entries, told, snaps, snapfile, saving, wiped, copy, taken>>

\* A StateStore reads its snapshots; a torn file is an empty dictionary.
StateRestarts ==
    /\ Dies /\ counter' = [counter EXCEPT !["state"] = LastSeq]
    /\ snaps' = IF snapfile.torn THEN [j \in SSJobs |-> NoSnap] ELSE snapfile.at
    /\ wiped' = (wiped \/ snapfile.torn) /\ saving' = NotSaving
    /\ UNCHANGED <<entries, told, snapfile, copy, taken>>

StoreSteps ==
    \/ \E j \in SSJobs :
         \/ \E kind \in StageKinds, own \in BOOLEAN : Record(j, kind, own)
         \/ SaveJobState(j)
         \/ \E n \in 1..MaxLogged : RollbackToSequence(j, n)
    \/ SaveSnapshots \/ EmitCheckpoint \/ ExportAll \/ LayerRestarts \/ StateRestarts

\* The two stores share nothing: what the first does after the export is the
\* same as without it.
StatesNext ==
    \/ copy.pc = "none" /\ StoreSteps
    \/ ImportAll \/ ImportRow \/ ImportDies

-----------------------------------------------------------------------------
\* Both readers of the log end with what the facade recorded last of a job,
\* although two counters number the rows and either side restarts
\* (get_job_state, replay_to_state; the result's own status aside).
BothReadersAgree ==
    \A j \in SSJobs : told[j] \in Ends =>
        /\ ReplayToState(entries, j) = told[j]
        /\ GetJobState(entries, j) \in {told[j], "own"}

\* A job with a checkpoint row is known to get_all_jobs, unless a torn file was
\* read as empty (save_job_state writes the file first).
CheckpointHasSnapshot ==
    ~wiped => \A i \in 1..Len(entries) :
                  entries[i].kind = "snapshot" => snaps[entries[i].job] # NoSnap

\* An import that ends answers as the exporting store did at the time (it has
\* rested since), numbers that occurred twice there included.
ImportIsFaithful ==
    copy.pc = "done" => \A j \in SSJobs :
        GetJobState(copy.rows, j) = GetJobState(entries, j)

\* The state store tells what was recorded.
StateStoreInv == BothReadersAgree /\ CheckpointHasSnapshot /\ ImportIsFaithful
=============================================================================
