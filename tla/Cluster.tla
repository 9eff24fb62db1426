------------------------------- MODULE Cluster -------------------------------
(***************************************************************************)
(* ha/raft_consensus.py, ha/replicated_event_store.py and                  *)
(* consistency/backpressure.py.                                            *)
(*                                                                         *)
(* The consensus layer simulates its peers: a vote or an acknowledgement   *)
(* is drawn at random, and no entry reaches another node's log.  What is   *)
(* left to get right is the book-keeping of one node (terms, indices,      *)
(* commit index, compaction, membership), with one election thread per     *)
(* node racing the cluster's choice of a leader and its appends.           *)
(***************************************************************************)
EXTENDS Naturals, Sequences, FiniteSets

CONSTANTS
    RNodes,         \* nodes of the cluster, in the order of its table
    Newcomer,       \* a node that add_node may add
    NoLeader,
    MaxTerms,       \* bound: elections
    MaxEntries,     \* bound: length of a log
    Vram,           \* units of GPU memory
    SaturationMax,  \* units above which no job is admitted
    Reserve,        \* units kept for the system
    Cooldown,       \* ticks of the pause after a refusal
    GpuJobs         \* jobs that ask for admission

ASSUME ClusterBounds ==
    /\ {MaxTerms, MaxEntries, Vram, SaturationMax, Reserve, Cooldown} \subseteq Nat
    /\ SaturationMax + Reserve <= Vram /\ IsFiniteSet(GpuJobs)

VARIABLES
    raft,       \* NodeState, next_index and the election thread of each node
    members,    \* cluster_nodes: one list, shared by every node
    electing,   \* elect_leader holds the cluster's lock
    leaderId,   \* leader_id
    compacted,  \* nodes that took a snapshot
    replicas,   \* ReplicatedEventStore: alive replicas, local and commit index
    used,       \* _gpu_vram_used_mb
    cooling,    \* what is left of the pause
    phase,      \* each job: idle, admitted, running or done
    corrected   \* update_gpu_vram has overwritten the account

raftvars == <<raft, members, electing, leaderId, compacted>>
pressurevars == <<used, cooling, phase, corrected>>
cvars == <<raftvars, replicas, pressurevars>>

Ids == {RNodes[i] : i \in 1..Len(RNodes)}
Entry == [index : 1..MaxEntries, term : 0..MaxTerms, committed : BOOLEAN]
Absent == 0     \* a peer with no entry in next_index
Size(j) == IF j = (CHOOSE x \in GpuJobs : TRUE) THEN 2 ELSE 1

ClusterTypeOK ==
    /\ \A n \in Ids :
        /\ raft[n].role \in {"follower", "candidate", "leader"}
        /\ raft[n].term \in 0..MaxTerms
        /\ raft[n].log \in Seq(Entry) /\ raft[n].commit \in 0..MaxEntries
        /\ raft[n].next \in [Ids \cup {Newcomer} -> 0..(MaxEntries + 1)]
        /\ raft[n].thread \in {"none", "start", "asking"}
    /\ members \subseteq Ids \cup {Newcomer} /\ electing \in BOOLEAN
    /\ leaderId \in Ids \cup {NoLeader} /\ compacted \subseteq Ids
    /\ replicas \in [alive : 0..Len(RNodes), local : 0..MaxEntries, commit : 0..MaxEntries]
    /\ used \in 0..(2 * Vram) /\ cooling \in 0..Cooldown /\ corrected \in BOOLEAN
    /\ phase \in [GpuJobs -> {"idle", "admitted", "running", "done"}]

ClusterInit ==
    /\ raft = [n \in Ids |-> [role |-> "follower", term |-> 0, log |-> <<>>, commit |-> 0,
                              next |-> [p \in Ids \cup {Newcomer} |->
                                            IF p \in Ids THEN 1 ELSE Absent],
                              thread |-> "none"]]
    /\ members = Ids /\ electing = FALSE /\ leaderId = NoLeader /\ compacted = {}
    /\ replicas = [alive |-> Len(RNodes), local |-> 0, commit |-> 0]
    /\ used = 0 /\ cooling = 0 /\ corrected = FALSE
    /\ phase = [j \in GpuJobs |-> "idle"]

Needed == (Cardinality(members) \div 2) + 1

-----------------------------------------------------------------------------
(* Elections: ROMARaftCluster.elect_leader and its threads                 *)

ElectBegins ==
    /\ ~electing /\ electing' = TRUE
    /\ \A n \in Ids : raft[n].thread = "none" /\ raft[n].term < MaxTerms
    /\ raft' = [n \in Ids |-> [raft[n] EXCEPT !.thread = "start"]]
    /\ UNCHANGED <<members, leaderId, compacted, replicas, pressurevars>>

StartElection(n) ==
    /\ raft[n].thread = "start"
    /\ raft' = [raft EXCEPT ![n].thread = "asking", ![n].role = "candidate",
                            ![n].term = @ + 1]
    /\ UNCHANGED <<members, electing, leaderId, compacted, replicas, pressurevars>>

\* The votes are drawn; a node that is alone has nobody to ask and loses.
VotesIn(n) ==
    /\ raft[n].thread = "asking"
    /\ \E granted \in SUBSET (members \ {n}) :
        IF granted # {} /\ Cardinality(granted) + 1 >= Needed
        THEN raft' = [raft EXCEPT ![n].thread = "none", ![n].role = "leader",
                                  ![n].next = [p \in DOMAIN @ |->
                                      IF p \in members THEN Len(raft[n].log) + 1 ELSE @[p]]]
        ELSE raft' = [raft EXCEPT ![n].thread = "none"]
    /\ UNCHANGED <<members, electing, leaderId, compacted, replicas, pressurevars>>

\* After its pause the cluster takes the first leader of its table, however
\* far the threads have come; without one the old leader stays.
Leaders == {i \in 1..Len(RNodes) : raft[RNodes[i]].role = "leader"}
PickLeader ==
    /\ electing /\ electing' = FALSE
    /\ leaderId' = IF Leaders = {} THEN leaderId
                   ELSE RNodes[CHOOSE i \in Leaders : \A k \in Leaders : i <= k]
    /\ UNCHANGED <<raft, members, compacted, replicas, pressurevars>>

-----------------------------------------------------------------------------
(* Log, compaction and membership of one node                              *)

NextIndex(n) == Len(raft[n].log) + 1

\* append_entry on the leader the cluster knows.  The entry stays in the log
\* when the node has lost its role, when too few peers answer, or when a peer
\* of the shared list is missing in this node's tables (a KeyError).
Acks(n) == SUBSET {p \in members \ {n} : raft[n].next[p] <= Len(raft[n].log) + 1}
AppendEntry(n, acks) ==
    LET entry == [index |-> NextIndex(n), term |-> raft[n].term, committed |-> FALSE]
        log   == Append(raft[n].log, entry)
        won   == /\ raft[n].role = "leader"
                 /\ \A p \in members \ {n} : raft[n].next[p] # Absent
                 /\ Cardinality(acks) + 1 >= Needed
    IN  raft' = [raft EXCEPT
            ![n].log = IF ~won THEN log
                       ELSE [i \in 1..Len(log) |->
                                IF log[i].index <= entry.index
                                THEN [log[i] EXCEPT !.committed = TRUE] ELSE log[i]],
            ![n].commit = IF won THEN entry.index ELSE @]

ClusterAppend ==
    /\ ~electing /\ leaderId # NoLeader /\ Len(raft[leaderId].log) < MaxEntries
    /\ \E acks \in Acks(leaderId) : AppendEntry(leaderId, acks)
    /\ UNCHANGED <<members, electing, leaderId, compacted, replicas, pressurevars>>

Snapshot(n, upTo) ==
    /\ upTo <= raft[n].commit
    /\ raft' = [raft EXCEPT ![n].log = SelectSeq(@, LAMBDA e : e.index >= upTo)]
    /\ compacted' = compacted \cup {n}
    /\ UNCHANGED <<members, electing, leaderId, replicas, pressurevars>>

AddNode(n) ==
    /\ raft[n].role = "leader" /\ Newcomer \notin members
    /\ members' = members \cup {Newcomer}
    /\ raft' = [raft EXCEPT ![n].next[Newcomer] = 1]
    /\ UNCHANGED <<electing, leaderId, compacted, replicas, pressurevars>>

RemoveNode(n, gone) ==
    /\ raft[n].role = "leader" /\ gone # n /\ gone \in members
    /\ members' = members \ {gone}
    /\ raft' = [raft EXCEPT ![n].next[gone] = Absent]
    /\ UNCHANGED <<electing, leaderId, compacted, replicas, pressurevars>>

-----------------------------------------------------------------------------
(* ReplicatedEventStore.write                                              *)

TryCommit(index) ==
    IF replicas.alive >= (Len(RNodes) \div 2) + 1 THEN index ELSE replicas.commit

StoreWrite ==
    /\ replicas.local < MaxEntries
    /\ replicas' = [replicas EXCEPT !.local = @ + 1, !.commit = TryCommit(replicas.local + 1)]
    /\ UNCHANGED <<raftvars, pressurevars>>

\* Replicas are marked from outside.
ReplicaMarked(k) ==
    /\ replicas' = [replicas EXCEPT !.alive = k]
    /\ UNCHANGED <<raftvars, pressurevars>>

-----------------------------------------------------------------------------
(* BackpressureSystem                                                      *)

\* should_admit: a pause that runs, the saturation limit, the reserve.  A
\* refusal of the last two kinds starts the pause again.
ShouldAdmit(j) ==
    /\ phase[j] = "idle"
    /\ IF cooling > 0 THEN UNCHANGED <<cooling, phase>>
       ELSE IF used + Size(j) > SaturationMax \/ Size(j) + used + Reserve > Vram
       THEN cooling' = Cooldown /\ UNCHANGED phase
       ELSE phase' = [phase EXCEPT ![j] = "admitted"] /\ UNCHANGED cooling
    /\ UNCHANGED <<raftvars, replicas, used, corrected>>

RecordJobStart(j) ==
    /\ phase[j] = "admitted" /\ used + Size(j) <= 2 * Vram
    /\ used' = used + Size(j)
    /\ phase' = [phase EXCEPT ![j] = "running"]
    /\ UNCHANGED <<raftvars, replicas, cooling, corrected>>

VramReleased(j) == IF used >= Size(j) THEN used - Size(j) ELSE 0
RecordJobComplete(j) ==
    /\ phase[j] = "running"
    /\ used' = VramReleased(j)
    /\ phase' = [phase EXCEPT ![j] = "done"]
    /\ UNCHANGED <<raftvars, replicas, cooling, corrected>>

\* The queue reports a depth above its limit.
QueueTooDeep == cooling' = Cooldown /\ UNCHANGED <<raftvars, replicas, used, phase, corrected>>
CooldownTicks ==
    /\ cooling > 0 /\ cooling' = cooling - 1
    /\ UNCHANGED <<raftvars, replicas, used, phase, corrected>>
UpdateGpuVram(measured) ==
    /\ used' = measured /\ corrected' = TRUE
    /\ UNCHANGED <<raftvars, replicas, cooling, phase>>

RaftNext ==
    \/ ElectBegins \/ PickLeader \/ ClusterAppend
    \/ \E n \in Ids :
        \/ StartElection(n) \/ VotesIn(n) \/ AddNode(n)
        \/ \E k \in 1..MaxEntries : Snapshot(n, k)
        \/ \E g \in Ids \cup {Newcomer} : RemoveNode(n, g)

StoreNext == StoreWrite \/ \E k \in 0..Len(RNodes) : ReplicaMarked(k)

PressureNext ==
    \/ \E j \in GpuJobs : ShouldAdmit(j) \/ RecordJobStart(j) \/ RecordJobComplete(j)
    \/ QueueTooDeep \/ CooldownTicks
    \/ \E measured \in {0, Vram} : UpdateGpuVram(measured)

-----------------------------------------------------------------------------
Untruncated(n) == n \notin compacted

\* While a node keeps its whole log, its indices count the entries, terms
\* never decrease along it or exceed the node's own, and exactly the entries
\* up to the commit index are committed, through lost roles, changes of the
\* membership and concurrent elections.
RaftBooksRight ==
    \A n \in Ids : Untruncated(n) =>
        LET log == raft[n].log
        IN  \A i \in 1..Len(log) :
                /\ log[i].index = i /\ log[i].term <= raft[n].term
                /\ \A k \in 1..i : log[k].term <= log[i].term
                /\ log[i].committed <=> i <= raft[n].commit

Share(S) == Cardinality(S) + Cardinality({j \in S : Size(j) = 2})
\* Without a correction from outside, the memory account is what the running
\* jobs hold; jobs admitted but not yet started can exceed the limit only by
\* the jobs admitted beside them.
MemoryAccounted ==
    ~corrected =>
        LET running  == {j \in GpuJobs : phase[j] = "running"}
            admitted == {j \in GpuJobs : phase[j] = "admitted"}
        IN  /\ used = Share(running)
            /\ Cardinality(running \cup admitted) <= 1 => used + Share(admitted) <= SaturationMax

ClusterInv == RaftBooksRight /\ MemoryAccounted /\ replicas.commit <= replicas.local
=============================================================================
