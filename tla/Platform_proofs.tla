--------------------------- MODULE Platform_proofs ---------------------------
(***************************************************************************)
(* What runs beside the requests, proved for every value of the constants: *)
(* the plugin manager and its traces, the Jev advisor, the pool of         *)
(* connections, the API process, and the two databases behind the          *)
(* adapter.  For each the inductive invariant, then one lemma per step.    *)
(***************************************************************************)
EXTENDS Receipts_proofs, SequenceTheorems

-----------------------------------------------------------------------------
(* The plugin manager.                                                     *)

PTask == [op : POps \cup {"none"}, on : PluginNames \cup {NoPlugin},
          at : {"idle", "asked", "again", "hook", "nested"}]

\* The kinds, and that a task at work has a plugin.
PlugTypes ==
    /\ instances \in [PluginNames -> [state : PStates, object : BOOLEAN]]
    /\ lockQueue \in Seq(PTasks)
    /\ ptask \in [PTasks -> PTask]
    /\ slipped \subseteq PluginNames
    /\ \A t \in PTasks : ptask[t].at # "idle" => ptask[t].on \in PluginNames

\* The queue of the lock is made of the tasks at work.  Each is in it once,
\* but for the one that waits behind itself, which is its head.
LockQueueInv ==
    /\ \A i \in DOMAIN lockQueue : ptask[lockQueue[i]].at # "idle"
    /\ \A t \in PTasks : ptask[t].at # "idle" => \E i \in DOMAIN lockQueue : lockQueue[i] = t
    /\ \A i, j \in DOMAIN lockQueue : i # j /\ lockQueue[i] = lockQueue[j] => ptask[lockQueue[i]].at = "nested"
    /\ \A t \in PTasks : ptask[t].at \in {"nested", "hook"} => lockQueue # <<>> /\ lockQueue[1] = t

\* A plugin with its object whose dependencies have theirs.
NeedsMet(p) == \A i \in DOMAIN Deps[p] : LET d == Deps[p][i] IN instances[d].object \/ d \in slipped
Whole(p) == instances[p].object /\ NeedsMet(p)

\* Task t is in an enable of p whose first half is done.
EnableUnderWay(t, p) == ptask[t].on = p /\ ptask[t].op = "enable" /\ ptask[t].at \in {"again", "hook"}

\* A live plugin is whole, and so is one whose enable is under way, unless an
\* unload fell into it; once a task waits behind itself nothing is claimed of
\* the dependencies, and nothing changes any more.
RegistryInv ==
    /\ \A p \in PluginNames : State(p) = "absent" => ~instances[p].object
    /\ \A p \in PluginNames : State(p) \in Live /\ p \notin slipped => instances[p].object
    /\ \/ Seized
       \/ \A p \in PluginNames :
             State(p) \in Live \/ (\E t \in PTasks : EnableUnderWay(t, p)) => p \in slipped \/ Whole(p)

\* The steps of a trace, finished or not, are a chain.
ChainsInv ==
    traces \in [TraceIds -> [state : {"new", "active", "completed"},
                             parents : {s \in Seq(Nat) : \A k \in DOMAIN s : s[k] = k - 1}]]

PluginsIInv == PlugTypes /\ LockQueueInv /\ RegistryInv

LEMMA PluginsInitInv == PluginsInit => PluginsIInv /\ ChainsInv
  <1> SUFFICES ASSUME PluginsInit PROVE PluginsIInv /\ ChainsInv
    OBVIOUS
  <1> USE DEF PluginsInit
  <1>1. PlugTypes
    BY DEF PlugTypes, PTask, NoTask, PStates
  <1>2. LockQueueInv
    <2>1. \A t \in PTasks : ptask[t].at = "idle"
      BY DEF NoTask
    <2>2. DOMAIN lockQueue = {}
      OBVIOUS
    <2> QED BY <2>1, <2>2 DEF LockQueueInv
  <1>3. RegistryInv
    <2>1. \A t \in PTasks : ptask[t].at = "idle"
      BY DEF NoTask
    <2>2. \A p \in PluginNames : State(p) = "absent" /\ ~instances[p].object
      BY DEF State
    <2> QED BY <2>1, <2>2 DEF RegistryInv, EnableUnderWay, Live
  <1>4. ChainsInv
    <2>1. <<>> \in {s \in Seq(Nat) : \A k \in DOMAIN s : s[k] = k - 1}
      OBVIOUS
    <2> QED BY <2>1 DEF ChainsInv
  <1> QED BY <1>1, <1>2, <1>3, <1>4 DEF PluginsIInv

(* The task that runs holds the lock, and nobody waits behind itself.      *)
LEMMA HolderRuns ==
    ASSUME PlugTypes, LockQueueInv, NEW t \in PTasks, NEW op, NEW place, place \in {"asked", "again", "hook"},
           Holds(t, op, place)
    PROVE  /\ lockQueue # <<>> /\ lockQueue[1] = t /\ 1 \in DOMAIN lockQueue
           /\ ptask[t].op = op /\ ptask[t].at = place /\ ptask[t].on \in PluginNames
           /\ \A i \in DOMAIN lockQueue : lockQueue[i] = t => i = 1
           /\ \A u \in PTasks : ptask[u].at \in {"nested", "hook"} => u = t
           /\ ~Seized
  <1>1. lockQueue # <<>> /\ lockQueue[1] = t /\ 1 \in DOMAIN lockQueue
    BY DEF Holds, PlugTypes
  <1>2. ptask[t].op = op /\ ptask[t].at = place /\ ptask[t].on \in PluginNames
    BY DEF Holds, PlugTypes
  <1>3. \A u \in PTasks : ptask[u].at \in {"nested", "hook"} => u = t
    BY <1>1 DEF LockQueueInv
  <1>4. ~Seized
    BY <1>2, <1>3 DEF Seized
  <1>5. \A i \in DOMAIN lockQueue : lockQueue[i] = t => i = 1
    BY <1>1, <1>2 DEF LockQueueInv
  <1> QED BY <1>1, <1>2, <1>3, <1>4, <1>5

(* What each way to go on does to the queue.                               *)
LEMMA OneTaskMoves ==
    ASSUME PlugTypes, NEW t \in PTasks, NEW w \in PTask, w.at # "idle" => w.on \in PluginNames,
           ptask' = [ptask EXCEPT ![t] = w]
    PROVE  /\ ptask' \in [PTasks -> PTask] /\ ptask'[t] = w
           /\ \A u \in PTasks : u # t => ptask'[u] = ptask[u]
           /\ \A u \in PTasks : ptask'[u].at # "idle" => ptask'[u].on \in PluginNames
  <1>1. ptask \in [PTasks -> PTask] /\ \A u \in PTasks : ptask[u].at # "idle" => ptask[u].on \in PluginNames
    BY DEF PlugTypes
  <1> QED BY <1>1

LEMMA EndsQueue ==
    ASSUME PlugTypes, LockQueueInv, NEW t \in PTasks, NEW op, NEW place, place \in {"asked", "again", "hook"},
           Holds(t, op, place), Ends(t)
    PROVE  /\ lockQueue' \in Seq(PTasks) /\ ptask' \in [PTasks -> PTask]
           /\ \A u \in PTasks : ptask'[u].at # "idle" => ptask'[u].on \in PluginNames
           /\ ptask'[t].at = "idle" /\ \A u \in PTasks : u # t => ptask'[u] = ptask[u]
           /\ LockQueueInv'
  <1>1. NoTask \in PTask /\ NoTask.at = "idle"
    BY DEF NoTask, PTask
  <1>2. /\ ptask' \in [PTasks -> PTask] /\ ptask'[t] = NoTask
        /\ \A u \in PTasks : u # t => ptask'[u] = ptask[u]
        /\ \A u \in PTasks : ptask'[u].at # "idle" => ptask'[u].on \in PluginNames
    BY <1>1, OneTaskMoves DEF Ends
  <1>3. /\ lockQueue # <<>> /\ lockQueue[1] = t /\ 1 \in DOMAIN lockQueue
        /\ \A i \in DOMAIN lockQueue : lockQueue[i] = t => i = 1
        /\ \A u \in PTasks : ptask[u].at \in {"nested", "hook"} => u = t
    BY HolderRuns
  <1>4. /\ lockQueue' = Tail(lockQueue) /\ lockQueue \in Seq(PTasks) /\ lockQueue' \in Seq(PTasks)
        /\ DOMAIN lockQueue = 1..Len(lockQueue) /\ DOMAIN lockQueue' = 1..(Len(lockQueue) - 1)
        /\ \A i \in DOMAIN lockQueue' : lockQueue'[i] = lockQueue[i + 1]
    BY <1>3 DEF Ends, PlugTypes
  <1>5. \A i \in DOMAIN lockQueue' : i + 1 \in DOMAIN lockQueue /\ lockQueue'[i] # t /\ lockQueue'[i] \in PTasks
    BY <1>3, <1>4
  <1>6. LockQueueInv'
    <2>1. \A i \in DOMAIN lockQueue' : ptask'[lockQueue'[i]].at # "idle"
      BY <1>2, <1>4, <1>5 DEF LockQueueInv
    <2>2. ASSUME NEW u \in PTasks, ptask'[u].at # "idle" PROVE \E i \in DOMAIN lockQueue' : lockQueue'[i] = u
      <3>1. u # t /\ ptask[u].at # "idle"
        BY <1>1, <1>2, <2>2
      <3>2. PICK i \in DOMAIN lockQueue : lockQueue[i] = u
        BY <3>1 DEF LockQueueInv
      <3>3. i # 1
        BY <1>3, <3>1, <3>2
      <3>4. i - 1 \in DOMAIN lockQueue' /\ (i - 1) + 1 = i
        BY <1>4, <3>3
      <3> QED BY <1>4, <3>2, <3>4
    <2>3. ASSUME NEW i \in DOMAIN lockQueue', NEW j \in DOMAIN lockQueue', i # j, lockQueue'[i] = lockQueue'[j]
          PROVE  ptask'[lockQueue'[i]].at = "nested"
      <3>1. /\ i + 1 \in DOMAIN lockQueue /\ j + 1 \in DOMAIN lockQueue /\ i + 1 # j + 1
            /\ lockQueue[i + 1] = lockQueue[j + 1] /\ lockQueue[i + 1] = lockQueue'[i]
        BY <1>4, <1>5, <2>3
      <3>2. ptask[lockQueue'[i]].at = "nested"
        BY <3>1 DEF LockQueueInv
      <3> QED BY <1>2, <1>5, <3>2
    <2>4. ASSUME NEW u \in PTasks, ptask'[u].at \in {"nested", "hook"} PROVE FALSE
      BY <1>1, <1>2, <1>3, <2>4
    <2> QED BY <2>1, <2>2, <2>3, <2>4 DEF LockQueueInv
  <1> QED BY <1>1, <1>2, <1>4, <1>6

(* A task joins the end of the queue: a call of an idle one, or the holder *)
(* that asks for the lock it holds.                                        *)
LEMMA JoinsQueue ==
    ASSUME PlugTypes, LockQueueInv, NEW t \in PTasks, NEW w \in PTask, w.on \in PluginNames,
           \/ ptask[t].at = "idle" /\ w.at = "asked"
           \/ lockQueue # <<>> /\ lockQueue[1] = t /\ ptask[t].at = "asked" /\ w.at = "nested",
           ptask' = [ptask EXCEPT ![t] = w], lockQueue' = Append(lockQueue, t)
    PROVE  /\ lockQueue' \in Seq(PTasks) /\ ptask' \in [PTasks -> PTask]
           /\ \A u \in PTasks : ptask'[u].at # "idle" => ptask'[u].on \in PluginNames
           /\ ptask'[t] = w /\ \A u \in PTasks : u # t => ptask'[u] = ptask[u]
           /\ LockQueueInv'
  <1>1. /\ ptask' \in [PTasks -> PTask] /\ ptask'[t] = w
        /\ \A u \in PTasks : u # t => ptask'[u] = ptask[u]
        /\ \A u \in PTasks : ptask'[u].at # "idle" => ptask'[u].on \in PluginNames
    BY OneTaskMoves
  <1>2. /\ lockQueue \in Seq(PTasks) /\ lockQueue' \in Seq(PTasks)
        /\ DOMAIN lockQueue = 1..Len(lockQueue) /\ DOMAIN lockQueue' = 1..(Len(lockQueue) + 1) /\ Len(lockQueue) \in Nat
        /\ \A i \in DOMAIN lockQueue : lockQueue'[i] = lockQueue[i] /\ lockQueue[i] \in PTasks
        /\ lockQueue'[Len(lockQueue) + 1] = t
    BY DEF PlugTypes
  <1>3. \A i \in DOMAIN lockQueue' : i \in DOMAIN lockQueue \/ i = Len(lockQueue) + 1
    BY <1>2
  <1>4. w.at # "idle"
    OBVIOUS
  <1>5. \A i \in DOMAIN lockQueue : lockQueue[i] = t => w.at = "nested" /\ ptask[t].at # "idle"
    BY DEF LockQueueInv
  <1>6. \A u \in PTasks : u # t /\ ptask[u].at = "nested" => w.at # "nested"
    BY DEF LockQueueInv
  <1>7. LockQueueInv'
    <2>1. ASSUME NEW i \in DOMAIN lockQueue' PROVE ptask'[lockQueue'[i]].at # "idle"
      <3>1. CASE i \in DOMAIN lockQueue
        <4>1. lockQueue[i] \in PTasks /\ lockQueue'[i] = lockQueue[i] /\ ptask[lockQueue[i]].at # "idle"
          BY <1>2, <3>1 DEF LockQueueInv
        <4> QED BY <1>1, <1>4, <4>1
      <3>2. CASE i = Len(lockQueue) + 1
        BY <1>1, <1>2, <1>4, <3>2
      <3> QED BY <1>3, <3>1, <3>2
    <2>2. ASSUME NEW u \in PTasks, ptask'[u].at # "idle" PROVE \E i \in DOMAIN lockQueue' : lockQueue'[i] = u
      <3>1. CASE u = t
        <4>1. Len(lockQueue) + 1 \in DOMAIN lockQueue'
          BY <1>2
        <4> QED BY <1>2, <3>1, <4>1
      <3>2. CASE u # t
        <4>1. ptask[u].at # "idle"
          BY <1>1, <2>2, <3>2
        <4>2. PICK i \in DOMAIN lockQueue : lockQueue[i] = u
          BY <4>1 DEF LockQueueInv
        <4>3. i \in DOMAIN lockQueue'
          BY <1>2
        <4> QED BY <1>2, <4>2, <4>3
      <3> QED BY <3>1, <3>2
    <2>3. ASSUME NEW i \in DOMAIN lockQueue', NEW j \in DOMAIN lockQueue', i # j, lockQueue'[i] = lockQueue'[j]
          PROVE  ptask'[lockQueue'[i]].at = "nested"
      <3>1. CASE lockQueue'[i] = t
        <4>1. i \in DOMAIN lockQueue \/ j \in DOMAIN lockQueue
          BY <1>3, <2>3
        <4>2. w.at = "nested"
          BY <1>2, <1>5, <2>3, <3>1, <4>1
        <4> QED BY <1>1, <3>1, <4>2
      <3>2. CASE lockQueue'[i] # t
        <4>1. i \in DOMAIN lockQueue /\ j \in DOMAIN lockQueue
          BY <1>2, <1>3, <2>3, <3>2
        <4>2. /\ lockQueue'[i] = lockQueue[i] /\ lockQueue'[j] = lockQueue[j] /\ lockQueue[i] \in PTasks
          BY <1>2, <4>1
        <4>3. ptask[lockQueue[i]].at = "nested"
          BY <2>3, <4>1, <4>2 DEF LockQueueInv
        <4> QED BY <1>1, <3>2, <4>2, <4>3
      <3> QED BY <3>1, <3>2
    <2>4. ASSUME NEW u \in PTasks, ptask'[u].at \in {"nested", "hook"} PROVE lockQueue' # <<>> /\ lockQueue'[1] = u
      <3>1. lockQueue' # <<>>
        BY <1>2
      <3>2. lockQueue # <<>> /\ lockQueue[1] = u
        <4>1. CASE u = t
          BY <1>1, <2>4, <4>1
        <4>2. CASE u # t
          BY <1>1, <2>4, <4>2 DEF LockQueueInv
        <4> QED BY <4>1, <4>2
      <3>3. 1 \in DOMAIN lockQueue
        BY <1>2, <3>2
      <3> QED BY <1>2, <3>1, <3>2, <3>3
    <2> QED BY <2>1, <2>2, <2>3, <2>4 DEF LockQueueInv
  <1> QED BY <1>1, <1>2, <1>7

(* enable is put at the end of the queue for its second half.              *)
LEMMA AgainQueue ==
    ASSUME PlugTypes, LockQueueInv, NEW t \in PTasks, Holds(t, "enable", "asked"),
           lockQueue' = Append(Tail(lockQueue), t), ptask' = [ptask EXCEPT ![t].at = "again"]
    PROVE  /\ lockQueue' \in Seq(PTasks) /\ ptask' \in [PTasks -> PTask]
           /\ \A u \in PTasks : ptask'[u].at # "idle" => ptask'[u].on \in PluginNames
           /\ ptask'[t].on = ptask[t].on /\ ptask'[t].at = "again"
           /\ \A u \in PTasks : u # t => ptask'[u] = ptask[u]
           /\ LockQueueInv'
  <1>1. /\ lockQueue # <<>> /\ lockQueue[1] = t /\ 1 \in DOMAIN lockQueue
        /\ ptask[t].on \in PluginNames
        /\ \A i \in DOMAIN lockQueue : lockQueue[i] = t => i = 1
        /\ \A u \in PTasks : ptask[u].at \in {"nested", "hook"} => u = t
    BY HolderRuns
  <1>2. PICK q \in PTask : q = ptask[t]
    BY DEF PlugTypes
  <1>3. PICK w \in PTask : w = [q EXCEPT !.at = "again"] /\ w.on = q.on /\ w.at = "again"
    <2>1. [q EXCEPT !.at = "again"] \in PTask
      BY DEF PTask
    <2>2. /\ [q EXCEPT !.at = "again"].on = q.on /\ [q EXCEPT !.at = "again"].op = q.op
          /\ [q EXCEPT !.at = "again"].at = "again"
      BY DEF PTask
    <2> QED BY <2>1, <2>2
  <1>4. /\ ptask' \in [PTasks -> PTask] /\ ptask'[t] = w
        /\ \A u \in PTasks : u # t => ptask'[u] = ptask[u]
        /\ \A u \in PTasks : ptask'[u].at # "idle" => ptask'[u].on \in PluginNames
    <2>1. ptask' = [ptask EXCEPT ![t] = w] /\ (w.at # "idle" => w.on \in PluginNames)
      BY <1>1, <1>2, <1>3
    <2> QED BY <2>1, OneTaskMoves
  <1>5. /\ lockQueue \in Seq(PTasks) /\ lockQueue' \in Seq(PTasks) /\ Len(lockQueue) \in Nat
        /\ DOMAIN lockQueue = 1..Len(lockQueue) /\ DOMAIN lockQueue' = 1..Len(lockQueue)
        /\ \A i \in DOMAIN lockQueue : i # Len(lockQueue) => lockQueue'[i] = lockQueue[i + 1]
        /\ lockQueue'[Len(lockQueue)] = t
    <2>1. lockQueue \in Seq(PTasks) /\ Tail(lockQueue) \in Seq(PTasks) /\ Len(Tail(lockQueue)) = Len(lockQueue) - 1
          /\ Len(lockQueue) \in Nat /\ Len(lockQueue) > 0
      BY <1>1 DEF PlugTypes
    <2>2. \A i \in 1..(Len(lockQueue) - 1) : Tail(lockQueue)[i] = lockQueue[i + 1]
      BY <1>1 DEF PlugTypes
    <2> QED BY <2>1, <2>2
  <1>6. \A i \in DOMAIN lockQueue' : i = Len(lockQueue) \/
           (i # Len(lockQueue) /\ i + 1 \in DOMAIN lockQueue /\ lockQueue'[i] = lockQueue[i + 1] /\ lockQueue'[i] # t /\ lockQueue'[i] \in PTasks)
    BY <1>1, <1>5
  <1>7. LockQueueInv'
    <2>1. \A i \in DOMAIN lockQueue' : ptask'[lockQueue'[i]].at # "idle"
      BY <1>3, <1>4, <1>5, <1>6 DEF LockQueueInv
    <2>2. ASSUME NEW u \in PTasks, ptask'[u].at # "idle" PROVE \E i \in DOMAIN lockQueue' : lockQueue'[i] = u
      <3>1. CASE u = t
        <4>1. Len(lockQueue) \in DOMAIN lockQueue'
          BY <1>1, <1>5
        <4> QED BY <1>5, <3>1, <4>1
      <3>2. CASE u # t
        <4>1. ptask[u].at # "idle"
          BY <1>4, <2>2, <3>2
        <4>2. PICK i \in DOMAIN lockQueue : lockQueue[i] = u
          BY <4>1 DEF LockQueueInv
        <4>3. i # 1
          BY <1>1, <3>2, <4>2
        <4>4. i - 1 \in DOMAIN lockQueue' /\ (i - 1) + 1 = i /\ i - 1 # Len(lockQueue)
          BY <1>5, <4>3
        <4> QED BY <1>5, <4>2, <4>4
      <3> QED BY <3>1, <3>2
    <2>3. ASSUME NEW i \in DOMAIN lockQueue', NEW j \in DOMAIN lockQueue', i # j, lockQueue'[i] = lockQueue'[j]
          PROVE  ptask'[lockQueue'[i]].at = "nested"
      <3>0. i # Len(lockQueue) /\ j # Len(lockQueue)
        BY <1>5, <1>6, <2>3
      <3>1. /\ i + 1 \in DOMAIN lockQueue /\ j + 1 \in DOMAIN lockQueue /\ i + 1 # j + 1
            /\ lockQueue[i + 1] = lockQueue[j + 1] /\ lockQueue[i + 1] = lockQueue'[i]
            /\ lockQueue'[i] # t /\ lockQueue'[i] \in PTasks
        BY <1>5, <1>6, <2>3, <3>0
      <3>2. ptask[lockQueue'[i]].at = "nested"
        BY <3>1 DEF LockQueueInv
      <3> QED BY <1>4, <3>1, <3>2
    <2>4. ASSUME NEW u \in PTasks, ptask'[u].at \in {"nested", "hook"} PROVE FALSE
      BY <1>1, <1>3, <1>4, <2>4
    <2> QED BY <2>1, <2>2, <2>3, <2>4 DEF LockQueueInv
  <1> QED BY <1>2, <1>3, <1>4, <1>5, <1>7

(* A hook suspends the holder, which keeps the lock.                       *)
LEMMA SuspendsQueue ==
    ASSUME PlugTypes, LockQueueInv, NEW t \in PTasks, NEW op, NEW place, place \in {"asked", "again"},
           Holds(t, op, place), Suspends(t)
    PROVE  /\ lockQueue' \in Seq(PTasks) /\ ptask' \in [PTasks -> PTask]
           /\ \A u \in PTasks : ptask'[u].at # "idle" => ptask'[u].on \in PluginNames
           /\ ptask'[t].on = ptask[t].on /\ ptask'[t].op = op /\ ptask'[t].at = "hook"
           /\ \A u \in PTasks : u # t => ptask'[u] = ptask[u]
           /\ LockQueueInv'
  <1>1. /\ lockQueue # <<>> /\ lockQueue[1] = t /\ 1 \in DOMAIN lockQueue
        /\ ptask[t].on \in PluginNames /\ ptask[t].op = op /\ ptask[t].at = place
        /\ \A i \in DOMAIN lockQueue : lockQueue[i] = t => i = 1
        /\ \A u \in PTasks : ptask[u].at \in {"nested", "hook"} => u = t
    BY HolderRuns
  <1>2. PICK q \in PTask : q = ptask[t]
    BY DEF PlugTypes
  <1>3. PICK w \in PTask : w = [q EXCEPT !.at = "hook"] /\ w.on = q.on /\ w.op = q.op /\ w.at = "hook"
    <2>1. [q EXCEPT !.at = "hook"] \in PTask
      BY DEF PTask
    <2>2. /\ [q EXCEPT !.at = "hook"].on = q.on /\ [q EXCEPT !.at = "hook"].op = q.op
          /\ [q EXCEPT !.at = "hook"].at = "hook"
      BY DEF PTask
    <2> QED BY <2>1, <2>2
  <1>4. /\ ptask' \in [PTasks -> PTask] /\ ptask'[t] = w
        /\ \A u \in PTasks : u # t => ptask'[u] = ptask[u]
        /\ \A u \in PTasks : ptask'[u].at # "idle" => ptask'[u].on \in PluginNames
    <2>1. ptask' = [ptask EXCEPT ![t] = w] /\ (w.at # "idle" => w.on \in PluginNames)
      BY <1>1, <1>2, <1>3 DEF Suspends
    <2> QED BY <2>1, OneTaskMoves
  <1>5. lockQueue' = lockQueue /\ lockQueue \in Seq(PTasks) /\ \A i \in DOMAIN lockQueue : lockQueue[i] \in PTasks
    BY DEF Suspends, PlugTypes
  <1>6. \A u \in PTasks : (ptask'[u].at # "idle") = (ptask[u].at # "idle")
    BY <1>1, <1>3, <1>4
  <1>7. LockQueueInv'
    <2>1. /\ \A i \in DOMAIN lockQueue' : ptask'[lockQueue'[i]].at # "idle"
          /\ \A u \in PTasks : ptask'[u].at # "idle" => \E i \in DOMAIN lockQueue' : lockQueue'[i] = u
      BY <1>5, <1>6 DEF LockQueueInv
    <2>2. ASSUME NEW i \in DOMAIN lockQueue, NEW j \in DOMAIN lockQueue, i # j, lockQueue[i] = lockQueue[j]
          PROVE  ptask'[lockQueue[i]].at = "nested"
      <3>1. lockQueue[i] # t
        BY <1>1, <2>2
      <3>2. ptask[lockQueue[i]].at = "nested"
        BY <2>2 DEF LockQueueInv
      <3> QED BY <1>4, <1>5, <3>1, <3>2
    <2>3. \A u \in PTasks : ptask'[u].at \in {"nested", "hook"} => u = t
      BY <1>1, <1>4
    <2> QED BY <1>1, <1>5, <2>1, <2>2, <2>3 DEF LockQueueInv
  <1> QED BY <1>1, <1>2, <1>3, <1>4, <1>5, <1>7

(* The registry after a step that writes one plugin and takes no object    *)
(* away, or that leaves a task waiting behind itself.                      *)
LEMMA RegistryStep ==
    ASSUME PlugTypes, PlugTypes', RegistryInv, ~Seized, NEW p \in PluginNames,
           NEW s \in PStates, NEW o \in BOOLEAN, instances'[p] = [state |-> s, object |-> o],
           \A q \in PluginNames : q # p => instances'[q] = instances[q],
           slipped' = slipped,
           s = "absent" => ~o,
           s \in Live => p \in slipped \/ o,
           \/ Seized'
           \/ /\ instances[p].object => o
              /\ s \in Live => p \in slipped \/ Whole(p)'
              /\ \A u \in PTasks, q \in PluginNames : EnableUnderWay(u, q)' => EnableUnderWay(u, q) \/ State(q) \in Live
    PROVE  RegistryInv'
  <1>1. /\ State(p)' = s /\ instances'[p].object = o
        /\ \A q \in PluginNames : q # p => State(q)' = State(q) /\ instances'[q].object = instances[q].object
    BY DEF State
  <1>2. /\ \A q \in PluginNames : State(q)' = "absent" => ~instances'[q].object
        /\ \A q \in PluginNames : State(q)' \in Live /\ q \notin slipped' => instances'[q].object
    BY <1>1 DEF RegistryInv
  <1>3. CASE Seized'
    BY <1>2, <1>3 DEF RegistryInv
  <1>4. CASE ~Seized'
    <2>1. \A q \in PluginNames : instances[q].object => instances'[q].object
      BY <1>1, <1>4
    <2>2. \A q \in PluginNames : Whole(q) => Whole(q)'
      <3>1. \A q \in PluginNames : \A i \in DOMAIN Deps[q] : Deps[q][i] \in PluginNames
        BY DepsAssumption
      <3> QED BY <2>1, <3>1 DEF Whole, NeedsMet
    <2>3. ASSUME NEW q \in PluginNames, State(q)' \in Live \/ \E u \in PTasks : EnableUnderWay(u, q)'
          PROVE  q \in slipped' \/ Whole(q)'
      <3>1. CASE State(q) \in Live \/ \E u \in PTasks : EnableUnderWay(u, q)
        BY <2>2, <3>1 DEF RegistryInv
      <3>2. CASE ~(State(q) \in Live \/ \E u \in PTasks : EnableUnderWay(u, q))
        <4>1. State(q)' \in Live
          BY <1>4, <2>3, <3>2
        <4>2. q = p
          BY <1>1, <3>2, <4>1
        <4> QED BY <1>1, <1>4, <4>1, <4>2
      <3> QED BY <3>1, <3>2
    <2> QED BY <1>2, <2>3 DEF RegistryInv
  <1> QED BY <1>3, <1>4

LEMMA InstancesPut ==
    ASSUME PlugTypes, NEW p \in PluginNames, NEW s \in PStates, NEW o \in BOOLEAN, Put(p, s, o)
    PROVE  /\ instances' \in [PluginNames -> [state : PStates, object : BOOLEAN]]
           /\ instances'[p] = [state |-> s, object |-> o]
           /\ \A q \in PluginNames : q # p => instances'[q] = instances[q]
  BY DEF Put, PlugTypes

LEMMA InstanceType ==
    ASSUME PlugTypes, NEW p \in PluginNames
    PROVE  /\ State(p) \in PStates /\ instances[p].object \in BOOLEAN
           /\ instances[p] = [state |-> State(p), object |-> instances[p].object]
  BY DEF PlugTypes, State

(* The call ends: with the plugin written, or with nothing changed.        *)
LEMMA WriteEnds ==
    ASSUME PluginsIInv, NEW t \in PTasks, NEW op, NEW place, place \in {"asked", "again", "hook"},
           Holds(t, op, place), Ends(t), slipped' = slipped,
           NEW p \in PluginNames, NEW s \in PStates, NEW o \in BOOLEAN, Put(p, s, o),
           s = "absent" => ~o,
           instances[p].object => o,
           s \in Live => p \in slipped \/ (o /\ NeedsMet(p))
    PROVE  PluginsIInv'
  <1> USE DEF PluginsIInv
  <1>1. /\ instances' \in [PluginNames -> [state : PStates, object : BOOLEAN]]
        /\ instances'[p] = [state |-> s, object |-> o]
        /\ \A q \in PluginNames : q # p => instances'[q] = instances[q]
    BY InstancesPut
  <1>2. /\ lockQueue' \in Seq(PTasks) /\ ptask' \in [PTasks -> PTask]
        /\ \A u \in PTasks : ptask'[u].at # "idle" => ptask'[u].on \in PluginNames
        /\ ptask'[t].at = "idle" /\ \A u \in PTasks : u # t => ptask'[u] = ptask[u]
        /\ LockQueueInv'
    BY EndsQueue
  <1>3. PlugTypes'
    BY <1>1, <1>2 DEF PlugTypes
  <1>4. ~Seized
    BY HolderRuns
  <1>5. \A u \in PTasks, q \in PluginNames : EnableUnderWay(u, q)' => EnableUnderWay(u, q)
    BY <1>2 DEF EnableUnderWay
  <1>6. s \in Live => p \in slipped \/ Whole(p)'
    <2>1. \A q \in PluginNames : instances[q].object => instances'[q].object
      BY <1>1
    <2>2. NeedsMet(p) => NeedsMet(p)'
      <3>1. \A i \in DOMAIN Deps[p] : Deps[p][i] \in PluginNames
        BY DepsAssumption
      <3> QED BY <2>1, <3>1 DEF NeedsMet
    <2> QED BY <1>1, <2>2 DEF Whole
  <1>7. s \in Live => p \in slipped \/ o
    OBVIOUS
  <1>8. RegistryInv'
    BY <1>1, <1>3, <1>4, <1>5, <1>6, <1>7, RegistryStep
  <1> QED BY <1>2, <1>3, <1>8

(* A step that leaves the registry alone keeps what it says.               *)
LEMMA RegistryRests ==
    ASSUME PlugTypes, RegistryInv, UNCHANGED <<instances, slipped>>,
           \/ Seized'
           \/ /\ ~Seized
              /\ \A u \in PTasks, q \in PluginNames : EnableUnderWay(u, q)' => EnableUnderWay(u, q) \/ State(q) \in Live
    PROVE  RegistryInv'
  <1>1. \A q \in PluginNames : State(q)' = State(q) /\ (Whole(q)' <=> Whole(q))
    BY DEF State, Whole, NeedsMet
  <1>2. /\ \A q \in PluginNames : State(q)' = "absent" => ~instances'[q].object
        /\ \A q \in PluginNames : State(q)' \in Live /\ q \notin slipped' => instances'[q].object
    BY <1>1 DEF RegistryInv
  <1>3. CASE Seized'
    BY <1>2, <1>3 DEF RegistryInv
  <1>4. CASE ~Seized'
    BY <1>1, <1>2, <1>4 DEF RegistryInv
  <1> QED BY <1>3, <1>4

LEMMA RestEnds ==
    ASSUME PluginsIInv, NEW t \in PTasks, NEW op, NEW place, place \in {"asked", "again", "hook"},
           Holds(t, op, place), Ends(t), UNCHANGED <<instances, slipped>>
    PROVE  PluginsIInv'
  <1> USE DEF PluginsIInv
  <1>2. /\ lockQueue' \in Seq(PTasks) /\ ptask' \in [PTasks -> PTask]
        /\ \A u \in PTasks : ptask'[u].at # "idle" => ptask'[u].on \in PluginNames
        /\ ptask'[t].at = "idle" /\ \A u \in PTasks : u # t => ptask'[u] = ptask[u]
        /\ LockQueueInv'
    BY EndsQueue
  <1>3. PlugTypes'
    BY <1>2 DEF PlugTypes
  <1>4. ~Seized
    BY HolderRuns
  <1>5. \A u \in PTasks, q \in PluginNames : EnableUnderWay(u, q)' => EnableUnderWay(u, q)
    BY <1>2 DEF EnableUnderWay
  <1> QED BY <1>2, <1>3, <1>4, <1>5, RegistryRests

(* A hook suspends the holder, which is enabling or disabling.             *)
LEMMA RestSuspends ==
    ASSUME PluginsIInv, NEW t \in PTasks, NEW op, NEW place,
           (op = "enable" /\ place = "again") \/ (op = "disable" /\ place = "asked"),
           Holds(t, op, place), Suspends(t), UNCHANGED <<instances, slipped>>
    PROVE  PluginsIInv'
  <1> USE DEF PluginsIInv
  <1>1. place \in {"asked", "again"} /\ place \in {"asked", "again", "hook"}
    OBVIOUS
  <1>2. /\ lockQueue' \in Seq(PTasks) /\ ptask' \in [PTasks -> PTask]
        /\ \A u \in PTasks : ptask'[u].at # "idle" => ptask'[u].on \in PluginNames
        /\ ptask'[t].on = ptask[t].on /\ ptask'[t].op = op /\ ptask'[t].at = "hook"
        /\ \A u \in PTasks : u # t => ptask'[u] = ptask[u]
        /\ LockQueueInv'
    BY <1>1, SuspendsQueue
  <1>3. PlugTypes'
    BY <1>2 DEF PlugTypes
  <1>4. ~Seized /\ ptask[t].op = op /\ ptask[t].at = place
    BY <1>1, HolderRuns
  <1>5. \A u \in PTasks, q \in PluginNames : EnableUnderWay(u, q)' => EnableUnderWay(u, q)
    BY <1>2, <1>4 DEF EnableUnderWay
  <1> QED BY <1>2, <1>3, <1>4, <1>5, RegistryRests

(* A task that asks for the lock it holds stops the manager: only the      *)
(* kinds and the queue have to be right.                                   *)
LEMMA AsksAgainQueue ==
    ASSUME PlugTypes, LockQueueInv, NEW t \in PTasks, NEW op, Holds(t, op, "asked"), AsksAgain(t)
    PROVE  /\ lockQueue' \in Seq(PTasks) /\ ptask' \in [PTasks -> PTask]
           /\ \A u \in PTasks : ptask'[u].at # "idle" => ptask'[u].on \in PluginNames
           /\ LockQueueInv' /\ Seized' /\ ~Seized
  <1>1. /\ lockQueue # <<>> /\ lockQueue[1] = t /\ ptask[t].at = "asked" /\ ptask[t].on \in PluginNames /\ ~Seized
    BY HolderRuns
  <1>2. PICK q \in PTask : q = ptask[t]
    BY DEF PlugTypes
  <1>3. PICK w \in PTask : w = [q EXCEPT !.at = "nested"] /\ w.on = q.on /\ w.at = "nested"
    <2>1. [q EXCEPT !.at = "nested"] \in PTask
      BY DEF PTask
    <2>2. [q EXCEPT !.at = "nested"].on = q.on /\ [q EXCEPT !.at = "nested"].at = "nested"
      BY DEF PTask
    <2> QED BY <2>1, <2>2
  <1>4. ptask' = [ptask EXCEPT ![t] = w] /\ w.on \in PluginNames /\ lockQueue' = Append(lockQueue, t)
    BY <1>1, <1>2, <1>3 DEF AsksAgain
  <1>5. /\ lockQueue' \in Seq(PTasks) /\ ptask' \in [PTasks -> PTask]
        /\ \A u \in PTasks : ptask'[u].at # "idle" => ptask'[u].on \in PluginNames
        /\ ptask'[t] = w /\ LockQueueInv'
    BY <1>1, <1>3, <1>4, JoinsQueue
  <1> QED BY <1>1, <1>3, <1>5 DEF Seized

LEMMA WriteAsksAgain ==
    ASSUME PluginsIInv, NEW t \in PTasks, NEW op, Holds(t, op, "asked"), AsksAgain(t), slipped' = slipped,
           NEW p \in PluginNames, NEW o \in BOOLEAN, Put(p, "updating", o)
    PROVE  PluginsIInv'
  <1> USE DEF PluginsIInv
  <1>0. "updating" \in PStates /\ "updating" \notin Live /\ "updating" # "absent"
    BY DEF PStates, Live
  <1>1. /\ instances' \in [PluginNames -> [state : PStates, object : BOOLEAN]]
        /\ instances'[p] = [state |-> "updating", object |-> o]
        /\ \A q \in PluginNames : q # p => instances'[q] = instances[q]
    BY <1>0, InstancesPut
  <1>2. /\ lockQueue' \in Seq(PTasks) /\ ptask' \in [PTasks -> PTask]
        /\ \A u \in PTasks : ptask'[u].at # "idle" => ptask'[u].on \in PluginNames
        /\ LockQueueInv' /\ Seized' /\ ~Seized
    BY AsksAgainQueue
  <1>3. PlugTypes'
    BY <1>1, <1>2 DEF PlugTypes
  <1>4. RegistryInv'
    BY <1>0, <1>1, <1>2, <1>3, RegistryStep
  <1> QED BY <1>2, <1>3, <1>4

LEMMA RestAsksAgain ==
    ASSUME PluginsIInv, NEW t \in PTasks, NEW op, Holds(t, op, "asked"), AsksAgain(t),
           UNCHANGED <<instances, slipped>>
    PROVE  PluginsIInv'
  <1> USE DEF PluginsIInv
  <1>2. /\ lockQueue' \in Seq(PTasks) /\ ptask' \in [PTasks -> PTask]
        /\ \A u \in PTasks : ptask'[u].at # "idle" => ptask'[u].on \in PluginNames
        /\ LockQueueInv' /\ Seized'
    BY AsksAgainQueue
  <1>3. PlugTypes'
    BY <1>2 DEF PlugTypes
  <1> QED BY <1>2, <1>3, RegistryRests

-----------------------------------------------------------------------------
(* One lemma per call of the manager.                                      *)

LEMMA CallManagerInv ==
    ASSUME PluginsIInv, NEW t \in PTasks, CallManager(t) PROVE PluginsIInv'
  <1> USE DEF PluginsIInv
  <1>1. PICK op \in POps, p \in PluginNames :
           /\ ptask' = [ptask EXCEPT ![t] = [op |-> op, on |-> p, at |-> "asked"]]
           /\ lockQueue' = Append(lockQueue, t)
    BY DEF CallManager
  <1>2. PICK w \in PTask : w = [op |-> op, on |-> p, at |-> "asked"] /\ w.on = p /\ w.at = "asked"
    <2>1. [op |-> op, on |-> p, at |-> "asked"] \in PTask
      BY DEF PTask
    <2> QED BY <2>1
  <1>3. ptask[t].at = "idle" /\ ptask[t] = NoTask
    BY DEF CallManager, NoTask
  <1>4. /\ lockQueue' \in Seq(PTasks) /\ ptask' \in [PTasks -> PTask]
        /\ \A u \in PTasks : ptask'[u].at # "idle" => ptask'[u].on \in PluginNames
        /\ ptask'[t] = w /\ \A u \in PTasks : u # t => ptask'[u] = ptask[u]
        /\ LockQueueInv'
    BY <1>1, <1>2, <1>3, JoinsQueue
  <1>5. UNCHANGED <<instances, slipped>>
    BY DEF CallManager
  <1>6. PlugTypes'
    BY <1>4, <1>5 DEF PlugTypes
  <1>7. Seized => Seized'
    BY <1>3, <1>4 DEF Seized
  <1>8. \A u \in PTasks, q \in PluginNames : EnableUnderWay(u, q)' => EnableUnderWay(u, q)
    BY <1>2, <1>4 DEF EnableUnderWay
  <1> QED BY <1>4, <1>5, <1>6, <1>7, <1>8, RegistryRests

LEMMA RegisterInv ==
    ASSUME PluginsIInv, NEW t \in PTasks, Register(t) PROVE PluginsIInv'
  <1>1. /\ Holds(t, "register", "asked") /\ Ends(t) /\ slipped' = slipped
        /\ IF Exists(ptask[t].on) THEN UNCHANGED instances ELSE Put(ptask[t].on, "registered", FALSE)
    BY DEF Register
  <1>2. PlugTypes /\ LockQueueInv /\ RegistryInv
    BY DEF PluginsIInv
  <1>3. PICK p \in PluginNames : p = ptask[t].on
    BY <1>1, <1>2, HolderRuns
  <1>4. CASE Exists(p)
    BY <1>1, <1>3, <1>4, RestEnds
  <1>5. CASE ~Exists(p)
    <2>1. ~instances[p].object
      BY <1>2, <1>5 DEF RegistryInv, Exists
    <2>2. "registered" \in PStates /\ "registered" \notin Live /\ "registered" # "absent"
      BY DEF PStates, Live
    <2> QED BY <1>1, <1>3, <1>5, <2>1, <2>2, WriteEnds
  <1> QED BY <1>4, <1>5

(* load, as load and as the first half of enable: it ends, asks for its    *)
(* own lock, or leaves the plugin live for its caller to go on with.       *)
LEMMA UnmetEmpty ==
    ASSUME PlugTypes, RegistryInv, ~Seized, NEW p \in PluginNames, Unmet(p) = {}
    PROVE  NeedsMet(p)
  <1>1. \A i \in DOMAIN Deps[p] : Deps[p][i] \in PluginNames
    BY DepsAssumption
  <1> QED BY <1>1 DEF RegistryInv, Unmet, NeedsMet

LEMMA LoadingInv ==
    ASSUME PluginsIInv, NEW t \in PTasks, NEW op, Holds(t, op, "asked"), slipped' = slipped,
           NEW ACTION then, Loading(t, then),
           ASSUME then, UNCHANGED instances, State(ptask[t].on) \in Live PROVE PluginsIInv',
           ASSUME then, Put(ptask[t].on, "loaded", TRUE), Unmet(ptask[t].on) = {} PROVE PluginsIInv'
    PROVE  PluginsIInv'
  <1>2. PlugTypes /\ LockQueueInv /\ RegistryInv
    BY DEF PluginsIInv
  <1>3. PICK p \in PluginNames : p = ptask[t].on
    BY <1>2, HolderRuns
  <1>4. PICK o \in BOOLEAN : o = instances[p].object
    BY <1>2, InstanceType
  <1>5. CASE State(p) \in Live /\ UNCHANGED instances /\ then
    BY <1>3, <1>5
  <1>6. CASE UNCHANGED instances /\ Ends(t)
    BY <1>6, RestEnds
  <1>7. CASE SetState(p, "updating") /\ AsksAgain(t)
    BY <1>4, <1>7, WriteAsksAgain DEF SetState
  <1>8. CASE SetState(p, "error") /\ Ends(t)
    <2>1. "error" \in PStates /\ "error" \notin Live /\ "error" # "absent"
      BY DEF PStates, Live
    <2>2. Put(p, "error", o) /\ (instances[p].object => o)
      BY <1>4, <1>8 DEF SetState
    <2> QED BY <1>8, <2>1, <2>2, WriteEnds
  <1>9. CASE Unmet(p) = {} /\ Put(p, "loaded", TRUE) /\ then
    BY <1>3, <1>9
  <1> QED BY <1>3, <1>5, <1>6, <1>7, <1>8, <1>9 DEF Loading

LEMMA LoadInv ==
    ASSUME PluginsIInv, NEW t \in PTasks, Load(t) PROVE PluginsIInv'
  <1>1. Holds(t, "load", "asked") /\ slipped' = slipped /\ Loading(t, Ends(t))
    BY DEF Load
  <1>2. PlugTypes /\ LockQueueInv /\ RegistryInv /\ ~Seized
    BY <1>1, HolderRuns DEF PluginsIInv
  <1>3. PICK p \in PluginNames : p = ptask[t].on
    BY <1>1, <1>2, HolderRuns
  <1>4. CASE Ends(t) /\ UNCHANGED instances
    BY <1>1, <1>4, RestEnds
  <1>5. CASE Ends(t) /\ Put(p, "loaded", TRUE) /\ Unmet(p) = {}
    <2>1. "loaded" \in PStates /\ "loaded" # "absent"
      BY DEF PStates
    <2>2. NeedsMet(p)
      BY <1>2, <1>5, UnmetEmpty
    <2> QED BY <1>1, <1>5, <2>1, <2>2, WriteEnds
  <1> QED BY <1>1, <1>3, <1>4, <1>5, LoadingInv

LEMMA EnableLoadsInv ==
    ASSUME PluginsIInv, NEW t \in PTasks, EnableLoads(t) PROVE PluginsIInv'
  <1> DEFINE again == /\ lockQueue' = Append(Tail(lockQueue), t)
                      /\ ptask' = [ptask EXCEPT ![t].at = "again"]
  <1>1. Holds(t, "enable", "asked") /\ slipped' = slipped /\ Loading(t, again)
    BY DEF EnableLoads
  <1>2. PlugTypes /\ LockQueueInv /\ RegistryInv /\ ~Seized
    BY <1>1, HolderRuns DEF PluginsIInv
  <1>3. PICK p \in PluginNames : p = ptask[t].on
    BY <1>1, <1>2, HolderRuns
  <1>4. ASSUME again
        PROVE  /\ lockQueue' \in Seq(PTasks) /\ ptask' \in [PTasks -> PTask]
               /\ \A u \in PTasks : ptask'[u].at # "idle" => ptask'[u].on \in PluginNames
               /\ ptask'[t].on = p /\ \A u \in PTasks : u # t => ptask'[u] = ptask[u]
               /\ LockQueueInv'
    BY <1>1, <1>2, <1>3, <1>4, AgainQueue
  <1>5. ASSUME again, State(p) \in Live
        PROVE  \A u \in PTasks, q \in PluginNames : EnableUnderWay(u, q)' => EnableUnderWay(u, q) \/ State(q) \in Live
    BY <1>4, <1>5 DEF EnableUnderWay
  <1>6. CASE again /\ UNCHANGED instances /\ State(p) \in Live
    <2>1. PlugTypes'
      BY <1>1, <1>2, <1>4, <1>6 DEF PlugTypes
    <2>2. RegistryInv'
      BY <1>1, <1>2, <1>5, <1>6, RegistryRests
    <2> QED BY <1>4, <1>6, <2>1, <2>2 DEF PluginsIInv
  <1>7. CASE again /\ Put(p, "loaded", TRUE) /\ Unmet(p) = {}
    <2>1. "loaded" \in PStates /\ "loaded" \in Live /\ "loaded" # "absent"
      BY DEF PStates, Live
    <2>2. /\ instances' \in [PluginNames -> [state : PStates, object : BOOLEAN]]
          /\ instances'[p] = [state |-> "loaded", object |-> TRUE]
          /\ \A q \in PluginNames : q # p => instances'[q] = instances[q]
      BY <1>2, <1>7, <2>1, InstancesPut
    <2>3. PlugTypes'
      BY <1>1, <1>2, <1>4, <1>7, <2>2 DEF PlugTypes
    <2>4. Whole(p)'
      <3>1. NeedsMet(p) /\ \A i \in DOMAIN Deps[p] : Deps[p][i] \in PluginNames
        BY <1>2, <1>7, UnmetEmpty, DepsAssumption
      <3>2. \A q \in PluginNames : instances[q].object => instances'[q].object
        BY <2>2
      <3>3. NeedsMet(p)'
        BY <1>1, <3>1, <3>2 DEF NeedsMet
      <3> QED BY <2>2, <3>3 DEF Whole
    <2>5. RegistryInv'
      <3>1. State(p)' \in Live
        BY <2>1, <2>2 DEF State
      <3>2. /\ \A q \in PluginNames : q # p => State(q)' = State(q) /\ instances'[q].object = instances[q].object
            /\ State(p)' = "loaded" /\ instances'[p].object
        BY <2>2 DEF State
      <3>3. ASSUME NEW q \in PluginNames, q # p, State(q)' \in Live \/ \E u \in PTasks : EnableUnderWay(u, q)'
            PROVE  q \in slipped' \/ Whole(q)'
        <4>1. State(q) \in Live \/ \E u \in PTasks : EnableUnderWay(u, q)
          <5>1. \A u \in PTasks : EnableUnderWay(u, q)' => EnableUnderWay(u, q)
            BY <1>4, <1>7, <3>3 DEF EnableUnderWay
          <5> QED BY <3>2, <3>3, <5>1
        <4>2. q \in slipped \/ Whole(q)
          BY <1>2, <4>1 DEF RegistryInv
        <4>3. \A r \in PluginNames : instances[r].object => instances'[r].object
          BY <2>2
        <4>4. \A i \in DOMAIN Deps[q] : Deps[q][i] \in PluginNames
          BY DepsAssumption
        <4> QED BY <1>1, <4>2, <4>3, <4>4 DEF Whole, NeedsMet
      <3>4. \A q \in PluginNames : State(q)' = "absent" => ~instances'[q].object
        BY <1>2, <2>1, <3>2 DEF RegistryInv
      <3>5. \A q \in PluginNames : State(q)' \in Live /\ q \notin slipped' => instances'[q].object
        BY <1>1, <1>2, <3>2 DEF RegistryInv
      <3> QED BY <2>4, <3>3, <3>4, <3>5 DEF RegistryInv
    <2> QED BY <1>4, <1>7, <2>3, <2>5 DEF PluginsIInv
  <1> HIDE DEF again
  <1> QED BY <1>1, <1>3, <1>6, <1>7, LoadingInv

LEMMA EnableStartsInv ==
    ASSUME PluginsIInv, NEW t \in PTasks, EnableStarts(t) PROVE PluginsIInv'
  <1>1. Holds(t, "enable", "again") /\ slipped' = slipped
    BY DEF EnableStarts
  <1>2. PlugTypes /\ LockQueueInv /\ RegistryInv /\ ~Seized
    BY <1>1, HolderRuns DEF PluginsIInv
  <1>3. PICK p \in PluginNames : p = ptask[t].on
    BY <1>1, <1>2, HolderRuns
  <1>4. PICK o \in BOOLEAN : o = instances[p].object
    BY <1>2, InstanceType
  <1>5. p \in slipped \/ (o /\ NeedsMet(p))
    BY <1>1, <1>2, <1>3, <1>4 DEF RegistryInv, EnableUnderWay, Holds, Whole
  <1>6. CASE UNCHANGED instances /\ Ends(t)
    BY <1>1, <1>6, RestEnds
  <1>7. ASSUME NEW s \in {"enabled", "error"}, SetState(p, s), Ends(t) PROVE PluginsIInv'
    <2>1. s \in PStates /\ s # "absent"
      BY DEF PStates
    <2>2. Put(p, s, o) /\ (instances[p].object => o)
      BY <1>4, <1>7 DEF SetState
    <2> QED BY <1>1, <1>5, <1>7, <2>1, <2>2, WriteEnds
  <1>8. CASE UNCHANGED instances /\ Suspends(t)
    BY <1>1, <1>8, RestSuspends
  <1> QED BY <1>3, <1>6, <1>7, <1>8 DEF EnableStarts

LEMMA HookEndsInv ==
    ASSUME PluginsIInv, NEW t \in PTasks, HookEnds(t) PROVE PluginsIInv'
  <1>1. PICK op \in {"enable", "disable"} :
           /\ Holds(t, op, "hook") /\ Ends(t) /\ slipped' = slipped
           /\ \/ SetState(ptask[t].on, IF op = "enable" THEN "enabled" ELSE "disabled")
              \/ SetState(ptask[t].on, "error")
    BY DEF HookEnds
  <1>2. PlugTypes /\ LockQueueInv /\ RegistryInv /\ ~Seized
    BY <1>1, HolderRuns DEF PluginsIInv
  <1>3. PICK p \in PluginNames : p = ptask[t].on
    BY <1>1, <1>2, HolderRuns
  <1>4. PICK o \in BOOLEAN : o = instances[p].object
    BY <1>2, InstanceType
  <1>5. op = "enable" => p \in slipped \/ (o /\ NeedsMet(p))
    BY <1>1, <1>2, <1>3, <1>4 DEF RegistryInv, EnableUnderWay, Holds, Whole
  <1>6. PICK s \in {"enabled", "disabled", "error"} : SetState(p, s) /\ (s = "enabled" => op = "enable")
    BY <1>1, <1>3
  <1>7. s \in PStates /\ s # "absent" /\ (s \in Live => s = "enabled")
    BY DEF PStates, Live
  <1>8. Put(p, s, o) /\ (instances[p].object => o)
    BY <1>4, <1>6 DEF SetState
  <1> QED BY <1>1, <1>5, <1>6, <1>7, <1>8, WriteEnds

LEMMA DisableInv ==
    ASSUME PluginsIInv, NEW t \in PTasks, Disable(t) PROVE PluginsIInv'
  <1>1. Holds(t, "disable", "asked") /\ slipped' = slipped
    BY DEF Disable
  <1>2. PlugTypes /\ LockQueueInv /\ RegistryInv /\ ~Seized
    BY <1>1, HolderRuns DEF PluginsIInv
  <1>3. PICK p \in PluginNames : p = ptask[t].on
    BY <1>1, <1>2, HolderRuns
  <1>4. PICK o \in BOOLEAN : o = instances[p].object
    BY <1>2, InstanceType
  <1>6. CASE UNCHANGED instances /\ Ends(t)
    BY <1>1, <1>6, RestEnds
  <1>7. ASSUME NEW s \in {"disabled", "error"}, SetState(p, s), Ends(t) PROVE PluginsIInv'
    <2>1. s \in PStates /\ s # "absent" /\ s \notin Live
      BY DEF PStates, Live
    <2>2. Put(p, s, o) /\ (instances[p].object => o)
      BY <1>4, <1>7 DEF SetState
    <2> QED BY <1>1, <1>7, <2>1, <2>2, WriteEnds
  <1>8. CASE UNCHANGED instances /\ Suspends(t)
    BY <1>1, <1>8, RestSuspends
  <1> QED BY <1>3, <1>6, <1>7, <1>8 DEF Disable

LEMMA UpdateInv ==
    ASSUME PluginsIInv, NEW t \in PTasks, Update(t) PROVE PluginsIInv'
  <1>1. Holds(t, "update", "asked") /\ slipped' = slipped
    BY DEF Update
  <1>2. PlugTypes /\ LockQueueInv
    BY DEF PluginsIInv
  <1>3. PICK p \in PluginNames : p = ptask[t].on
    BY <1>1, <1>2, HolderRuns
  <1>4. CASE UNCHANGED instances /\ Ends(t)
    BY <1>1, <1>4, RestEnds
  <1>5. CASE UNCHANGED instances /\ AsksAgain(t)
    BY <1>1, <1>5, RestAsksAgain
  <1>6. CASE Put(p, "updating", FALSE) /\ AsksAgain(t)
    BY <1>1, <1>6, WriteAsksAgain
  <1> QED BY <1>3, <1>4, <1>5, <1>6 DEF Update

LEMMA UnloadInv ==
    ASSUME PluginsIInv, NEW t \in PTasks, Unload(t) PROVE PluginsIInv'
  <1>1. Holds(t, "unload", "asked")
    BY DEF Unload
  <1>2. PlugTypes /\ LockQueueInv /\ RegistryInv /\ ~Seized
    BY <1>1, HolderRuns DEF PluginsIInv
  <1>3. PICK p \in PluginNames : p = ptask[t].on
    BY <1>1, <1>2, HolderRuns
  <1>4. CASE UNCHANGED <<instances, slipped>> /\ Ends(t)
    BY <1>1, <1>4, RestEnds
  <1>5. CASE UNCHANGED <<instances, slipped>> /\ AsksAgain(t)
    BY <1>1, <1>5, RestAsksAgain
  <1>6. CASE /\ Dependents(p) = {} /\ Put(p, "unloaded", FALSE) /\ Ends(t)
             /\ slipped' = slipped \cup {q \in PluginNames : /\ q = p \/ DependsOn(q, p)
                                                             /\ \E u \in PTasks : Enabling(u, q)}
    <2>1. "unloaded" \in PStates /\ "unloaded" \notin Live /\ "unloaded" # "absent"
      BY DEF PStates, Live
    <2>2. /\ instances' \in [PluginNames -> [state : PStates, object : BOOLEAN]]
          /\ instances'[p] = [state |-> "unloaded", object |-> FALSE]
          /\ \A q \in PluginNames : q # p => instances'[q] = instances[q]
      BY <1>2, <1>6, <2>1, InstancesPut
    <2>3. /\ lockQueue' \in Seq(PTasks) /\ ptask' \in [PTasks -> PTask]
          /\ \A u \in PTasks : ptask'[u].at # "idle" => ptask'[u].on \in PluginNames
          /\ ptask'[t].at = "idle" /\ \A u \in PTasks : u # t => ptask'[u] = ptask[u]
          /\ LockQueueInv'
      BY <1>1, <1>2, <1>6, EndsQueue
    <2>4. PlugTypes' /\ slipped \subseteq slipped'
      BY <1>2, <1>6, <2>2, <2>3 DEF PlugTypes
    <2>5. /\ State(p)' = "unloaded"
          /\ \A q \in PluginNames : q # p => State(q)' = State(q) /\ instances'[q].object = instances[q].object
      BY <2>2 DEF State
    <2>6. ASSUME NEW q \in PluginNames, q # p, ~DependsOn(q, p), Whole(q) PROVE Whole(q)'
      <3>1. \A i \in DOMAIN Deps[q] : Deps[q][i] \in PluginNames /\ Deps[q][i] # p
        BY <2>6, DepsAssumption DEF DependsOn
      <3> QED BY <2>4, <2>5, <2>6, <3>1 DEF Whole, NeedsMet
    <2>7. ASSUME NEW q \in PluginNames, State(q)' \in Live \/ \E u \in PTasks : EnableUnderWay(u, q)'
          PROVE  q \in slipped' \/ Whole(q)'
      <3>1. CASE State(q)' \in Live
        <4>1. q # p /\ State(q) \in Live
          BY <2>1, <2>5, <3>1
        <4>2. ~DependsOn(q, p)
          BY <1>6, <4>1 DEF Dependents
        <4> QED BY <1>2, <2>4, <2>6, <4>1, <4>2 DEF RegistryInv
      <3>2. CASE \E u \in PTasks : EnableUnderWay(u, q)'
        <4>1. PICK u \in PTasks : EnableUnderWay(u, q)'
          BY <3>2
        <4>2. EnableUnderWay(u, q) /\ ptask[u].at # "hook"
          <5>1. ptask[t].at = "asked" /\ \A v \in PTasks : ptask[v].at \in {"nested", "hook"} => v = t
            BY <1>1, <1>2, HolderRuns
          <5> QED BY <2>3, <4>1, <5>1 DEF EnableUnderWay
        <4>3. Enabling(u, q)
          BY <4>2 DEF EnableUnderWay, Enabling
        <4>4. CASE q = p \/ DependsOn(q, p)
          BY <1>6, <4>3, <4>4
        <4>5. CASE ~(q = p \/ DependsOn(q, p))
          BY <1>2, <2>4, <2>6, <4>2, <4>5 DEF RegistryInv
        <4> QED BY <4>4, <4>5
      <3> QED BY <2>7, <3>1, <3>2
    <2>8. RegistryInv'
      <3>1. \A q \in PluginNames : State(q)' = "absent" => ~instances'[q].object
        BY <1>2, <2>1, <2>5 DEF RegistryInv
      <3>2. \A q \in PluginNames : State(q)' \in Live /\ q \notin slipped' => instances'[q].object
        BY <1>2, <2>1, <2>4, <2>5 DEF RegistryInv
      <3> QED BY <2>7, <3>1, <3>2 DEF RegistryInv
    <2> QED BY <2>3, <2>4, <2>8 DEF PluginsIInv
  <1> QED BY <1>3, <1>4, <1>5, <1>6 DEF Unload

LEMMA ManagerInv ==
    ASSUME PluginsIInv, ManagerNext \/ UNCHANGED <<instances, lockQueue, ptask, slipped>> PROVE PluginsIInv'
  <1>1. CASE ManagerNext
    BY <1>1, CallManagerInv, RegisterInv, LoadInv, EnableLoadsInv, EnableStartsInv, HookEndsInv, DisableInv,
       UnloadInv, UpdateInv DEF ManagerNext
  <1>2. CASE UNCHANGED <<instances, lockQueue, ptask, slipped>>
    BY <1>2 DEF PluginsIInv, PlugTypes, LockQueueInv, RegistryInv, State, Whole, NeedsMet, Seized, EnableUnderWay
  <1> QED BY <1>1, <1>2

(* A trace grows at its end, by a step that points at its last.            *)
LEMMA TracesInv ==
    ASSUME ChainsInv, NEW i \in TraceIds, StartTrace(i) \/ AddStep(i) \/ FinishTrace(i)
    PROVE  ChainsInv'
  <1> DEFINE Chains == {s \in Seq(Nat) : \A k \in DOMAIN s : s[k] = k - 1}
             Trace == [state : {"new", "active", "completed"}, parents : Chains]
  <1>1. traces \in [TraceIds -> Trace]
    BY DEF ChainsInv
  <1>2. PICK x \in Trace : x = traces[i]
    BY <1>1
  <1>3. x.parents \in Chains
    BY <1>2
  <1>4. Append(x.parents, Len(x.parents)) \in Chains
    <2>1. x.parents \in Seq(Nat) /\ Len(x.parents) \in Nat
      BY <1>3
    <2>2. Append(x.parents, Len(x.parents)) \in Seq(Nat)
      BY <2>1
    <2>3. ASSUME NEW k \in DOMAIN Append(x.parents, Len(x.parents))
          PROVE  Append(x.parents, Len(x.parents))[k] = k - 1
      <3>1. k \in 1..(Len(x.parents) + 1)
        BY <2>1
      <3>2. CASE k = Len(x.parents) + 1
        BY <2>1, <3>2
      <3>3. CASE k \in 1..Len(x.parents)
        <4>1. Append(x.parents, Len(x.parents))[k] = x.parents[k]
          BY <2>1, <3>3
        <4> QED BY <1>3, <2>1, <3>3, <4>1
      <3> QED BY <2>1, <3>1, <3>2, <3>3
    <2> QED BY <2>2, <2>3
  <1>5. PICK y \in Trace : traces' = [traces EXCEPT ![i] = y]
    <2> HIDE DEF Chains
    <2>1. /\ [x EXCEPT !.state = "active"] \in Trace /\ [x EXCEPT !.state = "completed"] \in Trace
          /\ [x EXCEPT !.parents = Append(x.parents, Len(x.parents))] \in Trace
      BY <1>2, <1>4
    <2> QED BY <1>1, <1>2, <2>1 DEF StartTrace, AddStep, FinishTrace
  <1>6. traces' \in [TraceIds -> Trace]
    BY <1>1, <1>5
  <1> QED BY <1>6 DEF ChainsInv

LEMMA PluginsAreSafe == PluginsIInv /\ ChainsInv => PluginsInv
  <1> SUFFICES ASSUME PluginsIInv, ChainsInv PROVE PluginsInv
    OBVIOUS
  <1> USE DEF PluginsIInv
  <1>1. LiveIsWhole
    BY DEF RegistryInv, LiveIsWhole, Whole, NeedsMet
  <1>2. LockIsPassedOn
    <2>1. lockQueue # <<>> => 1 \in DOMAIN lockQueue /\ Head(lockQueue) = lockQueue[1]
      BY DEF PlugTypes
    <2> QED BY <2>1 DEF LockQueueInv, LockIsPassedOn
  <1>3. TracesAreChains
    <2>1. ASSUME NEW i \in TraceIds PROVE \A k \in DOMAIN traces[i].parents : traces[i].parents[k] = k - 1
      BY DEF ChainsInv
    <2> QED BY <2>1 DEF TracesAreChains, ListTraces
  <1> QED BY <1>1, <1>2, <1>3 DEF PluginsInv

-----------------------------------------------------------------------------
(* The log of the Jev advisor.  Files are numbered from the live one (0)   *)
(* to the oldest backup; a line has its number and the observation's.      *)

LogLine == [n : Nat, id : Nat]

HasId(files, id) == \E i \in 0..LogBackups : \E k \in DOMAIN files[i] : files[i][k].id = id
HasLine(files, n) == \E i \in 0..LogBackups : \E k \in DOMAIN files[i] : files[i][k].n = n

\* After w lines, of which those in gone were rotated away: the lines are in
\* the order of their numbers, from the oldest backup to the live file, no
\* observation has two, and all lines that are gone are older than those that
\* are left.
LogOK(files, w, gone) ==
    /\ files \in [0..LogBackups -> Seq(LogLine)] /\ w \in Nat
    /\ \A i, j \in 0..LogBackups : \A k \in DOMAIN files[i], l \in DOMAIN files[j] :
          i > j \/ (i = j /\ k < l) => files[i][k].n < files[j][l].n
    /\ \A i, j \in 0..LogBackups : \A k \in DOMAIN files[i], l \in DOMAIN files[j] :
          files[i][k].id = files[j][l].id => i = j /\ k = l
    /\ \A i \in 0..LogBackups : \A k \in DOMAIN files[i] : files[i][k].n \in 1..w
    /\ \A d \in gone : d \in 1..w /\ \A i \in 0..LogBackups : \A k \in DOMAIN files[i] : d < files[i][k].n
    /\ \A n \in 1..w : n \in gone \/ HasLine(files, n)

LEMMA InLogsIs ==
    ASSUME NEW files, NEW n
    PROVE  n \in InLogs(files) <=> HasLine(files, n)
  BY DEF InLogs, HasLine

(* A rotation that stops after some renames: the oldest files have moved   *)
(* on by one, the others have not moved.                                   *)
LEMMA RotatedIs ==
    ASSUME NEW files \in [0..LogBackups -> Seq(LogLine)], NEW steps \in 0..LogBackups
    PROVE  /\ LogRotated(files, steps) \in [0..LogBackups -> Seq(LogLine)]
           /\ \A i \in 0..LogBackups :
                 /\ i > LogBackups - steps => LogRotated(files, steps)[i] = files[i - 1]
                 /\ i = LogBackups - steps => LogRotated(files, steps)[i] = <<>>
                 /\ i < LogBackups - steps => LogRotated(files, steps)[i] = files[i]
  <1> DEFINE R == LogRotated(files, steps)
  <1>1. LogBackups \in Nat \ {0}
    BY JevAssumption
  <1>2. DOMAIN R = 0..LogBackups
    BY DEF LogRotated
  <1>3. ASSUME NEW i \in 0..LogBackups
        PROVE  /\ i > LogBackups - steps => R[i] = files[i - 1]
               /\ i = LogBackups - steps => R[i] = <<>>
               /\ i < LogBackups - steps => R[i] = files[i]
    <2>1. R[i] = IF i > 0 /\ LogBackups - i + 1 <= steps /\ (i = 1 \/ files[i - 1] # <<>>) THEN files[i - 1]
                 ELSE IF i = LogBackups \/ LogBackups - i <= steps THEN <<>>
                 ELSE files[i]
      BY DEF LogRotated
    <2>2. CASE i > LogBackups - steps
      <3>1. i > 0 /\ LogBackups - i + 1 <= steps /\ LogBackups - i <= steps
        BY <1>1, <2>2
      <3>2. R[i] = files[i - 1]
        <4>1. CASE i = 1 \/ files[i - 1] # <<>>
          BY <2>1, <3>1, <4>1
        <4>2. CASE ~(i = 1 \/ files[i - 1] # <<>>)
          BY <2>1, <3>1, <4>2
        <4> QED BY <4>1, <4>2
      <3> QED BY <1>1, <2>2, <3>2
    <2>3. CASE i = LogBackups - steps
      <3>1. ~(LogBackups - i + 1 <= steps) /\ LogBackups - i <= steps
        BY <1>1, <2>3
      <3> QED BY <1>1, <2>1, <2>3, <3>1
    <2>4. CASE i < LogBackups - steps
      <3>1. ~(LogBackups - i + 1 <= steps) /\ ~(LogBackups - i <= steps) /\ i # LogBackups
        BY <1>1, <2>4
      <3> QED BY <1>1, <2>1, <2>4, <3>1
    <2> QED BY <1>1, <2>2, <2>3, <2>4
  <1>4. ASSUME NEW i \in 0..LogBackups PROVE R[i] \in Seq(LogLine)
    <2>1. i > LogBackups - steps => i - 1 \in 0..LogBackups
      BY <1>1
    <2>2. i > LogBackups - steps \/ i = LogBackups - steps \/ i < LogBackups - steps
      BY <1>1
    <2>3. <<>> \in Seq(LogLine)
      OBVIOUS
    <2> HIDE DEF R
    <2> QED BY <1>3, <2>1, <2>2, <2>3
  <1>5. R \in [0..LogBackups -> Seq(LogLine)]
    <2>1. R = [i \in 0..LogBackups |-> R[i]]
      BY DEF LogRotated
    <2> HIDE DEF R
    <2> QED BY <1>4, <2>1
  <1> QED BY <1>3, <1>5

(* Every line of the rotated files is a line of the files, one number      *)
(* lower where it moved; only lines of the oldest backup are missing.      *)
MovedOn(files, steps, R) ==
    /\ \A i \in 0..LogBackups : \A k \in DOMAIN R[i] :
          \E j \in 0..LogBackups :
             /\ j = IF i > LogBackups - steps THEN i - 1 ELSE i
             /\ i # LogBackups - steps /\ j < LogBackups
             /\ k \in DOMAIN files[j] /\ R[i] = files[j]
    /\ \A j \in 0..LogBackups : j # LogBackups => \E i \in 0..LogBackups : R[i] = files[j]

LEMMA RotatedFrom ==
    ASSUME NEW files \in [0..LogBackups -> Seq(LogLine)], NEW steps \in 0..LogBackups,
           NEW R, R = LogRotated(files, steps)
    PROVE  MovedOn(files, steps, R)
  <1>1. LogBackups \in Nat \ {0}
    BY JevAssumption
  <1>2. \A i \in 0..LogBackups :
           /\ i > LogBackups - steps => R[i] = files[i - 1]
           /\ i = LogBackups - steps => R[i] = <<>>
           /\ i < LogBackups - steps => R[i] = files[i]
    BY RotatedIs
  <1>3. ASSUME NEW i \in 0..LogBackups, NEW k \in DOMAIN R[i]
        PROVE  \E j \in 0..LogBackups :
                  /\ j = IF i > LogBackups - steps THEN i - 1 ELSE i
                  /\ i # LogBackups - steps /\ j < LogBackups
                  /\ k \in DOMAIN files[j] /\ R[i] = files[j]
    <2>1. i # LogBackups - steps
      <3>1. DOMAIN <<>> = {}
        OBVIOUS
      <3> QED BY <1>2, <1>3, <3>1
    <2>2. CASE i > LogBackups - steps
      <3>1. i - 1 \in 0..LogBackups /\ i - 1 < LogBackups
        BY <1>1, <2>2
      <3> QED BY <1>2, <2>1, <2>2, <3>1
    <2>3. CASE i < LogBackups - steps
      <3>1. i < LogBackups /\ ~(i > LogBackups - steps)
        BY <1>1, <2>3
      <3> QED BY <1>2, <2>1, <2>3, <3>1
    <2> QED BY <1>1, <2>1, <2>2, <2>3
  <1>4. ASSUME NEW j \in 0..LogBackups, j # LogBackups PROVE \E i \in 0..LogBackups : R[i] = files[j]
    <2>1. CASE j < LogBackups - steps
      BY <1>2, <2>1
    <2>2. CASE ~(j < LogBackups - steps)
      <3>1. j + 1 \in 0..LogBackups /\ j + 1 > LogBackups - steps /\ (j + 1) - 1 = j
        BY <1>1, <1>4, <2>2
      <3> QED BY <1>2, <3>1
    <2> QED BY <2>1, <2>2
  <1> QED BY <1>3, <1>4 DEF MovedOn

LEMMA LogParts ==
    ASSUME NEW F \in [0..LogBackups -> Seq(LogLine)], NEW w \in Nat, NEW gone,
           ASSUME NEW i \in 0..LogBackups, NEW j \in 0..LogBackups, NEW k \in DOMAIN F[i], NEW l \in DOMAIN F[j]
           PROVE  /\ i > j \/ (i = j /\ k < l) => F[i][k].n < F[j][l].n
                  /\ F[i][k].id = F[j][l].id => i = j /\ k = l,
           ASSUME NEW i \in 0..LogBackups, NEW k \in DOMAIN F[i] PROVE F[i][k].n \in 1..w,
           ASSUME NEW d \in gone
           PROVE  d \in 1..w /\ \A i \in 0..LogBackups : \A k \in DOMAIN F[i] : d < F[i][k].n,
           ASSUME NEW n \in 1..w PROVE n \in gone \/ HasLine(F, n)
    PROVE  LogOK(F, w, gone)
  BY DEF LogOK

LEMMA RotatedLogOK ==
    ASSUME NEW files, NEW w, NEW gone, LogOK(files, w, gone), NEW steps \in 0..LogBackups,
           NEW R, R = LogRotated(files, steps)
    PROVE  /\ LogOK(R, w, gone \cup (InLogs(files) \ InLogs(R)))
           /\ \A id : HasId(R, id) => HasId(files, id)
  <1> DEFINE dropped == gone \cup (InLogs(files) \ InLogs(R))
  <1>1. files \in [0..LogBackups -> Seq(LogLine)] /\ w \in Nat /\ LogBackups \in Nat \ {0}
    BY JevAssumption DEF LogOK
  <1>2. R \in [0..LogBackups -> Seq(LogLine)]
    BY <1>1, RotatedIs
  <1>3. /\ \A i \in 0..LogBackups : \A k \in DOMAIN R[i] :
              \E j \in 0..LogBackups :
                 /\ j = IF i > LogBackups - steps THEN i - 1 ELSE i
                 /\ i # LogBackups - steps /\ j < LogBackups
                 /\ k \in DOMAIN files[j] /\ R[i] = files[j]
        /\ \A j \in 0..LogBackups : j # LogBackups => \E i \in 0..LogBackups : R[i] = files[j]
    <2>1. files \in [0..LogBackups -> Seq(LogLine)]
      BY <1>1
    <2>2. MovedOn(files, steps, R)
      BY <2>1, RotatedFrom
    <2> QED BY <2>2 DEF MovedOn
  <1>5. ASSUME NEW i \in 0..LogBackups, NEW j \in 0..LogBackups, NEW k \in DOMAIN R[i], NEW l \in DOMAIN R[j]
        PROVE  /\ i > j \/ (i = j /\ k < l) => R[i][k].n < R[j][l].n
               /\ R[i][k].id = R[j][l].id => i = j /\ k = l
    <2>1. PICK a \in 0..LogBackups :
              /\ a = IF i > LogBackups - steps THEN i - 1 ELSE i
              /\ i # LogBackups - steps /\ k \in DOMAIN files[a] /\ R[i] = files[a]
      BY <1>3
    <2>2. PICK b \in 0..LogBackups :
              /\ b = IF j > LogBackups - steps THEN j - 1 ELSE j
              /\ j # LogBackups - steps /\ l \in DOMAIN files[b] /\ R[j] = files[b]
      BY <1>3
    <2>3. (i > j => a > b) /\ (a = b => i = j) /\ (i = j => a = b)
      BY <1>1, <2>1, <2>2
    <2>4. a > b \/ (a = b /\ k < l) => files[a][k].n < files[b][l].n
      BY <2>1, <2>2 DEF LogOK
    <2>5. files[a][k].id = files[b][l].id => a = b /\ k = l
      BY <2>1, <2>2 DEF LogOK
    <2> QED BY <2>1, <2>2, <2>3, <2>4, <2>5
  <1>6. ASSUME NEW i \in 0..LogBackups, NEW k \in DOMAIN R[i] PROVE R[i][k].n \in 1..w
    <2>1. PICK a \in 0..LogBackups : k \in DOMAIN files[a] /\ R[i] = files[a]
      BY <1>3
    <2> QED BY <2>1 DEF LogOK
  <1>7. ASSUME NEW d \in dropped PROVE d \in 1..w /\ \A i \in 0..LogBackups : \A k \in DOMAIN R[i] : d < R[i][k].n
    <2>1. CASE d \in gone
      <3>1. d \in 1..w
        BY <2>1 DEF LogOK
      <3>2. ASSUME NEW i \in 0..LogBackups, NEW k \in DOMAIN R[i] PROVE d < R[i][k].n
        <4>1. PICK a \in 0..LogBackups : k \in DOMAIN files[a] /\ R[i] = files[a]
          BY <1>3
        <4> QED BY <2>1, <4>1 DEF LogOK
      <3> QED BY <3>1, <3>2
    <2>2. CASE d \in InLogs(files) \ InLogs(R)
      <3>1. HasLine(files, d) /\ ~HasLine(R, d)
        BY <2>2, InLogsIs
      <3>2. PICK b \in 0..LogBackups : \E l \in DOMAIN files[b] : files[b][l].n = d
        BY <3>1 DEF HasLine
      <3>3. PICK l \in DOMAIN files[b] : files[b][l].n = d
        BY <3>2
      <3>4. b = LogBackups
        BY <1>3, <3>1, <3>3 DEF HasLine
      <3>5. ASSUME NEW i \in 0..LogBackups, NEW k \in DOMAIN R[i] PROVE d < R[i][k].n
        <4>1. PICK a \in 0..LogBackups : k \in DOMAIN files[a] /\ R[i] = files[a] /\ a < LogBackups
          BY <1>3
        <4>2. b > a
          BY <3>4, <4>1
        <4>3. files[b][l].n < files[a][k].n
          BY <3>3, <4>1, <4>2 DEF LogOK
        <4> QED BY <3>3, <4>1, <4>3
      <3>6. d \in 1..w
        BY <3>3 DEF LogOK
      <3> QED BY <3>5, <3>6
    <2> QED BY <2>1, <2>2
  <1>8. ASSUME NEW n \in 1..w PROVE n \in dropped \/ HasLine(R, n)
    <2>1. n \in gone \/ HasLine(files, n)
      BY DEF LogOK
    <2> QED BY <2>1, InLogsIs
  <1>9. ASSUME NEW id, HasId(R, id) PROVE HasId(files, id)
    BY <1>3, <1>9 DEF HasId
  <1>10. LogOK(R, w, dropped)
    <2> HIDE DEF dropped
    <2> QED BY <1>1, <1>2, <1>5, <1>6, <1>7, <1>8 DEF LogOK
  <1> QED BY <1>9, <1>10

WithLine(files, w, id) == [files EXCEPT ![0] = Append(@, [n |-> w + 1, id |-> id])]

LEMMA AppendedLogOK ==
    ASSUME NEW files, NEW w, NEW gone, LogOK(files, w, gone), NEW id \in Nat, ~HasId(files, id),
           NEW F, F = WithLine(files, w, id)
    PROVE  /\ LogOK(F, w + 1, gone)
           /\ \A x : HasId(F, x) => HasId(files, x) \/ x = id
  <1> DEFINE line == [n |-> w + 1, id |-> id]
  <1>1. files \in [0..LogBackups -> Seq(LogLine)] /\ w \in Nat /\ 0 \in 0..LogBackups
    BY JevAssumption DEF LogOK
  <1>2. line \in LogLine /\ line.n = w + 1 /\ line.id = id
    BY <1>1 DEF LogLine
  <1>3. PICK m \in Nat : m = Len(files[0])
    BY <1>1
  <1> HIDE DEF line
  <1>4. /\ F \in [0..LogBackups -> Seq(LogLine)]
        /\ \A i \in 0..LogBackups : i # 0 => F[i] = files[i]
        /\ F[0] = Append(files[0], line)
    <2>1. F = [files EXCEPT ![0] = Append(files[0], line)] /\ Append(files[0], line) \in Seq(LogLine)
      BY <1>1, <1>2 DEF line, WithLine
    <2> QED BY <1>1, <2>1
  <1>5. /\ DOMAIN files[0] = 1..m /\ DOMAIN F[0] = 1..(m + 1)
        /\ \A k \in 1..m : F[0][k] = files[0][k]
        /\ F[0][m + 1] = line
    BY <1>1, <1>2, <1>3, <1>4
  <1>6. ASSUME NEW i \in 0..LogBackups, NEW k \in DOMAIN F[i]
        PROVE  \/ i = 0 /\ k = m + 1 /\ F[i][k] = line
               \/ /\ k \in DOMAIN files[i] /\ F[i][k] = files[i][k] /\ F[i][k].n \in 1..w /\ F[i][k].id # id
                  /\ i = 0 => k # m + 1
    <2>1. CASE i = 0 /\ k = m + 1
      BY <1>5, <2>1
    <2>2. CASE ~(i = 0 /\ k = m + 1)
      <3>1. k \in DOMAIN files[i] /\ F[i][k] = files[i][k]
        <4>1. CASE i = 0
          BY <1>3, <1>5, <2>2, <4>1
        <4>2. CASE i # 0
          BY <1>4, <4>2
        <4> QED BY <4>1, <4>2
      <3>2. files[i][k].n \in 1..w
        BY <3>1 DEF LogOK
      <3>3. files[i][k].id # id
        BY <3>1 DEF HasId
      <3> QED BY <2>2, <3>1, <3>2, <3>3
    <2> QED BY <2>1, <2>2
  <1>7. ASSUME NEW i \in 0..LogBackups, NEW j \in 0..LogBackups, NEW k \in DOMAIN F[i], NEW l \in DOMAIN F[j]
        PROVE  /\ i > j \/ (i = j /\ k < l) => F[i][k].n < F[j][l].n
               /\ F[i][k].id = F[j][l].id => i = j /\ k = l
    <2>1. CASE /\ k \in DOMAIN files[i] /\ F[i][k] = files[i][k]
               /\ l \in DOMAIN files[j] /\ F[j][l] = files[j][l]
      BY <2>1 DEF LogOK
    <2>2. CASE /\ k \in DOMAIN files[i] /\ F[i][k].n \in 1..w /\ F[i][k].id # id
               /\ j = 0 /\ l = m + 1 /\ F[j][l] = line
      BY <1>1, <1>2, <2>2
    <2>3. CASE i = 0 /\ k = m + 1 /\ F[i][k] = line /\ ~(j = 0 /\ l = m + 1)
      <3>2. ~(i > j) /\ (i = j => l \in 1..m)
        BY <1>1, <1>3, <1>5, <1>6, <2>3
      <3>3. ~(i = j /\ k < l)
        BY <1>3, <2>3, <3>2
      <3>4. F[j][l].id # id
        BY <1>6, <2>3
      <3> QED BY <1>2, <2>3, <3>2, <3>3, <3>4
    <2>4. CASE i = 0 /\ k = m + 1 /\ j = 0 /\ l = m + 1
      BY <1>3, <2>4
    <2> QED BY <1>6, <2>1, <2>2, <2>3, <2>4
  <1>8. ASSUME NEW i \in 0..LogBackups, NEW k \in DOMAIN F[i] PROVE F[i][k].n \in 1..(w + 1)
    BY <1>1, <1>2, <1>6
  <1>9. ASSUME NEW d \in gone PROVE d \in 1..(w + 1) /\ \A i \in 0..LogBackups : \A k \in DOMAIN F[i] : d < F[i][k].n
    <2>1. d \in 1..w /\ \A i \in 0..LogBackups : \A k \in DOMAIN files[i] : d < files[i][k].n
      BY DEF LogOK
    <2>2. ASSUME NEW i \in 0..LogBackups, NEW k \in DOMAIN F[i] PROVE d < F[i][k].n
      BY <1>1, <1>2, <1>6, <2>1
    <2> QED BY <1>1, <2>1, <2>2
  <1>10. ASSUME NEW n \in 1..(w + 1) PROVE n \in gone \/ HasLine(F, n)
    <2>1. CASE n = w + 1
      <3>1. m + 1 \in DOMAIN F[0] /\ F[0][m + 1].n = n
        BY <1>2, <1>3, <1>5, <2>1
      <3> QED BY <1>1, <3>1 DEF HasLine
    <2>2. CASE n \in 1..w
      <3>1. CASE n \in gone
        BY <3>1
      <3>2. CASE HasLine(files, n)
        <4>1. PICK i \in 0..LogBackups : \E k \in DOMAIN files[i] : files[i][k].n = n
          BY <3>2 DEF HasLine
        <4>2. PICK k \in DOMAIN files[i] : files[i][k].n = n
          BY <4>1
        <4>3. k \in DOMAIN F[i] /\ F[i][k] = files[i][k]
          <5>1. CASE i = 0
            BY <1>3, <1>5, <5>1
          <5>2. CASE i # 0
            BY <1>4, <5>2
          <5> QED BY <5>1, <5>2
        <4> QED BY <4>2, <4>3 DEF HasLine
      <3> QED BY <2>2, <3>1, <3>2 DEF LogOK
    <2> QED BY <1>1, <2>1, <2>2
  <1>11. ASSUME NEW x, HasId(F, x) PROVE HasId(files, x) \/ x = id
    BY <1>2, <1>6, <1>11 DEF HasId
  <1>12. LogOK(F, w + 1, gone)
    <2>1. w + 1 \in Nat
      BY <1>1
    <2> QED BY <1>4, <1>7, <1>8, <1>9, <1>10, <2>1, LogParts
  <1> QED BY <1>11, <1>12

-----------------------------------------------------------------------------
(* The observations on their way.                                          *)

Errand == [id : Nat, point : Points]
Watch == [id : Nat, point : Points, attempt : Nat, pc : {"idle", "ask", "record", "done"}]
Busy(o) == watching[o].pc \in {"ask", "record"}

ShadowTypes ==
    /\ slots \in Nat /\ observed \in Nat
    /\ asking \in [JevRequests -> Errand]
    /\ backlog \in Seq(Errand)
    /\ watching \in [Observers -> Watch]

\* An observation on its way was counted, and is in one place.
FlightInv ==
    /\ \A r \in JevRequests : asking[r].id <= observed
    /\ \A k \in DOMAIN backlog : backlog[k].id \in 1..observed
    /\ \A o \in Observers : Busy(o) => watching[o].id \in 1..observed
    /\ \A r, s \in JevRequests : asking[r].id # 0 /\ asking[r].id = asking[s].id => r = s
    /\ \A k, l \in DOMAIN backlog : backlog[k].id = backlog[l].id => k = l
    /\ \A o, p \in Observers : Busy(o) /\ Busy(p) /\ watching[o].id = watching[p].id => o = p
    /\ \A r \in JevRequests, k \in DOMAIN backlog : asking[r].id # backlog[k].id
    /\ \A r \in JevRequests, o \in Observers : Busy(o) => asking[r].id # watching[o].id
    /\ \A k \in DOMAIN backlog, o \in Observers : Busy(o) => backlog[k].id # watching[o].id

\* And it has no line in the log yet.
UnloggedInv ==
    /\ \A i \in 0..LogBackups : \A k \in DOMAIN logs[i] : logs[i][k].id \in 1..observed
    /\ \A r \in JevRequests : ~HasId(logs, asking[r].id)
    /\ \A k \in DOMAIN backlog : ~HasId(logs, backlog[k].id)
    /\ \A o \in Observers : Busy(o) => ~HasId(logs, watching[o].id)

ShadowIInv ==
    /\ ShadowTypes /\ FlightInv /\ UnloggedInv /\ SlotsAreHeld
    /\ LogOK(logs, written, discarded)

LEMMA RecordLog ==
    ASSUME LogOK(logs, written, discarded), NEW id \in Nat, ~HasId(logs, id), Record(id)
    PROVE  /\ LogOK(logs, written, discarded)'
           /\ \A x : HasId(logs, x)' => HasId(logs, x) \/ x = id
  <1>0. logs \in [0..LogBackups -> Seq(LogLine)] /\ 0 \in 0..LogBackups /\ LogBackups \in Nat
    BY JevAssumption DEF LogOK
  <1>1. CASE /\ written' = written + 1 /\ discarded' = discarded
             /\ logs' = [logs EXCEPT ![0] = Append(@, [n |-> written', id |-> id])]
    <2>1. logs' = WithLine(logs, written, id)
      BY <1>1 DEF WithLine
    <2>2. LogOK(logs', written + 1, discarded) /\ \A x : HasId(logs', x) => HasId(logs, x) \/ x = id
      BY <2>1, AppendedLogOK
    <2>3. LogOK(logs', written', discarded') <=> LogOK(logs, written, discarded)'
      BY DEF LogOK, HasLine
    <2>4. \A x : HasId(logs', x) <=> HasId(logs, x)'
      BY DEF HasId
    <2> QED BY <1>1, <2>2, <2>3, <2>4
  <1>2. ASSUME NEW steps \in 0..LogBackups, written' = written + 1,
               logs' = [LogRotated(logs, steps) EXCEPT ![0] = Append(@, [n |-> written', id |-> id])],
               discarded' = discarded \cup (InLogs(logs) \ InLogs(LogRotated(logs, steps)))
        PROVE  /\ LogOK(logs, written, discarded)'
               /\ \A x : HasId(logs, x)' => HasId(logs, x) \/ x = id
    <2>1. PICK R : R = LogRotated(logs, steps)
      OBVIOUS
    <2>2. /\ LogOK(R, written, discarded')
          /\ \A x : HasId(R, x) => HasId(logs, x)
      BY <1>2, <2>1, RotatedLogOK
    <2>3. logs' = WithLine(R, written, id) /\ ~HasId(R, id)
      BY <1>2, <2>1, <2>2 DEF WithLine
    <2>4. LogOK(logs', written + 1, discarded') /\ \A x : HasId(logs', x) => HasId(R, x) \/ x = id
      BY <2>2, <2>3, AppendedLogOK
    <2>5. LogOK(logs', written', discarded') <=> LogOK(logs, written, discarded)'
      BY DEF LogOK, HasLine
    <2>6. \A x : HasId(logs', x) <=> HasId(logs, x)'
      BY DEF HasId
    <2> QED BY <1>2, <2>2, <2>4, <2>5, <2>6
  <1> QED BY <1>1, <1>2 DEF Record

(* The lines of the log belong to observations that were counted.          *)
LEMMA HasIdCounted ==
    ASSUME UnloggedInv, NEW x, HasId(logs, x)
    PROVE  x \in 1..observed
  BY DEF UnloggedInv, HasId

(* A step that writes no line, starts no observation and has none on its   *)
(* way that was not.                                                       *)
LEMMA LogRests ==
    ASSUME UnloggedInv, LogOK(logs, written, discarded), UNCHANGED <<logs, written, discarded>>,
           observed \in Nat, observed' \in Nat, observed' >= observed,
           \A r \in JevRequests : ~HasId(logs, asking'[r].id),
           \A k \in DOMAIN backlog' : ~HasId(logs, backlog'[k].id),
           \A o \in Observers : Busy(o)' => ~HasId(logs, watching'[o].id)
    PROVE  UnloggedInv' /\ LogOK(logs, written, discarded)'
  <1>1. LogOK(logs, written, discarded)'
    BY DEF LogOK, HasLine
  <1>2. \A x : HasId(logs, x)' <=> HasId(logs, x)
    BY DEF HasId
  <1>3. \A i \in 0..LogBackups : \A k \in DOMAIN logs[i] : logs[i][k].id \in 1..observed'
    BY DEF UnloggedInv
  <1>4. /\ \A r \in JevRequests : ~HasId(logs', asking'[r].id)
        /\ \A k \in DOMAIN backlog' : ~HasId(logs', backlog'[k].id)
        /\ \A o \in Observers : Busy(o)' => ~HasId(logs', watching'[o].id)
    OBVIOUS
  <1>5. UnloggedInv'
    BY <1>3, <1>4 DEF UnloggedInv, HasId
  <1> QED BY <1>1, <1>5

(* The permits: who holds one.                                             *)
Askers == {r \in JevRequests : asking[r].id # 0}
Watchers == {o \in Observers : watching[o].pc # "idle"}

LEMMA HoldersFinite ==
    /\ IsFiniteSet(Askers) /\ Cardinality(Askers) \in Nat
    /\ IsFiniteSet(Watchers) /\ Cardinality(Watchers) \in Nat
  <1>1. Askers \subseteq JevRequests /\ Watchers \subseteq Observers
    BY DEF Askers, Watchers
  <1> QED BY <1>1, SubsetCount, JevAssumption

LEMMA AskersMove ==
    ASSUME ShadowTypes, NEW r \in JevRequests, NEW e \in Errand, asking' = [asking EXCEPT ![r] = e]
    PROVE  /\ asking' \in [JevRequests -> Errand] /\ asking'[r] = e
           /\ \A s \in JevRequests : s # r => asking'[s] = asking[s]
           /\ Askers' = IF e.id # 0 THEN Askers \cup {r} ELSE Askers \ {r}
           /\ r \in Askers <=> asking[r].id # 0
  <1>1. /\ asking' \in [JevRequests -> Errand] /\ asking'[r] = e
        /\ \A s \in JevRequests : s # r => asking'[s] = asking[s]
    BY DEF ShadowTypes
  <1> QED BY <1>1 DEF Askers

LEMMA WatchersMove ==
    ASSUME ShadowTypes, NEW o \in Observers, NEW w \in Watch, watching' = [watching EXCEPT ![o] = w]
    PROVE  /\ watching' \in [Observers -> Watch] /\ watching'[o] = w
           /\ \A p \in Observers : p # o => watching'[p] = watching[p] /\ (Busy(p)' <=> Busy(p))
           /\ Busy(o)' <=> w.pc \in {"ask", "record"}
           /\ Watchers' = IF w.pc # "idle" THEN Watchers \cup {o} ELSE Watchers \ {o}
           /\ o \in Watchers <=> watching[o].pc # "idle"
  <1>1. /\ watching' \in [Observers -> Watch] /\ watching'[o] = w
        /\ \A p \in Observers : p # o => watching'[p] = watching[p]
    BY DEF ShadowTypes
  <1> QED BY <1>1 DEF Watchers, Busy

LEMMA HeldSum ==
    SlotsAreHeld <=> slots + Len(backlog) + Cardinality(Askers) + Cardinality(Watchers) = QueueBudget
  BY DEF SlotsAreHeld, Askers, Watchers

LEMMA AcquireSlotInv ==
    ASSUME ShadowIInv, NEW r \in JevRequests, NEW point \in Points, AcquireSlot(r, point)
    PROVE  ShadowIInv'
  <1> USE DEF ShadowIInv
  <1>1. /\ asking[r].id = 0 /\ slots > 0 /\ observed' = observed + 1 /\ slots' = slots - 1
        /\ UNCHANGED <<backlog, watching, logs, written, discarded>>
        /\ asking' = [asking EXCEPT ![r] = [id |-> observed + 1, point |-> point]]
    BY DEF AcquireSlot
  <1>2. PICK e \in Errand : e = [id |-> observed + 1, point |-> point] /\ e.id = observed + 1
    <2>1. [id |-> observed + 1, point |-> point] \in Errand
      BY DEF Errand, ShadowTypes
    <2> QED BY <2>1
  <1>3. /\ asking' \in [JevRequests -> Errand] /\ asking'[r] = e
        /\ \A s \in JevRequests : s # r => asking'[s] = asking[s]
        /\ Askers' = IF e.id # 0 THEN Askers \cup {r} ELSE Askers \ {r}
        /\ r \in Askers <=> asking[r].id # 0
    BY <1>1, <1>2, AskersMove
  <1>4. observed \in Nat /\ slots \in Nat
    BY DEF ShadowTypes
  <1>5. ShadowTypes'
    BY <1>1, <1>3, <1>4 DEF ShadowTypes
  <1>6. /\ \A s \in JevRequests : asking[s].id \in Nat /\ asking[s].id <= observed
        /\ \A k \in DOMAIN backlog : backlog[k].id \in 1..observed
        /\ \A o \in Observers : Busy(o) => watching[o].id \in 1..observed
    <2>1. \A s \in JevRequests : asking[s].id \in Nat
      BY DEF ShadowTypes, Errand
    <2> QED BY <2>1 DEF FlightInv
  <1>7. \A o \in Observers : Busy(o)' <=> Busy(o)
    BY <1>1 DEF Busy
  <1>8. FlightInv'
    <2>1. /\ \A s \in JevRequests : asking'[s].id <= observed'
          /\ \A k \in DOMAIN backlog' : backlog'[k].id \in 1..observed'
          /\ \A o \in Observers : Busy(o)' => watching'[o].id \in 1..observed'
      BY <1>1, <1>2, <1>3, <1>4, <1>6, <1>7
    <2>2. \A s, u \in JevRequests : asking'[s].id # 0 /\ asking'[s].id = asking'[u].id => s = u
      BY <1>2, <1>3, <1>4, <1>6 DEF FlightInv
    <2>3. /\ \A k, l \in DOMAIN backlog' : backlog'[k].id = backlog'[l].id => k = l
          /\ \A o, p \in Observers : Busy(o)' /\ Busy(p)' /\ watching'[o].id = watching'[p].id => o = p
          /\ \A k \in DOMAIN backlog', o \in Observers : Busy(o)' => backlog'[k].id # watching'[o].id
      BY <1>1, <1>7 DEF FlightInv
    <2>4. /\ \A s \in JevRequests, k \in DOMAIN backlog' : asking'[s].id # backlog'[k].id
          /\ \A s \in JevRequests, o \in Observers : Busy(o)' => asking'[s].id # watching'[o].id
      BY <1>1, <1>2, <1>3, <1>4, <1>6, <1>7 DEF FlightInv
    <2> QED BY <2>1, <2>2, <2>3, <2>4 DEF FlightInv
  <1>9. UnloggedInv' /\ LogOK(logs, written, discarded)'
    <2>1. ~HasId(logs, observed + 1)
      BY <1>4, HasIdCounted
    <2>2. \A s \in JevRequests : ~HasId(logs, asking'[s].id)
      BY <1>2, <1>3, <2>1 DEF UnloggedInv
    <2>3. /\ \A k \in DOMAIN backlog' : ~HasId(logs, backlog'[k].id)
          /\ \A o \in Observers : Busy(o)' => ~HasId(logs, watching'[o].id)
      BY <1>1, <1>7 DEF UnloggedInv
    <2>4. observed' \in Nat /\ observed' >= observed
      BY <1>1, <1>4
    <2> QED BY <1>1, <1>4, <2>2, <2>3, <2>4, LogRests
  <1>10. SlotsAreHeld'
    <2>1. /\ Cardinality(Askers \cup {r}) = Cardinality(Askers) + 1 /\ Cardinality(Askers) \in Nat
          /\ Cardinality(Watchers) \in Nat
      BY <1>1, <1>3, HoldersFinite, AddOneCount
    <2>2. Askers' = Askers \cup {r} /\ Watchers' = Watchers /\ Len(backlog') = Len(backlog) /\ Len(backlog) \in Nat
      BY <1>1, <1>2, <1>3, <1>4 DEF Watchers, ShadowTypes
    <2>3. slots + Len(backlog) + Cardinality(Askers) + Cardinality(Watchers) = QueueBudget
      BY HeldSum
    <2>4. slots' + Len(backlog') + Cardinality(Askers') + Cardinality(Watchers') = QueueBudget
      BY <1>1, <1>4, <2>1, <2>2, <2>3
    <2> QED BY <2>4 DEF SlotsAreHeld, Askers, Watchers
  <1> QED BY <1>5, <1>8, <1>9, <1>10

(* A line is written for an observation that has none.                     *)
LEMMA RecordRests ==
    ASSUME UnloggedInv, LogOK(logs, written, discarded), observed \in Nat, observed' \in Nat, observed' >= observed,
           NEW id \in 1..observed', ~HasId(logs, id), Record(id),
           \A r \in JevRequests : ~HasId(logs, asking'[r].id) /\ asking'[r].id # id,
           \A k \in DOMAIN backlog' : ~HasId(logs, backlog'[k].id) /\ backlog'[k].id # id,
           \A o \in Observers : Busy(o)' => ~HasId(logs, watching'[o].id) /\ watching'[o].id # id
    PROVE  UnloggedInv' /\ LogOK(logs, written, discarded)'
  <1>1. LogOK(logs, written, discarded)' /\ \A x : HasId(logs, x)' => HasId(logs, x) \/ x = id
    BY RecordLog
  <1>2. \A x : HasId(logs, x)' <=> HasId(logs', x)
    BY DEF HasId
  <1>3. ASSUME NEW i \in 0..LogBackups, NEW k \in DOMAIN logs'[i] PROVE logs'[i][k].id \in 1..observed'
    <2>1. HasId(logs', logs'[i][k].id)
      BY DEF HasId
    <2>2. HasId(logs, logs'[i][k].id) \/ logs'[i][k].id = id
      BY <1>1, <1>2, <2>1
    <2>3. HasId(logs, logs'[i][k].id) => logs'[i][k].id \in 1..observed
      BY HasIdCounted
    <2> QED BY <2>2, <2>3
  <1>4. /\ \A r \in JevRequests : ~HasId(logs', asking'[r].id)
        /\ \A k \in DOMAIN backlog' : ~HasId(logs', backlog'[k].id)
        /\ \A o \in Observers : Busy(o)' => ~HasId(logs', watching'[o].id)
    BY <1>1, <1>2
  <1>5. UnloggedInv'
    BY <1>3, <1>4 DEF UnloggedInv, HasId
  <1> QED BY <1>1, <1>5

LEMMA CaptureFailsInv ==
    ASSUME ShadowIInv, NEW r \in JevRequests, CaptureFails(r)
    PROVE  ShadowIInv'
  <1> USE DEF ShadowIInv
  <1>1. observed' = observed + 1 /\ Record(observed + 1) /\ UNCHANGED <<slots, asking, backlog, watching>>
    BY DEF CaptureFails
  <1>2. observed \in Nat /\ observed + 1 \in 1..observed' /\ observed' \in Nat /\ observed' >= observed
    BY <1>1 DEF ShadowTypes
  <1>3. /\ \A s \in JevRequests : asking[s].id \in Nat /\ asking[s].id <= observed
        /\ \A k \in DOMAIN backlog : backlog[k].id \in 1..observed
        /\ \A o \in Observers : Busy(o) => watching[o].id \in 1..observed
    <2>1. \A s \in JevRequests : asking[s].id \in Nat
      BY DEF ShadowTypes, Errand
    <2> QED BY <2>1 DEF FlightInv
  <1>4. \A o \in Observers : Busy(o)' <=> Busy(o)
    BY <1>1 DEF Busy
  <1>5. ShadowTypes' /\ SlotsAreHeld'
    BY <1>1, <1>2 DEF ShadowTypes, SlotsAreHeld
  <1>6. FlightInv'
    <2>1. /\ \A s \in JevRequests : asking'[s].id <= observed'
          /\ \A k \in DOMAIN backlog' : backlog'[k].id \in 1..observed'
          /\ \A o \in Observers : Busy(o)' => watching'[o].id \in 1..observed'
      BY <1>1, <1>2, <1>3, <1>4
    <2> QED BY <1>1, <1>4, <2>1 DEF FlightInv
  <1>7. UnloggedInv' /\ LogOK(logs, written, discarded)'
    <2>1. ~HasId(logs, observed + 1)
      BY <1>2, HasIdCounted
    <2>2. \A s \in JevRequests : ~HasId(logs, asking'[s].id) /\ asking'[s].id # observed + 1
      BY <1>1, <1>2, <1>3 DEF UnloggedInv
    <2>3. \A k \in DOMAIN backlog' : ~HasId(logs, backlog'[k].id) /\ backlog'[k].id # observed + 1
      BY <1>1, <1>2, <1>3 DEF UnloggedInv
    <2>4. \A o \in Observers : Busy(o)' => ~HasId(logs, watching'[o].id) /\ watching'[o].id # observed + 1
      BY <1>1, <1>2, <1>3, <1>4 DEF UnloggedInv
    <2> QED BY <1>1, <1>2, <2>1, <2>2, <2>3, <2>4, RecordRests
  <1> QED BY <1>5, <1>6, <1>7

(* The request hands its observation on, to the executor or to nobody.     *)
LEMMA HandsOn ==
    ASSUME ShadowIInv, NEW r \in JevRequests, asking[r].id # 0, asking' = [asking EXCEPT ![r].id = 0]
    PROVE  /\ asking' \in [JevRequests -> Errand] /\ asking'[r].id = 0
           /\ \A s \in JevRequests : s # r => asking'[s] = asking[s]
           /\ Cardinality(Askers') + 1 = Cardinality(Askers)
           /\ Cardinality(Askers) \in Nat /\ Cardinality(Askers') \in Nat
           /\ asking[r] \in Errand
  <1>1. ShadowTypes
    BY DEF ShadowIInv
  <1>2. PICK q \in Errand : q = asking[r]
    BY <1>1 DEF ShadowTypes
  <1>3. PICK e \in Errand : e = [q EXCEPT !.id = 0] /\ e.id = 0
    <2>1. [q EXCEPT !.id = 0] \in Errand
      BY DEF Errand
    <2>2. [q EXCEPT !.id = 0].id = 0
      BY DEF Errand
    <2> QED BY <2>1, <2>2
  <1>4. asking' = [asking EXCEPT ![r] = e]
    BY <1>2, <1>3
  <1>5. /\ asking' \in [JevRequests -> Errand] /\ asking'[r] = e
        /\ \A s \in JevRequests : s # r => asking'[s] = asking[s]
        /\ Askers' = Askers \ {r} /\ r \in Askers
    BY <1>1, <1>3, <1>4, AskersMove
  <1>6. /\ Cardinality(Askers \ {r}) + 1 = Cardinality(Askers)
        /\ Cardinality(Askers) \in Nat /\ Cardinality(Askers \ {r}) \in Nat
    BY <1>5, HoldersFinite, DropOneCount
  <1> QED BY <1>2, <1>3, <1>5, <1>6

LEMMA ExecutorRefusesInv ==
    ASSUME ShadowIInv, NEW r \in JevRequests, ExecutorRefuses(r)
    PROVE  ShadowIInv'
  <1> USE DEF ShadowIInv
  <1>1. /\ asking[r].id # 0 /\ asking' = [asking EXCEPT ![r].id = 0] /\ slots' = slots + 1
        /\ UNCHANGED <<backlog, watching, logs, written, discarded, observed>>
    BY DEF ExecutorRefuses
  <1>2. /\ asking' \in [JevRequests -> Errand] /\ asking'[r].id = 0
        /\ \A s \in JevRequests : s # r => asking'[s] = asking[s]
        /\ Cardinality(Askers') + 1 = Cardinality(Askers)
        /\ Cardinality(Askers) \in Nat /\ Cardinality(Askers') \in Nat
    BY <1>1, HandsOn
  <1>3. observed \in Nat /\ slots \in Nat /\ observed' = observed
    BY <1>1 DEF ShadowTypes
  <1>4. ShadowTypes'
    BY <1>1, <1>2, <1>3 DEF ShadowTypes
  <1>5. \A o \in Observers : Busy(o)' <=> Busy(o)
    BY <1>1 DEF Busy
  <1>6. FlightInv'
    <2>1. \A s \in JevRequests : asking'[s].id <= observed'
      BY <1>1, <1>2, <1>3 DEF FlightInv
    <2>2. \A s, u \in JevRequests : asking'[s].id # 0 /\ asking'[s].id = asking'[u].id => s = u
      BY <1>2 DEF FlightInv
    <2>3. \A k \in DOMAIN backlog : backlog[k].id # 0
      BY <1>3 DEF FlightInv
    <2>4. \A o \in Observers : Busy(o) => watching[o].id # 0
      BY <1>3 DEF FlightInv
    <2>5. /\ \A s \in JevRequests, k \in DOMAIN backlog' : asking'[s].id # backlog'[k].id
          /\ \A s \in JevRequests, o \in Observers : Busy(o)' => asking'[s].id # watching'[o].id
      BY <1>1, <1>2, <1>5, <2>3, <2>4 DEF FlightInv
    <2> QED BY <1>1, <1>5, <2>1, <2>2, <2>5 DEF FlightInv
  <1>7. UnloggedInv' /\ LogOK(logs, written, discarded)'
    <2>1. ~HasId(logs, 0)
      BY <1>3, HasIdCounted
    <2>2. \A s \in JevRequests : ~HasId(logs, asking'[s].id)
      BY <1>2, <2>1 DEF UnloggedInv
    <2>3. /\ \A k \in DOMAIN backlog' : ~HasId(logs, backlog'[k].id)
          /\ \A o \in Observers : Busy(o)' => ~HasId(logs, watching'[o].id)
      BY <1>1, <1>5 DEF UnloggedInv
    <2>4. observed' \in Nat /\ observed' >= observed
      BY <1>1, <1>3
    <2> QED BY <1>1, <1>3, <2>2, <2>3, <2>4, LogRests
  <1>8. SlotsAreHeld'
    <2>1. Watchers' = Watchers /\ Cardinality(Watchers) \in Nat /\ Len(backlog') = Len(backlog) /\ Len(backlog) \in Nat
      BY <1>1, HoldersFinite DEF Watchers, ShadowTypes
    <2>2. slots + Len(backlog) + Cardinality(Askers) + Cardinality(Watchers) = QueueBudget
      BY HeldSum
    <2>3. slots' + Len(backlog') + Cardinality(Askers') + Cardinality(Watchers') = QueueBudget
      BY <1>1, <1>2, <1>3, <2>1, <2>2
    <2> QED BY <2>3 DEF SlotsAreHeld, Askers, Watchers
  <1> QED BY <1>4, <1>6, <1>7, <1>8

LEMMA ToExecutorInv ==
    ASSUME ShadowIInv, NEW r \in JevRequests, ToExecutor(r)
    PROVE  ShadowIInv'
  <1> USE DEF ShadowIInv
  <1>1. /\ asking[r].id # 0 /\ asking' = [asking EXCEPT ![r].id = 0] /\ backlog' = Append(backlog, asking[r])
        /\ UNCHANGED <<slots, watching, logs, written, discarded, observed>>
    BY DEF ToExecutor
  <1>2. /\ asking' \in [JevRequests -> Errand] /\ asking'[r].id = 0
        /\ \A s \in JevRequests : s # r => asking'[s] = asking[s]
        /\ Cardinality(Askers') + 1 = Cardinality(Askers)
        /\ Cardinality(Askers) \in Nat /\ Cardinality(Askers') \in Nat
        /\ asking[r] \in Errand
    BY <1>1, HandsOn
  <1>3. observed \in Nat /\ slots \in Nat /\ observed' = observed /\ asking[r].id \in 1..observed
    BY <1>1, <1>2 DEF ShadowTypes, FlightInv, Errand
  <1>4. PICK m \in Nat : m = Len(backlog)
    BY DEF ShadowTypes
  <1>5. /\ backlog' \in Seq(Errand) /\ DOMAIN backlog = 1..m /\ DOMAIN backlog' = 1..(m + 1) /\ Len(backlog') = m + 1
        /\ \A k \in DOMAIN backlog : backlog'[k] = backlog[k]
        /\ backlog'[m + 1] = asking[r]
    BY <1>1, <1>2, <1>4 DEF ShadowTypes
  <1>6. ShadowTypes'
    BY <1>1, <1>2, <1>5 DEF ShadowTypes
  <1>7. \A o \in Observers : Busy(o)' <=> Busy(o)
    BY <1>1 DEF Busy
  <1>8. \A k \in DOMAIN backlog' : \/ k \in DOMAIN backlog /\ backlog'[k] = backlog[k] /\ k # m + 1
                                   \/ k = m + 1 /\ backlog'[k] = asking[r]
    BY <1>4, <1>5
  <1>9. FlightInv'
    <2>1. \A s \in JevRequests : asking'[s].id <= observed'
      BY <1>2, <1>3 DEF FlightInv
    <2>2. \A s, u \in JevRequests : asking'[s].id # 0 /\ asking'[s].id = asking'[u].id => s = u
      BY <1>2 DEF FlightInv
    <2>3. \A k \in DOMAIN backlog' : backlog'[k].id \in 1..observed'
      BY <1>3, <1>8 DEF FlightInv
    <2>4. \A k, l \in DOMAIN backlog' : backlog'[k].id = backlog'[l].id => k = l
      BY <1>8 DEF FlightInv
    <2>5. \A o \in Observers : Busy(o) => watching[o].id \in 1..observed
      BY DEF FlightInv
    <2>6. \A k \in DOMAIN backlog', o \in Observers : Busy(o)' => backlog'[k].id # watching'[o].id
      BY <1>1, <1>7, <1>8 DEF FlightInv
    <2>7. ASSUME NEW s \in JevRequests, NEW k \in DOMAIN backlog' PROVE asking'[s].id # backlog'[k].id
      <3>1. backlog'[k].id # 0
        BY <1>3, <2>3
      <3>2. CASE s = r
        BY <1>2, <3>1, <3>2
      <3>3. CASE s # r
        <4>1. asking[s].id # backlog'[k].id
          BY <1>1, <1>8, <3>3 DEF FlightInv
        <4> QED BY <1>2, <3>3, <4>1
      <3> QED BY <3>2, <3>3
    <2>8. \A s \in JevRequests, o \in Observers : Busy(o)' => asking'[s].id # watching'[o].id
      BY <1>1, <1>2, <1>3, <1>7, <2>5 DEF FlightInv
    <2>9. /\ \A o \in Observers : Busy(o)' => watching'[o].id \in 1..observed'
          /\ \A o, p \in Observers : Busy(o)' /\ Busy(p)' /\ watching'[o].id = watching'[p].id => o = p
      BY <1>1, <1>7 DEF FlightInv
    <2> QED BY <2>1, <2>2, <2>3, <2>4, <2>6, <2>7, <2>8, <2>9 DEF FlightInv
  <1>10. UnloggedInv' /\ LogOK(logs, written, discarded)'
    <2>1. ~HasId(logs, 0)
      BY <1>3, HasIdCounted
    <2>2. \A s \in JevRequests : ~HasId(logs, asking'[s].id)
      BY <1>2, <2>1 DEF UnloggedInv
    <2>3. \A k \in DOMAIN backlog' : ~HasId(logs, backlog'[k].id)
      BY <1>8 DEF UnloggedInv
    <2>4. \A o \in Observers : Busy(o)' => ~HasId(logs, watching'[o].id)
      BY <1>1, <1>7 DEF UnloggedInv
    <2>5. observed' \in Nat /\ observed' >= observed
      BY <1>3
    <2> QED BY <1>1, <1>3, <2>2, <2>3, <2>4, <2>5, LogRests
  <1>11. SlotsAreHeld'
    <2>1. Watchers' = Watchers /\ Cardinality(Watchers) \in Nat
      BY <1>1, HoldersFinite DEF Watchers
    <2>2. slots + Len(backlog) + Cardinality(Askers) + Cardinality(Watchers) = QueueBudget
      BY HeldSum
    <2>3. slots' + Len(backlog') + Cardinality(Askers') + Cardinality(Watchers') = QueueBudget
      BY <1>1, <1>2, <1>3, <1>4, <1>5, <2>1, <2>2
    <2> QED BY <2>3 DEF SlotsAreHeld, Askers, Watchers
  <1> QED BY <1>6, <1>9, <1>10, <1>11

LEMMA TakeUpInv ==
    ASSUME ShadowIInv, NEW o \in Observers, TakeUp(o)
    PROVE  ShadowIInv'
  <1> USE DEF ShadowIInv
  <1>1. /\ watching[o].pc = "idle" /\ backlog # <<>> /\ backlog' = Tail(backlog)
        /\ watching' = [watching EXCEPT ![o] = [id |-> Head(backlog).id, point |-> Head(backlog).point, attempt |-> 0, pc |-> "ask"]]
        /\ UNCHANGED <<slots, asking, logs, written, discarded, observed>>
    BY DEF TakeUp
  <1>2. PICK m \in Nat : m = Len(backlog) /\ m > 0
    BY <1>1 DEF ShadowTypes
  <1>3. /\ backlog' \in Seq(Errand) /\ DOMAIN backlog = 1..m /\ DOMAIN backlog' = 1..(m - 1) /\ Len(backlog') = m - 1
        /\ \A k \in DOMAIN backlog' : backlog'[k] = backlog[k + 1] /\ k + 1 \in DOMAIN backlog /\ k + 1 # 1
        /\ 1 \in DOMAIN backlog /\ Head(backlog) = backlog[1] /\ backlog[1] \in Errand
    BY <1>1, <1>2 DEF ShadowTypes
  <1>4. PICK w \in Watch : /\ w = [id |-> backlog[1].id, point |-> backlog[1].point, attempt |-> 0, pc |-> "ask"]
                           /\ w.id = backlog[1].id /\ w.pc = "ask"
    <2>1. backlog[1].id \in Nat /\ backlog[1].point \in Points
      BY <1>3 DEF Errand
    <2>2. [id |-> backlog[1].id, point |-> backlog[1].point, attempt |-> 0, pc |-> "ask"] \in Watch
      BY <2>1 DEF Watch
    <2> QED BY <2>2
  <1>5. /\ watching' \in [Observers -> Watch] /\ watching'[o] = w
        /\ \A p \in Observers : p # o => watching'[p] = watching[p] /\ (Busy(p)' <=> Busy(p))
        /\ Busy(o)' <=> w.pc \in {"ask", "record"}
        /\ Watchers' = Watchers \cup {o} /\ o \notin Watchers
    BY <1>1, <1>3, <1>4, WatchersMove
  <1>6. observed \in Nat /\ slots \in Nat /\ observed' = observed
    BY <1>1 DEF ShadowTypes
  <1>7. ShadowTypes'
    BY <1>1, <1>3, <1>5 DEF ShadowTypes
  <1>8. FlightInv'
    <2>1. /\ \A s \in JevRequests : asking'[s].id <= observed'
          /\ \A s, u \in JevRequests : asking'[s].id # 0 /\ asking'[s].id = asking'[u].id => s = u
      BY <1>1 DEF FlightInv
    <2>2. \A k \in DOMAIN backlog' : backlog'[k].id \in 1..observed'
      BY <1>1, <1>3 DEF FlightInv
    <2>3. ASSUME NEW k \in DOMAIN backlog', NEW l \in DOMAIN backlog', backlog'[k].id = backlog'[l].id PROVE k = l
      <3>1. k + 1 = l + 1
        BY <1>3, <2>3 DEF FlightInv
      <3> QED BY <1>3, <3>1
    <2>4. /\ \A s \in JevRequests, k \in DOMAIN backlog' : asking'[s].id # backlog'[k].id
          /\ \A s \in JevRequests, p \in Observers : Busy(p)' => asking'[s].id # watching'[p].id
      BY <1>1, <1>3, <1>4, <1>5 DEF FlightInv
    <2>5. \A p \in Observers : Busy(p)' => watching'[p].id \in 1..observed'
      BY <1>1, <1>3, <1>4, <1>5 DEF FlightInv
    <2>6. \A p, q \in Observers : Busy(p)' /\ Busy(q)' /\ watching'[p].id = watching'[q].id => p = q
      BY <1>3, <1>4, <1>5 DEF FlightInv
    <2>7. ASSUME NEW k \in DOMAIN backlog', NEW p \in Observers, Busy(p)' PROVE backlog'[k].id # watching'[p].id
      <3>1. CASE p = o
        <4>1. backlog[k + 1].id # backlog[1].id
          BY <1>3 DEF FlightInv
        <4> QED BY <1>3, <1>4, <1>5, <3>1, <4>1
      <3>2. CASE p # o
        BY <1>3, <1>5, <2>7, <3>2 DEF FlightInv
      <3> QED BY <3>1, <3>2
    <2> QED BY <2>1, <2>2, <2>3, <2>4, <2>5, <2>6, <2>7 DEF FlightInv
  <1>9. UnloggedInv' /\ LogOK(logs, written, discarded)'
    <2>1. \A s \in JevRequests : ~HasId(logs, asking'[s].id)
      BY <1>1 DEF UnloggedInv
    <2>2. \A k \in DOMAIN backlog' : ~HasId(logs, backlog'[k].id)
      BY <1>3 DEF UnloggedInv
    <2>3. \A p \in Observers : Busy(p)' => ~HasId(logs, watching'[p].id)
      BY <1>3, <1>4, <1>5 DEF UnloggedInv
    <2>4. observed' \in Nat /\ observed' >= observed
      BY <1>6
    <2> QED BY <1>1, <1>6, <2>1, <2>2, <2>3, <2>4, LogRests
  <1>10. SlotsAreHeld'
    <2>1. /\ Askers' = Askers /\ Cardinality(Askers) \in Nat
          /\ Cardinality(Watchers') = Cardinality(Watchers) + 1 /\ Cardinality(Watchers) \in Nat
      BY <1>1, <1>5, HoldersFinite, AddOneCount DEF Askers
    <2>2. slots + Len(backlog) + Cardinality(Askers) + Cardinality(Watchers) = QueueBudget
      BY HeldSum
    <2>3. slots' + Len(backlog') + Cardinality(Askers') + Cardinality(Watchers') = QueueBudget
      BY <1>1, <1>2, <1>3, <1>6, <2>1, <2>2
    <2> QED BY <2>3 DEF SlotsAreHeld, Askers, Watchers
  <1> QED BY <1>7, <1>8, <1>9, <1>10

(* An observer goes on with what it observes, or stops being busy with it. *)
LEMMA ObserverMoves ==
    ASSUME ShadowTypes, FlightInv, NEW o \in Observers, NEW w \in Watch, watching' = [watching EXCEPT ![o] = w],
           w.pc \in {"ask", "record"} => Busy(o) /\ w.id = watching[o].id,
           slots' \in Nat, UNCHANGED <<asking, backlog, observed>>
    PROVE  /\ ShadowTypes' /\ FlightInv' /\ watching'[o] = w
           /\ \A p \in Observers : p # o => watching'[p] = watching[p]
           /\ \A p \in Observers : Busy(p)' => Busy(p) /\ watching'[p].id = watching[p].id
           /\ Busy(o)' <=> w.pc \in {"ask", "record"}
           /\ Watchers' = IF w.pc # "idle" THEN Watchers \cup {o} ELSE Watchers \ {o}
           /\ o \in Watchers <=> watching[o].pc # "idle"
  <1>1. /\ watching' \in [Observers -> Watch] /\ watching'[o] = w
        /\ \A p \in Observers : p # o => watching'[p] = watching[p] /\ (Busy(p)' <=> Busy(p))
        /\ Busy(o)' <=> w.pc \in {"ask", "record"}
        /\ Watchers' = IF w.pc # "idle" THEN Watchers \cup {o} ELSE Watchers \ {o}
        /\ o \in Watchers <=> watching[o].pc # "idle"
    BY WatchersMove
  <1>2. \A p \in Observers : Busy(p)' => Busy(p) /\ watching'[p].id = watching[p].id
    BY <1>1
  <1>3. ShadowTypes'
    BY <1>1 DEF ShadowTypes
  <1>4. FlightInv'
    BY <1>2 DEF FlightInv
  <1> QED BY <1>1, <1>2, <1>3, <1>4

(* While it keeps its permit, the sum does not change.                     *)
LEMMA PermitKept ==
    ASSUME SlotsAreHeld, NEW o \in Watchers, Watchers' = Watchers \cup {o}, UNCHANGED <<slots, backlog, asking>>
    PROVE  SlotsAreHeld'
  <1>1. Watchers' = Watchers /\ Askers' = Askers
    BY DEF Askers
  <1>2. slots' + Len(backlog') + Cardinality(Askers') + Cardinality(Watchers') = QueueBudget
    BY <1>1, HeldSum
  <1> QED BY <1>2 DEF SlotsAreHeld, Askers, Watchers

LEMMA EvaluateInv ==
    ASSUME ShadowIInv, NEW o \in Observers, NEW outc, Evaluate(o, outc)
    PROVE  ShadowIInv'
  <1> USE DEF ShadowIInv
  <1>1. /\ watching[o].pc = "ask" /\ UNCHANGED <<slots, asking, backlog, logs, written, discarded, observed>>
    BY DEF Evaluate
  <1>2. PICK q \in Watch : q = watching[o]
    BY DEF ShadowTypes
  <1>3. PICK c \in {"ask", "record", "done"} :
           watching' = [watching EXCEPT ![o].attempt = @ + 1, ![o].pc = c]
    <2>1. PICK c : /\ watching' = [watching EXCEPT ![o].attempt = @ + 1, ![o].pc = c]
                   /\ c = CASE outc = "limited" /\ q.attempt = 0 -> "ask"
                            [] outc = "answer" -> "record"
                            [] outc = "garbled" -> "done"
                            [] OTHER -> IF q.point = "R1" THEN "record" ELSE "done"
      BY <1>2 DEF Evaluate
    <2>2. c \in {"ask", "record", "done"}
      <3>1. CASE outc = "limited" /\ q.attempt = 0
        BY <2>1, <3>1
      <3>2. CASE ~(outc = "limited" /\ q.attempt = 0)
        BY <2>1, <3>2
      <3> QED BY <3>1, <3>2
    <2> QED BY <2>1, <2>2
  <1>4. PICK w \in Watch : w = [q EXCEPT !.attempt = @ + 1, !.pc = c] /\ w.id = q.id /\ w.pc = c
    <2>1. [q EXCEPT !.attempt = @ + 1, !.pc = c] \in Watch
      <3>1. PICK a \in Nat : a = q.attempt + 1
        BY DEF Watch
      <3>2. [q EXCEPT !.attempt = a, !.pc = c] \in Watch
        BY DEF Watch
      <3> QED BY <3>1, <3>2
    <2>2. [q EXCEPT !.attempt = @ + 1, !.pc = c].id = q.id /\ [q EXCEPT !.attempt = @ + 1, !.pc = c].pc = c
      BY DEF Watch
    <2> QED BY <2>1, <2>2
  <1>5. watching' = [watching EXCEPT ![o] = w]
    BY <1>2, <1>3, <1>4
  <1>6. Busy(o) /\ slots' \in Nat /\ observed \in Nat
    BY <1>1 DEF Busy, ShadowTypes
  <1>7. /\ ShadowTypes' /\ FlightInv'
        /\ \A p \in Observers : Busy(p)' => Busy(p) /\ watching'[p].id = watching[p].id
        /\ Watchers' = Watchers \cup {o} /\ o \in Watchers
    BY <1>1, <1>2, <1>4, <1>5, <1>6, ObserverMoves
  <1>8. UnloggedInv' /\ LogOK(logs, written, discarded)'
    <2>1. /\ \A s \in JevRequests : ~HasId(logs, asking'[s].id)
          /\ \A k \in DOMAIN backlog' : ~HasId(logs, backlog'[k].id)
          /\ \A p \in Observers : Busy(p)' => ~HasId(logs, watching'[p].id)
      BY <1>1, <1>7 DEF UnloggedInv
    <2>2. observed' \in Nat /\ observed' >= observed
      BY <1>1, <1>6
    <2> QED BY <1>1, <1>6, <2>1, <2>2, LogRests
  <1>9. SlotsAreHeld'
    BY <1>1, <1>7, PermitKept
  <1> QED BY <1>7, <1>8, <1>9

(* An observer is done, and not busy any more.                             *)
LEMMA ObserverDone ==
    ASSUME ShadowIInv, NEW o \in Observers, watching[o].pc = "record", watching' = [watching EXCEPT ![o].pc = "done"],
           UNCHANGED <<slots, asking, backlog, observed>>
    PROVE  /\ ShadowTypes' /\ FlightInv' /\ SlotsAreHeld' /\ Busy(o) /\ ~Busy(o)'
           /\ \A p \in Observers : Busy(p)' => Busy(p) /\ watching'[p].id = watching[p].id
  <1> USE DEF ShadowIInv
  <1>1. PICK q \in Watch : q = watching[o]
    BY DEF ShadowTypes
  <1>2. PICK w \in Watch : w = [q EXCEPT !.pc = "done"] /\ w.pc = "done"
    <2>1. [q EXCEPT !.pc = "done"] \in Watch
      BY DEF Watch
    <2>2. [q EXCEPT !.pc = "done"].pc = "done"
      BY DEF Watch
    <2> QED BY <2>1, <2>2
  <1>3. watching' = [watching EXCEPT ![o] = w] /\ slots' \in Nat /\ Busy(o)
    BY <1>1, <1>2 DEF ShadowTypes, Busy
  <1>4. /\ ShadowTypes' /\ FlightInv' /\ ~Busy(o)'
        /\ \A p \in Observers : Busy(p)' => Busy(p) /\ watching'[p].id = watching[p].id
        /\ Watchers' = Watchers \cup {o} /\ o \in Watchers
    BY <1>1, <1>2, <1>3, ObserverMoves
  <1>5. SlotsAreHeld'
    BY <1>4, PermitKept
  <1> QED BY <1>3, <1>4, <1>5

LEMMA ObserveOnceInv ==
    ASSUME ShadowIInv, NEW o \in Observers, ObserveOnce(o)
    PROVE  ShadowIInv'
  <1> USE DEF ShadowIInv
  <1>1. /\ watching[o].pc = "record" /\ watching' = [watching EXCEPT ![o].pc = "done"]
        /\ Record(watching[o].id) /\ UNCHANGED <<slots, asking, backlog, observed>>
    BY DEF ObserveOnce
  <1>2. /\ ShadowTypes' /\ FlightInv' /\ SlotsAreHeld' /\ Busy(o) /\ ~Busy(o)'
        /\ \A p \in Observers : Busy(p)' => Busy(p) /\ watching'[p].id = watching[p].id
    BY <1>1, ObserverDone
  <1>3. PICK id \in 1..observed : id = watching[o].id
    BY <1>2 DEF FlightInv
  <1>4. observed \in Nat /\ id \in Nat /\ id \in 1..observed' /\ observed' \in Nat /\ observed' >= observed
    BY <1>1 DEF ShadowTypes
  <1>5. UnloggedInv' /\ LogOK(logs, written, discarded)'
    <2>1. ~HasId(logs, id)
      BY <1>2, <1>3 DEF UnloggedInv
    <2>2. \A s \in JevRequests : ~HasId(logs, asking'[s].id) /\ asking'[s].id # id
      BY <1>1, <1>2, <1>3 DEF UnloggedInv, FlightInv
    <2>3. \A k \in DOMAIN backlog' : ~HasId(logs, backlog'[k].id) /\ backlog'[k].id # id
      BY <1>1, <1>2, <1>3 DEF UnloggedInv, FlightInv
    <2>4. \A p \in Observers : Busy(p)' => ~HasId(logs, watching'[p].id) /\ watching'[p].id # id
      BY <1>2, <1>3 DEF UnloggedInv, FlightInv
    <2> QED BY <1>1, <1>3, <1>4, <2>1, <2>2, <2>3, <2>4, RecordRests
  <1> QED BY <1>2, <1>5

LEMMA JevWriteFailsInv ==
    ASSUME ShadowIInv, NEW o \in Observers, WriteFails(o)
    PROVE  ShadowIInv'
  <1> USE DEF ShadowIInv
  <1>1. /\ watching[o].pc = "record" /\ watching' = [watching EXCEPT ![o].pc = "done"]
        /\ UNCHANGED <<slots, asking, backlog, logs, written, discarded, observed>>
    BY DEF WriteFails
  <1>2. /\ ShadowTypes' /\ FlightInv' /\ SlotsAreHeld'
        /\ \A p \in Observers : Busy(p)' => Busy(p) /\ watching'[p].id = watching[p].id
    BY <1>1, ObserverDone
  <1>3. observed \in Nat /\ observed' \in Nat /\ observed' >= observed
    BY <1>1 DEF ShadowTypes
  <1>4. /\ \A s \in JevRequests : ~HasId(logs, asking'[s].id)
        /\ \A k \in DOMAIN backlog' : ~HasId(logs, backlog'[k].id)
        /\ \A p \in Observers : Busy(p)' => ~HasId(logs, watching'[p].id)
    BY <1>1, <1>2 DEF UnloggedInv
  <1>5. UnloggedInv' /\ LogOK(logs, written, discarded)'
    BY <1>1, <1>3, <1>4, LogRests
  <1> QED BY <1>2, <1>5

LEMMA ReleaseSlotInv ==
    ASSUME ShadowIInv, NEW o \in Observers, ReleaseSlot(o)
    PROVE  ShadowIInv'
  <1> USE DEF ShadowIInv
  <1>1. /\ watching[o].pc = "done" /\ watching' = [watching EXCEPT ![o] = NoObservation] /\ slots' = slots + 1
        /\ UNCHANGED <<asking, backlog, logs, written, discarded, observed>>
    BY DEF ReleaseSlot
  <1>2. NoObservation \in Watch /\ NoObservation.pc = "idle"
    BY DEF NoObservation, Watch, Points
  <1>3. observed \in Nat /\ observed' \in Nat /\ observed' >= observed /\ slots \in Nat /\ slots' \in Nat
    BY <1>1 DEF ShadowTypes
  <1>4. /\ ShadowTypes' /\ FlightInv'
        /\ \A p \in Observers : Busy(p)' => Busy(p) /\ watching'[p].id = watching[p].id
        /\ Watchers' = Watchers \ {o} /\ o \in Watchers
    BY <1>1, <1>2, <1>3, ObserverMoves
  <1>5. /\ \A s \in JevRequests : ~HasId(logs, asking'[s].id)
        /\ \A k \in DOMAIN backlog' : ~HasId(logs, backlog'[k].id)
        /\ \A p \in Observers : Busy(p)' => ~HasId(logs, watching'[p].id)
    BY <1>1, <1>4 DEF UnloggedInv
  <1>6. UnloggedInv' /\ LogOK(logs, written, discarded)'
    BY <1>1, <1>3, <1>5, LogRests
  <1>7. SlotsAreHeld'
    <2>1. /\ Askers' = Askers /\ Cardinality(Askers) \in Nat
          /\ Cardinality(Watchers') + 1 = Cardinality(Watchers) /\ Cardinality(Watchers) \in Nat /\ Cardinality(Watchers') \in Nat
          /\ Len(backlog) \in Nat
      BY <1>1, <1>4, HoldersFinite, DropOneCount DEF Askers, ShadowTypes
    <2>2. slots + Len(backlog) + Cardinality(Askers) + Cardinality(Watchers) = QueueBudget
      BY HeldSum
    <2>3. slots' + Len(backlog') + Cardinality(Askers') + Cardinality(Watchers') = QueueBudget
      BY <1>1, <1>3, <2>1, <2>2
    <2> QED BY <2>3 DEF SlotsAreHeld, Askers, Watchers
  <1> QED BY <1>4, <1>6, <1>7

LEMMA ShadowNextInv ==
    ASSUME ShadowIInv, ShadowNext \/ UNCHANGED shadowvars PROVE ShadowIInv'
  <1>1. CASE ShadowNext
    BY <1>1, AcquireSlotInv, CaptureFailsInv, ToExecutorInv, ExecutorRefusesInv, TakeUpInv, EvaluateInv,
       ObserveOnceInv, JevWriteFailsInv, ReleaseSlotInv DEF ShadowNext
  <1>2. CASE UNCHANGED shadowvars
    BY <1>2 DEF shadowvars, ShadowIInv, ShadowTypes, FlightInv, UnloggedInv, SlotsAreHeld, LogOK, HasId, HasLine, Busy
  <1> QED BY <1>1, <1>2

LEMMA ShadowInitInv == JevInit => ShadowIInv
  <1> SUFFICES ASSUME JevInit PROVE ShadowIInv
    OBVIOUS
  <1>1. /\ slots = QueueBudget /\ backlog = <<>> /\ written = 0 /\ discarded = {} /\ observed = 0
        /\ asking = [r \in JevRequests |-> [id |-> 0, point |-> "R1"]]
        /\ watching = [o \in Observers |-> NoObservation]
        /\ logs = [i \in 0..LogBackups |-> <<>>]
    BY DEF JevInit
  <1>2. ShadowTypes
    <2>1. [id |-> 0, point |-> "R1"] \in Errand /\ NoObservation \in Watch
      BY DEF Errand, Watch, NoObservation, Points
    <2> QED BY <1>1, <2>1, JevAssumption DEF ShadowTypes
  <1>3. /\ \A r \in JevRequests : asking[r].id = 0
        /\ \A o \in Observers : watching[o].pc = "idle" /\ ~Busy(o)
        /\ DOMAIN backlog = {} /\ Len(backlog) = 0
        /\ \A i \in 0..LogBackups : DOMAIN logs[i] = {}
    BY <1>1 DEF NoObservation, Busy
  <1>4. FlightInv /\ UnloggedInv
    <2>1. FlightInv
      BY <1>1, <1>3 DEF FlightInv
    <2>2. \A x : ~HasId(logs, x)
      BY <1>3 DEF HasId
    <2>3. UnloggedInv
      BY <1>3, <2>2 DEF UnloggedInv
    <2> QED BY <2>1, <2>3
  <1>5. SlotsAreHeld
    <2>1. Askers = {} /\ Watchers = {}
      BY <1>3 DEF Askers, Watchers
    <2>2. Cardinality(Askers) = 0 /\ Cardinality(Watchers) = 0
      BY <2>1, FS_EmptySet
    <2>3. QueueBudget \in Nat
      BY JevAssumption
    <2> QED BY <1>1, <1>3, <2>2, <2>3, HeldSum
  <1>6. LogOK(logs, written, discarded)
    <2>1. logs \in [0..LogBackups -> Seq(LogLine)]
      BY <1>1
    <2>2. written \in Nat /\ 1..written = {}
      BY <1>1
    <2> QED BY <1>1, <1>3, <2>1, <2>2 DEF LogOK
  <1> QED BY <1>2, <1>4, <1>5, <1>6 DEF ShadowIInv

LEMMA ShadowIsSafe == ShadowIInv => SlotsAreHeld /\ LogKeepsTheNewest
  <1> SUFFICES ASSUME ShadowIInv PROVE LogKeepsTheNewest
    BY DEF ShadowIInv
  <1>1. LogOK(logs, written, discarded)
    BY DEF ShadowIInv
  <1>2. \A i, j \in 0..LogBackups : \A k \in DOMAIN logs[i], l \in DOMAIN logs[j] :
           logs[i][k].id = logs[j][l].id => i = j /\ k = l
    BY <1>1 DEF LogOK
  <1>3. ASSUME NEW d \in discarded PROVE d <= written /\ \A n \in InLogs(logs) : d < n
    <2>1. d \in 1..written /\ \A i \in 0..LogBackups : \A k \in DOMAIN logs[i] : d < logs[i][k].n
      BY <1>1 DEF LogOK
    <2>2. written \in Nat
      BY <1>1 DEF LogOK
    <2>3. \A n \in InLogs(logs) : d < n
      BY <2>1 DEF InLogs
    <2> QED BY <2>1, <2>2, <2>3
  <1>4. InLogs(logs) \cup discarded = 1..written
    <2>1. \A n \in InLogs(logs) : n \in 1..written
      BY <1>1 DEF LogOK, InLogs
    <2>2. \A d \in discarded : d \in 1..written
      BY <1>1 DEF LogOK
    <2>3. \A n \in 1..written : n \in discarded \/ n \in InLogs(logs)
      BY <1>1, InLogsIs DEF LogOK
    <2> QED BY <2>1, <2>2, <2>3
  <1> QED BY <1>2, <1>3, <1>4 DEF LogKeepsTheNewest

-----------------------------------------------------------------------------
(* The cascade and the sidecar.                                            *)

LEMMA CascadeInv ==
    ASSUME CascadeOnlyLifts, RouteNext \/ UNCHANGED routevars PROVE CascadeOnlyLifts'
  <1>1. CASE UNCHANGED routed
    BY <1>1 DEF CascadeOnlyLifts
  <1>2. ASSUME NEW facts, NEW choice, NEW c, NEW p, CascadePolicy(facts, choice, c, p) PROVE CascadeOnlyLifts'
    BY <1>2 DEF CascadePolicy, CascadeRun, CascadeOnlyLifts
  <1>3. ASSUME NEW h, NEW choice, NEW c, NEW p, DetectIntent(h, choice, c, p) PROVE CascadeOnlyLifts'
    BY <1>3 DEF DetectIntent, CascadeOnlyLifts
  <1> QED BY <1>1, <1>2, <1>3 DEF RouteNext, OnDisable, OnEnable, AddRule, RemoveRule, routevars

JevAnswer == [gate : Int, choice : {"none", "run", "ask", "abort"}, p : Int, confidence : Int, risk : Int]
SideRun == [pc : {"none", "state", "asking", "verdict", "exited"}, attempts : Nat, answer : JevAnswer,
            decision : {"none", "execute", "confirm", "abort", "skip"}, out : BOOLEAN, exit : Int, run : Nat]

\* "execute" rests on an answer that says so.
Grounded(d, a) ==
    d = "execute" => /\ a.choice = "run" /\ a.gate >= 70 /\ a.p >= 60
                     /\ a.risk \in 10..34 /\ a.confidence # Missing

\* A run is at one place of its way to the exit: it has made no call, one at
\* most, or two; it has a verdict from "verdict" on; it has a code once it
\* has exited, and then the file has the verdict.
SidecarInv ==
    /\ sidecar \in SideRun /\ sidecars \in Nat
    /\ sidecar.pc \in {"none", "state"} => sidecar.attempts = 0 /\ sidecar.decision = "none"
    /\ sidecar.pc = "asking" => sidecar.attempts <= 1 /\ sidecar.decision = "none"
    /\ sidecar.pc = "verdict" => sidecar.decision # "none"
    /\ sidecar.attempts <= 2
    /\ sidecar.pc # "exited" => sidecar.exit = Missing
    /\ sidecar.exit = 0 => /\ sidecar.decision \in {"execute", "confirm", "abort"}
                           /\ sidecar.out => verdictFile = sidecar.decision
    /\ Grounded(sidecar.decision, sidecar.answer)

LEMMA DecideIsGrounded ==
    ASSUME NEW a \in JevAnswer
    PROVE  /\ Decide(a) \in {"execute", "confirm", "abort", "skip"}
           /\ Grounded(Decide(a), a)
  <1>1. a.gate \in Int /\ a.p \in Int /\ a.confidence \in Int /\ a.risk \in Int
    BY DEF JevAnswer
  <1>2. PICK v : v = RiskValue(a.risk)
    OBVIOUS
  <1>3. /\ v \in Int
        /\ v # Missing /\ ~(10 * v > 35) => a.risk \in 10..34
    <2>1. PICK raw \in Int : raw = a.risk
      BY <1>1
    <2>2. CASE raw < 10 \/ raw > 50
      BY <1>2, <2>1, <2>2 DEF RiskValue, Missing
    <2>3. CASE ~(raw < 10 \/ raw > 50)
      <3>1. v = (raw + 5) \div 10
        BY <1>2, <2>1, <2>3 DEF RiskValue
      <3>2. v \in Int /\ 10 * v <= raw + 5 /\ raw + 5 < 10 * v + 10
        BY <3>1
      <3> QED BY <2>1, <2>3, <3>2
    <2> QED BY <2>2, <2>3
  <1> DEFINE A1 == a.gate = Missing \/ a.choice = "none" \/ a.risk = Missing \/ a.confidence = Missing
             A2 == a.confidence # NaN /\ a.confidence < 50
             A3 == v = Missing
             A4 == 10 * v > 35
             A5 == a.gate >= 70 /\ a.choice = "run" /\ a.p >= 60
             A6 == a.gate >= 45 \/ a.choice = "ask" \/ a.p >= 45
  <1>4. Decide(a) = IF A1 \/ A2 \/ A3 THEN "skip" ELSE IF A4 THEN "confirm"
                    ELSE IF A5 THEN "execute" ELSE IF A6 THEN "confirm" ELSE "abort"
    BY <1>2 DEF Decide
  <1>5. A5 /\ ~A1 /\ ~A3 /\ ~A4 => Grounded("execute", a)
    BY <1>1, <1>3 DEF Grounded
  <1>6. \A d : d # "execute" => Grounded(d, a)
    BY DEF Grounded
  <1> HIDE DEF A1, A2, A3, A4, A5, A6
  <1>7. CASE A1 \/ A2 \/ A3 \/ A4 \/ ~A5
    BY <1>4, <1>6, <1>7
  <1>8. CASE ~A1 /\ ~A2 /\ ~A3 /\ ~A4 /\ A5
    BY <1>4, <1>5, <1>8
  <1> QED BY <1>7, <1>8

(* What a step of the run has to show, of the run before and after.        *)
LEMMA SidecarStep ==
    ASSUME SidecarInv, sidecars' \in Nat, NEW x \in SideRun, sidecar' = x,
           x.pc \in {"none", "state"} => x.attempts = 0 /\ x.decision = "none",
           x.pc = "asking" => x.attempts <= 1 /\ x.decision = "none",
           x.pc = "verdict" => x.decision # "none",
           x.attempts <= 2,
           x.pc # "exited" => x.exit = Missing,
           x.exit = 0 => /\ x.decision \in {"execute", "confirm", "abort"}
                         /\ x.out => verdictFile' = x.decision,
           Grounded(x.decision, x.answer)
    PROVE  SidecarInv'
  BY DEF SidecarInv, Grounded

LEMMA NoRunOK ==
    /\ NoRun \in SideRun /\ NoRun.pc = "none" /\ NoRun.attempts = 0 /\ NoRun.decision = "none" /\ NoRun.exit = Missing
    /\ Missing \in Int /\ Missing # 0 /\ \A a : Grounded("none", a)
  <1>1. Missing \in Int /\ Missing # 0
    BY DEF Missing
  <1>2. NoAnswer \in JevAnswer
    BY <1>1 DEF NoAnswer, JevAnswer
  <1>3. NoRun \in SideRun
    BY <1>1, <1>2 DEF NoRun, SideRun
  <1> QED BY <1>1, <1>3 DEF NoRun, Grounded

LEMMA RunFields ==
    ASSUME SidecarInv
    PROVE  /\ sidecar \in SideRun /\ sidecars \in Nat
           /\ sidecar.pc \in {"none", "state", "asking", "verdict", "exited"} /\ sidecar.attempts \in Nat
           /\ sidecar.answer \in JevAnswer /\ sidecar.out \in BOOLEAN /\ sidecar.exit \in Int
           /\ sidecar.decision \in {"none", "execute", "confirm", "abort", "skip"}
  BY DEF SidecarInv, SideRun

(* The run is over, or there is none.                                      *)
LEMMA NoRunInv ==
    ASSUME SidecarInv, sidecar' = NoRun, sidecars' = sidecars PROVE SidecarInv'
  <1>1. sidecars' \in Nat
    BY RunFields
  <1> QED BY <1>1, NoRunOK, SidecarStep

LEMMA SideStartInv ==
    ASSUME SidecarInv, NEW out \in BOOLEAN, SideStart(out) PROVE SidecarInv'
  <1>1. sidecars' = sidecars + 1 /\ sidecar' = [NoRun EXCEPT !.pc = "state", !.out = out, !.run = sidecars + 1]
    BY DEF SideStart
  <1>2. PICK n \in Nat : n = sidecars + 1
    BY RunFields
  <1>3. PICK q \in SideRun : q = NoRun
    BY NoRunOK
  <1>4. PICK x : x = [q EXCEPT !.pc = "state", !.out = out, !.run = n]
    OBVIOUS
  <1>5. x \in SideRun
    BY <1>4 DEF SideRun
  <1>6. /\ x.pc = "state" /\ x.attempts = q.attempts /\ x.decision = q.decision /\ x.exit = q.exit /\ x.answer = q.answer
    BY <1>4 DEF SideRun
  <1>7. sidecar' = x
    BY <1>1, <1>2, <1>3, <1>4
  <1> QED BY <1>1, <1>2, <1>3, <1>5, <1>6, <1>7, NoRunOK, SidecarStep

LEMMA SideStopsInv ==
    ASSUME SidecarInv, NEW code \in Int, SideStops(code), sidecars' = sidecars,
           code = 0 => /\ sidecar.decision \in {"execute", "confirm", "abort"}
                       /\ sidecar.out => verdictFile' = sidecar.decision
    PROVE  SidecarInv'
  <1>1. PICK q \in SideRun : q = sidecar
    BY RunFields
  <1>2. PICK x : x = [q EXCEPT !.pc = "exited", !.exit = code]
    OBVIOUS
  <1>3. x \in SideRun
    BY <1>2 DEF SideRun
  <1>4. /\ x.pc = "exited" /\ x.attempts = q.attempts /\ x.decision = q.decision /\ x.exit = code /\ x.answer = q.answer
        /\ x.out = q.out
    BY <1>2 DEF SideRun
  <1>5. sidecar' = x /\ sidecars' \in Nat
    BY <1>1, <1>2, RunFields DEF SideStops
  <1>6. q.attempts <= 2 /\ Grounded(q.decision, q.answer)
    BY <1>1 DEF SidecarInv
  <1> QED BY <1>1, <1>3, <1>4, <1>5, <1>6, SidecarStep

(* A run that stays on its way, or gets its verdict.                       *)
Turned(q, pc, n, d, a) == [q EXCEPT !.pc = pc, !.attempts = n, !.decision = d, !.answer = a]

LEMMA OnItsWay ==
    ASSUME SidecarInv, sidecars' = sidecars, NEW pc \in {"asking", "verdict"}, NEW n \in 0..2, NEW d, NEW a \in JevAnswer,
           sidecar.pc \in {"state", "asking"},
           pc = "asking" => n <= 1 /\ d = "none",
           pc = "verdict" => d \in {"execute", "confirm", "abort", "skip"},
           Grounded(d, a),
           sidecar' = Turned(sidecar, pc, n, d, a)
    PROVE  SidecarInv'
  <1>1. PICK q \in SideRun : q = sidecar
    BY RunFields
  <1>2. PICK x : x = [q EXCEPT !.pc = pc, !.attempts = n, !.decision = d, !.answer = a]
    OBVIOUS
  <1>3. d \in {"none", "execute", "confirm", "abort", "skip"} /\ n \in Nat
    OBVIOUS
  <1>4. x \in SideRun
    <2>1. PICK y : y = [q EXCEPT !.pc = pc, !.attempts = n]
      OBVIOUS
    <2>2. y \in SideRun
      BY <1>3, <2>1 DEF SideRun
    <2>3. x = [y EXCEPT !.decision = d, !.answer = a]
      BY <1>2, <2>1 DEF SideRun
    <2> QED BY <1>3, <2>2, <2>3 DEF SideRun
  <1>5. /\ x.pc = pc /\ x.attempts = n /\ x.decision = d /\ x.exit = q.exit /\ x.answer = a
    BY <1>2 DEF SideRun
  <1>6. sidecar' = x /\ sidecars' \in Nat
    BY <1>1, <1>2, RunFields DEF Turned
  <1>7. q.exit = Missing /\ n <= 2 /\ n \in Nat
    BY <1>1 DEF SidecarInv
  <1> QED BY <1>4, <1>5, <1>6, <1>7, NoRunOK, SidecarStep

LEMMA AskingInv ==
    ASSUME SidecarInv, SkipsUnasked \/ AsksJev PROVE SidecarInv'
  <1>1. PICK q \in SideRun : q = sidecar
    BY RunFields
  <1>2. q.pc = "state" /\ q.attempts = 0 /\ q.decision = "none" /\ q.answer \in JevAnswer /\ sidecars' = sidecars
    BY <1>1, RunFields DEF SidecarInv, SkipsUnasked, AsksJev
  <1>3. CASE SkipsUnasked
    <2>1. sidecar' = [q EXCEPT !.pc = "verdict", !.decision = "skip"]
      BY <1>1, <1>3 DEF SkipsUnasked
    <2>2. [q EXCEPT !.pc = "verdict", !.decision = "skip"] =
             Turned(q, "verdict", 0, "skip", q.answer)
      BY <1>2 DEF SideRun, Turned
    <2>3. Grounded("skip", q.answer)
      BY DEF Grounded
    <2>4. sidecar' = Turned(sidecar, "verdict", 0, "skip", sidecar.answer)
      BY <1>1, <2>1, <2>2
    <2> QED BY <1>1, <1>2, <2>1, <2>3, <2>4, OnItsWay
  <1>4. CASE AsksJev
    <2>1. sidecar' = [q EXCEPT !.pc = "asking"]
      BY <1>1, <1>4 DEF AsksJev
    <2>2. [q EXCEPT !.pc = "asking"] =
             Turned(q, "asking", 0, "none", q.answer)
      BY <1>2 DEF SideRun, Turned
    <2>3. Grounded("none", q.answer)
      BY DEF Grounded
    <2>4. sidecar' = Turned(sidecar, "asking", 0, "none", sidecar.answer)
      BY <1>1, <2>1, <2>2
    <2> QED BY <1>1, <1>2, <2>1, <2>3, <2>4, OnItsWay
  <1> QED BY <1>3, <1>4

LEMMA JevAnswersInv ==
    ASSUME SidecarInv, NEW a \in JevAnswer, JevAnswers(a) PROVE SidecarInv'
  <1>1. PICK q \in SideRun : q = sidecar
    BY RunFields
  <1>2. q.pc = "asking" /\ q.attempts \in Nat /\ q.attempts <= 1 /\ sidecars' = sidecars
    BY <1>1, RunFields DEF SidecarInv, JevAnswers
  <1>3. PICK n \in 0..2 : n = q.attempts + 1
    BY <1>2
  <1>4. PICK d : d = Decide(a) /\ d \in {"execute", "confirm", "abort", "skip"} /\ Grounded(d, a)
    BY DecideIsGrounded
  <1>5. sidecar' = [q EXCEPT !.pc = "verdict", !.attempts = n, !.answer = a, !.decision = d]
    BY <1>1, <1>3, <1>4 DEF JevAnswers
  <1>6. [q EXCEPT !.pc = "verdict", !.attempts = n, !.answer = a, !.decision = d] =
           Turned(q, "verdict", n, d, a)
    BY DEF SideRun, Turned
  <1> QED BY <1>1, <1>2, <1>4, <1>5, <1>6, OnItsWay

LEMMA JevFailsInv ==
    ASSUME SidecarInv, NEW limited \in BOOLEAN, JevFails(limited) PROVE SidecarInv'
  <1>1. PICK q \in SideRun : q = sidecar
    BY RunFields
  <1>2. q.pc = "asking" /\ q.attempts \in Nat /\ q.attempts <= 1 /\ q.decision = "none" /\ q.answer \in JevAnswer
        /\ sidecars' = sidecars
    BY <1>1, RunFields DEF SidecarInv, JevFails
  <1>3. PICK n \in 0..2 : n = q.attempts + 1
    BY <1>2
  <1>4. CASE limited /\ Retries
    <2>1. sidecar' = [q EXCEPT !.attempts = n] /\ n <= 1
      BY <1>1, <1>2, <1>3, <1>4 DEF JevFails, Retries
    <2>2. [q EXCEPT !.attempts = n] =
             Turned(q, "asking", n, "none", q.answer)
      BY <1>2 DEF SideRun, Turned
    <2>3. Grounded("none", q.answer)
      BY DEF Grounded
    <2>4. sidecar' = Turned(sidecar, "asking", n, "none", sidecar.answer)
      BY <1>1, <2>1, <2>2
    <2> QED BY <1>1, <1>2, <2>1, <2>3, <2>4, OnItsWay
  <1>5. CASE ~(limited /\ Retries)
    <2>1. sidecar' = [q EXCEPT !.pc = "verdict", !.attempts = n, !.decision = "skip"]
      BY <1>1, <1>3, <1>5 DEF JevFails
    <2>2. [q EXCEPT !.pc = "verdict", !.attempts = n, !.decision = "skip"] =
             Turned(q, "verdict", n, "skip", q.answer)
      BY <1>2 DEF SideRun, Turned
    <2>3. Grounded("skip", q.answer)
      BY DEF Grounded
    <2>4. sidecar' = Turned(sidecar, "verdict", n, "skip", sidecar.answer)
      BY <1>1, <2>1, <2>2
    <2> QED BY <1>1, <1>2, <2>1, <2>3, <2>4, OnItsWay
  <1> QED BY <1>4, <1>5

LEMMA SideEndsInv ==
    ASSUME SidecarInv, SideEnds PROVE SidecarInv'
  <1>1. /\ sidecar.pc = "verdict" /\ SideStops(ExitCode) /\ sidecars' = sidecars
        /\ verdictFile' = IF sidecar.out THEN sidecar.decision ELSE verdictFile
    BY DEF SideEnds
  <1>2. sidecar.decision \in {"execute", "confirm", "abort", "skip"}
    BY <1>1, RunFields DEF SidecarInv
  <1>3. PICK code \in Int : code = ExitCode /\ (code = 0 => sidecar.decision # "skip")
    BY DEF ExitCode
  <1> QED BY <1>1, <1>2, <1>3, SideStopsInv

LEMMA SidecarNextInv ==
    ASSUME SidecarInv, SidecarNext \/ UNCHANGED sidevars PROVE SidecarInv'
  <1>1. CASE UNCHANGED sidevars
    BY <1>1 DEF sidevars, SidecarInv, Grounded
  <1>2. ASSUME NEW code \in {2, 3}, StateUnreadable(code) PROVE SidecarInv'
    BY <1>2, SideStopsInv DEF StateUnreadable
  <1>3. CASE OutputFails
    BY <1>3, SideStopsInv DEF OutputFails
  <1>4. CASE CallerReads \/ Killed
    BY <1>4, NoRunInv DEF CallerReads, Killed
  <1> DEFINE Answered == \E gate \in {Missing, 44, 45, 70}, choice \in {"none", "run", "ask", "abort"},
                            p \in {Missing, 45, 60}, c \in {Missing, NaN, 49, 50}, risk \in {Missing, 9, 34, 35, 51} :
                           JevAnswers([gate |-> gate, choice |-> choice, p |-> p, confidence |-> c, risk |-> risk])
  <1>5. CASE Answered
    <2>1. PICK gate \in {Missing, 44, 45, 70}, choice \in {"none", "run", "ask", "abort"},
               p \in {Missing, 45, 60}, c \in {Missing, NaN, 49, 50}, risk \in {Missing, 9, 34, 35, 51} :
                  JevAnswers([gate |-> gate, choice |-> choice, p |-> p, confidence |-> c, risk |-> risk])
      BY <1>5
    <2>2. Missing \in Int /\ NaN \in Int
      BY DEF Missing, NaN
    <2>3. [gate |-> gate, choice |-> choice, p |-> p, confidence |-> c, risk |-> risk] \in JevAnswer
      BY <2>2 DEF JevAnswer
    <2> QED BY <2>1, <2>3, JevAnswersInv
  <1>6. CASE SkipsUnasked \/ AsksJev
    BY <1>6, AskingInv
  <1>7. CASE SideEnds
    BY <1>7, SideEndsInv
  <1>8. ASSUME NEW out \in BOOLEAN, SideStart(out) PROVE SidecarInv'
    BY <1>8, SideStartInv
  <1>9. ASSUME NEW limited \in BOOLEAN, JevFails(limited) PROVE SidecarInv'
    BY <1>9, JevFailsInv
  <1>10. SidecarNext => \/ \E out \in BOOLEAN : SideStart(out)
                        \/ \E code \in {2, 3} : StateUnreadable(code)
                        \/ SkipsUnasked \/ AsksJev \/ SideEnds \/ OutputFails \/ CallerReads \/ Killed
                        \/ \E limited \in BOOLEAN : JevFails(limited)
                        \/ Answered
    BY Zenon DEF SidecarNext
  <1> HIDE DEF Answered
  <1> QED BY <1>1, <1>2, <1>3, <1>4, <1>5, <1>6, <1>7, <1>8, <1>9, <1>10

LEMMA JevInitInv == JevInit => CascadeOnlyLifts /\ SidecarInv
  <1> SUFFICES ASSUME JevInit PROVE CascadeOnlyLifts /\ SidecarInv
    OBVIOUS
  <1>1. routed = {} /\ sidecar = NoRun /\ sidecars = 0
    BY DEF JevInit
  <1> QED BY <1>1, NoRunOK DEF CascadeOnlyLifts, SidecarInv

LEMMA SidecarIsSafe == SidecarInv => ExitCodeIsTrue
  BY DEF SidecarInv, Grounded, ExitCodeIsTrue


-----------------------------------------------------------------------------
(* The parts together.                                                     *)

ExtensionsIInv == PluginsIInv /\ ChainsInv /\ ShadowIInv /\ CascadeOnlyLifts /\ SidecarInv

LEMMA ExtensionsInitial == ServingInit => ExtensionsIInv
  BY PluginsInitInv, ShadowInitInv, JevInitInv DEF ServingInit, ExtensionsIInv

\* What a step of the process is, to the plugins.
LEMMA PluginStep ==
    ASSUME [ServingNext]_ServingVars
    PROVE  /\ ManagerNext \/ UNCHANGED <<instances, lockQueue, ptask, slipped>>
           /\ (\E i \in TraceIds : StartTrace(i) \/ AddStep(i) \/ FinishTrace(i)) \/ UNCHANGED traces
  <1>1. ManagerNext \/ TraceNext \/ UNCHANGED plugvars
    BY DEF ServingNext, ServingVars
  <1>2. ManagerNext => UNCHANGED traces
    BY DEF ManagerNext, CallManager, Register, Load, EnableLoads, EnableStarts, HookEnds, Disable, Unload, Update
  <1> QED BY <1>1, <1>2 DEF TraceNext, plugvars

\* What it is to the advisor.
LEMMA JevStep ==
    ASSUME [ServingNext]_ServingVars
    PROVE  /\ ShadowNext \/ UNCHANGED shadowvars
           /\ RouteNext \/ UNCHANGED routevars
           /\ SidecarNext \/ UNCHANGED sidevars
  <1>1. ShadowNext \/ RouteNext \/ SidecarNext \/ UNCHANGED jevvars
    BY DEF ServingNext, ServingVars
  <1>2. ShadowNext => UNCHANGED routevars /\ UNCHANGED sidevars
    BY DEF ShadowNext
  <1>3. RouteNext => UNCHANGED shadowvars /\ UNCHANGED sidevars
    BY DEF RouteNext
  <1>4. SidecarNext => UNCHANGED shadowvars /\ UNCHANGED routevars
    BY DEF SidecarNext
  <1>5. UNCHANGED jevvars => UNCHANGED shadowvars /\ UNCHANGED routevars /\ UNCHANGED sidevars
    BY DEF jevvars
  <1> QED BY <1>1, <1>2, <1>3, <1>4, <1>5

LEMMA ExtensionsNext == ExtensionsIInv /\ [ServingNext]_ServingVars => ExtensionsIInv'
  <1> SUFFICES ASSUME ExtensionsIInv, [ServingNext]_ServingVars PROVE ExtensionsIInv'
    OBVIOUS
  <1> USE DEF ExtensionsIInv
  <1>1. PluginsIInv'
    BY PluginStep, ManagerInv
  <1>2. ChainsInv'
    <2>1. CASE UNCHANGED traces
      BY <2>1 DEF ChainsInv
    <2> QED BY <2>1, PluginStep, TracesInv
  <1>3. ShadowIInv'
    BY JevStep, ShadowNextInv
  <1>4. CascadeOnlyLifts'
    BY JevStep, CascadeInv
  <1>5. SidecarInv'
    BY JevStep, SidecarNextInv
  <1> QED BY <1>1, <1>2, <1>3, <1>4, <1>5

LEMMA ExtensionsAreSafe == ExtensionsIInv => ExtensionsSound
  BY PluginsAreSafe, ShadowIsSafe, SidecarIsSafe DEF ExtensionsIInv, ExtensionsSound, JevInv

(* A live plugin has its object and what it depends on, no task waits for  *)
(* the manager's lock but in its queue, and a trace is one chain; the      *)
(* advisor loses no permit, logs an observation once, only lifts a verdict *)
(* of the rules, and its sidecar exits with 0 only with a verdict, which   *)
(* is in the file when one was asked for.                                  *)
THEOREM ExtensionsAreSound == ServingSpec => []ExtensionsSound
  BY ExtensionsInitial, ExtensionsNext, ExtensionsAreSafe, PTL DEF ServingSpec, ServingVars


-----------------------------------------------------------------------------
(* The pool of connections.                                                *)

PoolRow == [open : BOOLEAN, lent : Int]
Borrower == [pc : {"out", "ensure", "create", "getconn", "probe", "body", "commit", "rollback", "release", "discard"},
             pool : Nat, attempt : Int, tx : Nat]
Wrapped == {"body", "commit", "rollback", "release", "discard"}
Bodies == [1..MaxBodies -> [done : BOOLEAN, said : {"none", "ok", "error"}]]

PoolTypes ==
    /\ pools \in Seq(PoolRow) /\ current = Len(pools) /\ current \in Nat
    /\ thread \in [PThreads -> Borrower]
    /\ gauge \in Int /\ bodies \in 0..MaxBodies
    /\ outcome \in Bodies

\* A thread has a lender exactly while it holds a connection, and it asks for
\* one only after a pool was made.
LendersInv ==
    \A t \in PThreads : /\ IF thread[t].pc \in Wrapped \cup {"probe"} THEN thread[t].pool \in 1..current
                                                                      ELSE thread[t].pool = 0
                        /\ thread[t].pc = "getconn" => current # 0

\* A transaction under way is one thread's own and its caller was not told of
\* it; what is about to be told as done is done.
BodiesInv ==
    /\ \A t \in PThreads : thread[t].pc # "out" => /\ thread[t].tx \in 1..bodies
                                                   /\ outcome[thread[t].tx].said # "ok"
                                                   /\ thread[t].pc = "release" => outcome[thread[t].tx].done
    /\ \A t, u \in PThreads : /\ t # u /\ thread[t].pc # "out" /\ thread[u].pc # "out"
                              => thread[t].tx # thread[u].tx
    /\ \A b \in 1..MaxBodies : b > bodies => outcome[b].said # "ok"

PoolIInv == PoolTypes /\ LendersInv /\ BodiesInv /\ PgPoolInv

LEMMA PoolInitInv == PgPoolInit => PoolIInv
  <1> SUFFICES ASSUME PgPoolInit PROVE PoolIInv
    OBVIOUS
  <1> USE PgPoolAssumption DEF PgPoolInit
  <1>0. thread \in [PThreads -> Borrower] /\ \A t \in PThreads : thread[t] = Unborrowed
    BY DEF Borrower, Unborrowed
  <1>1. PoolTypes
    BY <1>0 DEF PoolTypes, Bodies
  <1>2. LendersInv /\ BodiesInv
    BY <1>0 DEF LendersInv, BodiesInv, Unborrowed, Wrapped
  <1>3. LentIsHeld /\ SuccessIsCommitted
    BY DEF LentIsHeld, SuccessIsCommitted
  <1>4. {t \in PThreads : thread[t].pc \in {"body", "commit", "rollback", "release", "discard"}} = {}
    BY <1>0 DEF Unborrowed
  <1>5. GaugeIsTrue
    BY <1>4, FS_EmptySet DEF GaugeIsTrue
  <1> QED BY <1>1, <1>2, <1>3, <1>5 DEF PoolIInv, PgPoolInv

\* The wrappers in use.
Users == {t \in PThreads : thread[t].pc \in Wrapped}

(* One thread moves: what becomes of the holders and the wrappers.         *)
LEMMA ThreadMoves ==
    ASSUME PoolTypes, LendersInv, NEW t \in PThreads, NEW w \in Borrower, thread' = [thread EXCEPT ![t] = w]
    PROVE  /\ thread' \in [PThreads -> Borrower] /\ thread'[t] = w
           /\ \A u \in PThreads : u # t => thread'[u] = thread[u]
           /\ Users' = IF w.pc \in Wrapped THEN Users \cup {t} ELSE Users \ {t}
           /\ \A p : Holders(p)' = IF w.pool = p /\ w.pc # "ensure" THEN Holders(p) \cup {t} ELSE Holders(p) \ {t}
  <1>1. /\ thread' \in [PThreads -> Borrower] /\ thread'[t] = w
        /\ \A u \in PThreads : u # t => thread'[u] = thread[u]
    BY DEF PoolTypes
  <1>2. Users' = IF w.pc \in Wrapped THEN Users \cup {t} ELSE Users \ {t}
    BY <1>1 DEF Users
  <1>3. \A p : Holders(p)' = IF w.pool = p /\ w.pc # "ensure" THEN Holders(p) \cup {t} ELSE Holders(p) \ {t}
    BY <1>1 DEF Holders
  <1> QED BY <1>1, <1>2, <1>3

LEMMA PoolCounts ==
    /\ IsFiniteSet(Users) /\ Cardinality(Users) \in Nat
    /\ \A p : IsFiniteSet(Holders(p)) /\ Cardinality(Holders(p)) \in Nat
  <1>1. Users \subseteq PThreads /\ \A p : Holders(p) \subseteq PThreads
    BY DEF Users, Holders
  <1> QED BY <1>1, SubsetCount, PgPoolAssumption

(* The gauge after a thread moved.                                         *)
LEMMA GaugeMoves ==
    ASSUME GaugeIsTrue, gauge \in Int, NEW t \in PThreads, NEW pc,
           Users' = IF pc \in Wrapped THEN Users \cup {t} ELSE Users \ {t},
           gauge' = gauge + (IF pc \in Wrapped THEN 1 ELSE 0) - (IF t \in Users THEN 1 ELSE 0)
    PROVE  GaugeIsTrue' /\ gauge' \in Int
  <1>1. gauge = Cardinality(Users)
    BY DEF GaugeIsTrue, Users, Wrapped
  <1>2. PICK U : U = Users /\ IsFiniteSet(U) /\ gauge = Cardinality(U)
    BY <1>1, PoolCounts
  <1>3. PICK V : V = Users'
    OBVIOUS
  <1>4. gauge' = Cardinality(V)
    <2>1. CASE pc \in Wrapped /\ t \notin U
      BY <1>2, <1>3, <2>1, AddOneCount
    <2>2. CASE pc \notin Wrapped /\ t \in U
      BY <1>2, <1>3, <2>2, DropOneCount
    <2>3. CASE pc \in Wrapped <=> t \in U
      <3>1. V = U
        BY <1>2, <1>3, <2>3
      <3> QED BY <1>2, <2>3, <3>1
    <2> QED BY <2>1, <2>2, <2>3
  <1>5. V = {u \in PThreads : thread'[u].pc \in {"body", "commit", "rollback", "release", "discard"}}
    BY <1>3 DEF Users, Wrapped
  <1>6. GaugeIsTrue'
    BY <1>4, <1>5 DEF GaugeIsTrue
  <1> QED BY <1>6


(* The connections lent after a thread moved: one more where it holds one  *)
(* it did not, one less where it no longer does, none of a new pool.       *)
Holding(w, p) == w.pool = p /\ w.pc # "ensure"
LentBy(w, t, p) == pools[p].lent + (IF Holding(w, p) THEN 1 ELSE 0) - (IF t \in Holders(p) THEN 1 ELSE 0)

LEMMA LentMoves ==
    ASSUME LentIsHeld, pools \in Seq(PoolRow), NEW t \in PThreads, NEW w,
           \A p : Holders(p)' = IF Holding(w, p) THEN Holders(p) \cup {t} ELSE Holders(p) \ {t},
           \A p \in DOMAIN pools' : pools'[p].open =>
                \/ p \in DOMAIN pools /\ pools[p].open /\ pools'[p].lent = LentBy(w, t, p)
                \/ pools'[p].lent = 0 /\ Holders(p) = {} /\ ~Holding(w, p)
    PROVE  LentIsHeld'
  <1> SUFFICES ASSUME NEW p \in DOMAIN pools', pools'[p].open PROVE pools'[p].lent = Cardinality(Holders(p)')
    BY DEF LentIsHeld
  <1>1. PICK H : H = Holders(p) /\ IsFiniteSet(H) /\ Cardinality(H) \in Nat
    BY PoolCounts
  <1>2. PICK G : G = Holders(p)' /\ G = IF Holding(w, p) THEN H \cup {t} ELSE H \ {t}
    BY <1>1
  <1>3. CASE p \in DOMAIN pools /\ pools[p].open /\ pools'[p].lent = LentBy(w, t, p)
    <2>1. pools[p].lent = Cardinality(H) /\ pools'[p].lent = Cardinality(H) + (IF Holding(w, p) THEN 1 ELSE 0) - (IF t \in H THEN 1 ELSE 0)
      BY <1>1, <1>3 DEF LentIsHeld, LentBy
    <2>2. CASE Holding(w, p) /\ t \notin H
      BY <1>1, <1>2, <2>1, <2>2, AddOneCount
    <2>3. CASE ~Holding(w, p) /\ t \in H
      BY <1>1, <1>2, <2>1, <2>3, DropOneCount
    <2>4. CASE Holding(w, p) /\ t \in H
      <3>1. Holders(p)' = H
        BY <1>2, <2>4
      <3>2. pools'[p].lent = Cardinality(H)
        BY <1>1, <2>1, <2>4
      <3> QED BY ONLY <3>1, <3>2, Zenon
    <2>5. CASE ~Holding(w, p) /\ t \notin H
      <3>1. Holders(p)' = H
        BY <1>2, <2>5
      <3>2. pools'[p].lent = Cardinality(H)
        BY <1>1, <2>1, <2>5
      <3> QED BY ONLY <3>1, <3>2, Zenon
    <2> QED BY <2>2, <2>3, <2>4, <2>5
  <1>4. CASE pools'[p].lent = 0 /\ Holders(p) = {} /\ ~Holding(w, p)
    <2>1. G = {}
      BY <1>1, <1>2, <1>4
    <2> QED BY <1>2, <1>4, <2>1, FS_EmptySet
  <1> QED BY <1>3, <1>4

(* A thread holds a connection of its lender and of no other pool.         *)
LEMMA HoldsLender ==
    ASSUME PoolTypes, LendersInv, NEW t \in PThreads, NEW p \in Nat, p # 0
    PROVE  t \in Holders(p) <=> thread[t].pool = p
  BY DEF LendersInv, Holders, Wrapped

(* What a step of a thread has to show.                                    *)
LEMMA PoolStep ==
    ASSUME PoolIInv, NEW t \in PThreads, NEW w \in Borrower, thread' = [thread EXCEPT ![t] = w],
           pools' \in Seq(PoolRow), current' = Len(pools'), current' \in Nat, current' >= current,
           IF w.pc \in Wrapped \cup {"probe"} THEN w.pool \in 1..current' ELSE w.pool = 0,
           w.pc = "getconn" => current' # 0,
           gauge' = gauge + (IF w.pc \in Wrapped THEN 1 ELSE 0) - (IF thread[t].pc \in Wrapped THEN 1 ELSE 0),
           \A p \in DOMAIN pools' : pools'[p].open =>
                \/ p \in DOMAIN pools /\ pools[p].open /\ pools'[p].lent = LentBy(w, t, p)
                \/ pools'[p].lent = 0 /\ p > current /\ w.pool # p,
           bodies' \in 0..MaxBodies, outcome' \in Bodies, BodiesInv', SuccessIsCommitted'
    PROVE  PoolIInv'
  <1> USE DEF PoolIInv, PgPoolInv
  <1>1. /\ thread' \in [PThreads -> Borrower] /\ thread'[t] = w
        /\ \A u \in PThreads : u # t => thread'[u] = thread[u]
        /\ Users' = IF w.pc \in Wrapped THEN Users \cup {t} ELSE Users \ {t}
        /\ \A p : Holders(p)' = IF Holding(w, p) THEN Holders(p) \cup {t} ELSE Holders(p) \ {t}
    BY ThreadMoves DEF Holding
  <1>2. gauge \in Int /\ current \in Nat /\ current = Len(pools) /\ pools \in Seq(PoolRow)
    BY DEF PoolTypes
  <1>3. t \in Users <=> thread[t].pc \in Wrapped
    BY DEF Users
  <1>5. GaugeIsTrue' /\ gauge' \in Int
    BY <1>1, <1>2, <1>3, GaugeMoves
  <1>6. LendersInv'
    <2> SUFFICES ASSUME NEW u \in PThreads
                 PROVE  /\ IF thread'[u].pc \in Wrapped \cup {"probe"} THEN thread'[u].pool \in 1..current' ELSE thread'[u].pool = 0
                        /\ thread'[u].pc = "getconn" => current' # 0
      BY DEF LendersInv
    <2>1. CASE u = t
      BY <1>1, <2>1
    <2>2. CASE u # t
      BY <1>1, <1>2, <2>2 DEF LendersInv
    <2> QED BY <2>1, <2>2
  <1>7. PoolTypes'
    BY <1>1, <1>5 DEF PoolTypes
  <1>8. LentIsHeld'
    <2>1. ASSUME NEW p \in Nat, p > current PROVE Holders(p) = {}
      BY <1>2, <2>1 DEF LendersInv, Holders
    <2>2. ASSUME NEW p \in DOMAIN pools', pools'[p].open
          PROVE  \/ p \in DOMAIN pools /\ pools[p].open /\ pools'[p].lent = LentBy(w, t, p)
                 \/ pools'[p].lent = 0 /\ Holders(p) = {} /\ ~Holding(w, p)
      BY <2>1, <2>2 DEF Holding
    <2> QED BY <1>1, <1>2, <2>2, LentMoves
  <1> QED BY <1>5, <1>6, <1>7, <1>8


(* The transactions: a thread goes on with its own, or is done with it.    *)
LEMMA BodyGoesOn ==
    ASSUME PoolIInv, NEW t \in PThreads, NEW w \in Borrower, thread' = [thread EXCEPT ![t] = w],
           UNCHANGED <<outcome, bodies>>, thread[t].pc # "out", w.tx = thread[t].tx, w.pc # "release"
    PROVE  bodies' \in 0..MaxBodies /\ outcome' \in Bodies /\ BodiesInv' /\ SuccessIsCommitted'
  <1> USE DEF PoolIInv, PgPoolInv
  <1>1. /\ thread'[t] = w /\ \A u \in PThreads : u # t => thread'[u] = thread[u]
    BY ThreadMoves
  <1>2. BodiesInv'
    BY <1>1 DEF BodiesInv
  <1> QED BY <1>2 DEF PoolTypes, SuccessIsCommitted

LEMMA OutcomeMoves ==
    ASSUME PoolIInv, NEW t \in PThreads, thread[t].pc # "out",
           NEW o \in [done : BOOLEAN, said : {"none", "ok", "error"}], outcome' = [outcome EXCEPT ![thread[t].tx] = o]
    PROVE  /\ thread[t].tx \in 1..MaxBodies /\ thread[t].tx <= bodies
           /\ outcome' \in Bodies /\ outcome'[thread[t].tx] = o
           /\ \A b \in 1..MaxBodies : b # thread[t].tx => outcome'[b] = outcome[b]
  <1>1. thread[t].tx \in 1..MaxBodies /\ thread[t].tx <= bodies
    BY PgPoolAssumption DEF PoolIInv, PoolTypes, BodiesInv
  <1>2. outcome \in Bodies
    BY DEF PoolIInv, PoolTypes
  <1> QED BY <1>1, <1>2 DEF Bodies

LEMMA BodyEnds ==
    ASSUME PoolIInv, NEW t \in PThreads, NEW said \in {"ok", "error"}, Finishes(t, said), bodies' = bodies,
           thread[t].pc # "out", said = "ok" => thread[t].pc = "release"
    PROVE  bodies' \in 0..MaxBodies /\ outcome' \in Bodies /\ BodiesInv' /\ SuccessIsCommitted'
  <1> USE DEF PoolIInv, PgPoolInv
  <1>1. Unborrowed \in Borrower /\ Unborrowed.pc = "out"
    BY DEF Unborrowed, Borrower
  <1>2. /\ thread'[t] = Unborrowed /\ \A u \in PThreads : u # t => thread'[u] = thread[u]
    BY <1>1, ThreadMoves DEF Finishes
  <1>3. thread[t].tx \in 1..MaxBodies /\ outcome \in Bodies
    BY PgPoolAssumption DEF PoolTypes, BodiesInv
  <1>4. PICK r \in [done : BOOLEAN, said : {"none", "ok", "error"}] : r = outcome[thread[t].tx]
    BY <1>3 DEF Bodies
  <1>5. PICK o : o = [r EXCEPT !.said = said]
    OBVIOUS
  <1>6. o \in [done : BOOLEAN, said : {"none", "ok", "error"}] /\ o.said = said /\ o.done = r.done
    BY <1>5
  <1>7. outcome' = [outcome EXCEPT ![thread[t].tx] = o]
    BY <1>4, <1>5 DEF Finishes
  <1>8. /\ thread[t].tx <= bodies /\ outcome' \in Bodies /\ outcome'[thread[t].tx] = o
        /\ \A b \in 1..MaxBodies : b # thread[t].tx => outcome'[b] = outcome[b]
    BY <1>6, <1>7, OutcomeMoves
  <1>9. bodies \in 0..MaxBodies
    BY DEF PoolTypes
  <1>10. BodiesInv'
    <2>1. ASSUME NEW u \in PThreads, thread'[u].pc # "out"
          PROVE  /\ u # t /\ thread'[u] = thread[u] /\ thread[u].tx \in 1..MaxBodies
                 /\ outcome'[thread[u].tx] = outcome[thread[u].tx]
      BY <1>1, <1>2, <1>8, <1>9, <2>1, PgPoolAssumption DEF BodiesInv
    <2>2. \A b \in 1..MaxBodies : b > bodies' => outcome'[b].said # "ok"
      BY <1>8, <1>3, <1>9 DEF BodiesInv
    <2> QED BY <2>1, <2>2 DEF BodiesInv
  <1>11. SuccessIsCommitted'
    <2> SUFFICES ASSUME NEW b \in 1..MaxBodies, outcome'[b].said = "ok" PROVE outcome'[b].done
      BY DEF SuccessIsCommitted
    <2>1. CASE b = thread[t].tx
      BY <1>4, <1>6, <1>8, <2>1 DEF BodiesInv
    <2>2. CASE b # thread[t].tx
      BY <1>8, <2>2 DEF SuccessIsCommitted
    <2> QED BY <2>1, <2>2
  <1> QED BY <1>8, <1>9, <1>10, <1>11

(* A thread that holds nothing and goes on holding nothing, or ends.       *)
LEMMA HoldsNothing ==
    ASSUME PoolIInv, NEW t \in PThreads, NEW w \in Borrower, w.pool = 0, thread[t].pool = 0,
           NEW p \in DOMAIN pools
    PROVE  LentBy(w, t, p) = pools[p].lent
  <1>0. pools \in Seq(PoolRow) /\ p \in 1..Len(pools)
    BY DEF PoolIInv, PoolTypes
  <1>1. p \in Nat /\ p # 0 /\ pools[p].lent \in Int
    <2>1. pools[p] \in PoolRow
      BY <1>0, ElementOfSeq
    <2> QED BY <1>0, <2>1 DEF PoolRow
  <1>2. t \notin Holders(p) /\ ~Holding(w, p)
    BY <1>1 DEF Holders, Holding
  <1> QED BY <1>1, <1>2 DEF LentBy

LEMMA UnborrowedIs ==
    /\ Unborrowed \in Borrower /\ Unborrowed.pc = "out" /\ Unborrowed.pool = 0
    /\ "out" \notin Wrapped \cup {"probe"}
  BY DEF Unborrowed, Borrower, Wrapped

LEMMA ThreadFields ==
    ASSUME PoolIInv, NEW t \in PThreads
    PROVE  /\ thread[t] \in Borrower /\ thread[t].tx \in Nat /\ thread[t].attempt \in Int /\ thread[t].pool \in Nat
           /\ pools \in Seq(PoolRow) /\ current = Len(pools) /\ current \in Nat /\ gauge \in Int
           /\ IF thread[t].pc \in Wrapped \cup {"probe"} THEN thread[t].pool \in 1..current ELSE thread[t].pool = 0
           /\ DOMAIN pools = 1..current
  BY DEF PoolIInv, PoolTypes, LendersInv, Borrower


LEMMA GetConnectionInv ==
    ASSUME PoolIInv, NEW t \in PThreads, GetConnection(t) PROVE PoolIInv'
  <1>1. /\ thread[t].pc = "out" /\ bodies < MaxBodies /\ bodies' = bodies + 1
        /\ UNCHANGED <<pools, current, available, gauge, outcome, pgFaults>>
    BY DEF GetConnection
  <1>2. bodies \in 0..MaxBodies /\ outcome \in Bodies /\ MaxBodies \in Nat
    BY PgPoolAssumption DEF PoolIInv, PoolTypes
  <1>3. PICK w : w = [Unborrowed EXCEPT !.pc = "ensure", !.tx = bodies']
    OBVIOUS
  <1>4. w \in Borrower /\ w.pc = "ensure" /\ w.tx = bodies + 1 /\ w.pool = 0
    <2>1. PICK n \in Nat : n = bodies' /\ n = bodies + 1
      BY <1>1, <1>2
    <2>2. w = [pc |-> "ensure", pool |-> 0, attempt |-> 0, tx |-> n]
      BY <1>3, <2>1 DEF Unborrowed
    <2> QED BY <2>1, <2>2 DEF Borrower
  <1>5. thread' = [thread EXCEPT ![t] = w]
    BY <1>3 DEF GetConnection
  <1>6. thread'[t] = w /\ \A u \in PThreads : u # t => thread'[u] = thread[u]
    BY <1>4, <1>5, ThreadMoves DEF PoolIInv
  <1>7. BodiesInv'
    <2>1. \A u \in PThreads : thread[u].pc # "out" => thread[u].tx \in 1..bodies /\ thread[u].tx # bodies + 1
      BY <1>2 DEF PoolIInv, BodiesInv
    <2>2. outcome[bodies + 1].said # "ok" /\ \A b \in 1..MaxBodies : b > bodies' => outcome'[b].said # "ok"
      BY <1>1, <1>2 DEF PoolIInv, BodiesInv
    <2>3. ASSUME NEW u \in PThreads, thread'[u].pc # "out"
          PROVE  /\ thread'[u].tx \in 1..bodies' /\ outcome'[thread'[u].tx].said # "ok"
                 /\ thread'[u].pc = "release" => outcome'[thread'[u].tx].done
      <3>1. CASE u = t
        BY <1>1, <1>2, <1>4, <1>6, <2>2, <3>1
      <3>2. CASE u # t
        BY <1>1, <1>2, <1>6, <2>1, <2>3, <3>2 DEF PoolIInv, BodiesInv
      <3> QED BY <3>1, <3>2
    <2>4. ASSUME NEW u \in PThreads, NEW v \in PThreads, u # v, thread'[u].pc # "out", thread'[v].pc # "out"
          PROVE  thread'[u].tx # thread'[v].tx
      <3>1. CASE u = t \/ v = t
        BY <1>4, <1>6, <2>1, <2>4, <3>1
      <3>2. CASE u # t /\ v # t
        BY <1>6, <2>4, <3>2 DEF PoolIInv, BodiesInv
      <3> QED BY <3>1, <3>2
    <2> QED BY <2>2, <2>3, <2>4 DEF BodiesInv
  <1>8. SuccessIsCommitted'
    BY <1>1 DEF PoolIInv, PgPoolInv, SuccessIsCommitted
  <1>9. /\ pools \in Seq(PoolRow) /\ current = Len(pools) /\ current \in Nat /\ gauge \in Int /\ thread[t].pool = 0
        /\ "out" \notin Wrapped \cup {"probe"} /\ "ensure" \notin Wrapped \cup {"probe"}
    BY <1>1, ThreadFields DEF Wrapped
  <1>10. \A p \in DOMAIN pools : LentBy(w, t, p) = pools[p].lent
    BY <1>4, <1>9, HoldsNothing
  <1>11. gauge' = gauge + (IF w.pc \in Wrapped THEN 1 ELSE 0) - (IF thread[t].pc \in Wrapped THEN 1 ELSE 0)
    BY <1>1, <1>4, <1>9
  <1>12. \A p \in DOMAIN pools' : p \in DOMAIN pools /\ pools'[p] = pools[p] /\ pools'[p].lent = LentBy(w, t, p)
    BY <1>1, <1>10
  <1>13. bodies' \in 0..MaxBodies /\ outcome' \in Bodies /\ current' >= current
    BY <1>1, <1>2, <1>9
  <1> QED BY <1>1, <1>4, <1>5, <1>7, <1>8, <1>9, <1>11, <1>12, <1>13, PoolStep

LEMMA GoesIs ==
    ASSUME PoolIInv, NEW t \in PThreads, NEW pc, Goes(t, pc), pc \in {"ensure", "create", "getconn", "probe"} \cup Wrapped
    PROVE  \E w \in Borrower : /\ w.pc = pc /\ w.pool = thread[t].pool /\ w.tx = thread[t].tx
                               /\ thread' = [thread EXCEPT ![t] = w]
  <1>1. PICK q \in Borrower : q = thread[t]
    BY ThreadFields
  <1>2. PICK w : w = [q EXCEPT !.pc = pc]
    OBVIOUS
  <1>3. w \in Borrower /\ w.pc = pc /\ w.pool = q.pool /\ w.tx = q.tx
    BY <1>2 DEF Borrower, Wrapped
  <1>4. thread' = [thread EXCEPT ![t] = w]
    BY <1>1, <1>2 DEF Goes
  <1> QED BY <1>1, <1>3, <1>4

LEMMA EnsurePoolInv ==
    ASSUME PoolIInv, NEW t \in PThreads, EnsurePool(t) PROVE PoolIInv'
  <1>1. PICK pc \in {"getconn", "create"} : Goes(t, pc) /\ (pc = "getconn" => current # 0)
    BY DEF EnsurePool
  <1>2. PICK w \in Borrower : /\ w.pc = pc /\ w.pool = thread[t].pool /\ w.tx = thread[t].tx
                              /\ thread' = [thread EXCEPT ![t] = w]
    BY <1>1, GoesIs
  <1>3. thread[t].pc = "ensure" /\ UNCHANGED <<pools, current, available, gauge, outcome, pgFaults, bodies>>
    BY DEF EnsurePool
  <1>4. bodies' \in 0..MaxBodies /\ outcome' \in Bodies /\ BodiesInv' /\ SuccessIsCommitted'
    BY <1>2, <1>3, BodyGoesOn
  <1>5. /\ pools \in Seq(PoolRow) /\ current = Len(pools) /\ current \in Nat /\ gauge \in Int /\ thread[t].pool = 0
        /\ "ensure" \notin Wrapped /\ pc \notin Wrapped \cup {"probe"}
    BY <1>3, ThreadFields DEF Wrapped
  <1>6. \A p \in DOMAIN pools : LentBy(w, t, p) = pools[p].lent
    BY <1>2, <1>5, HoldsNothing
  <1>7. gauge' = gauge + (IF w.pc \in Wrapped THEN 1 ELSE 0) - (IF thread[t].pc \in Wrapped THEN 1 ELSE 0)
    BY <1>2, <1>3, <1>5
  <1>8. \A p \in DOMAIN pools' : p \in DOMAIN pools /\ pools'[p] = pools[p] /\ pools'[p].lent = LentBy(w, t, p)
    BY <1>3, <1>6
  <1>9. /\ w.pool = 0 /\ w.pc \notin Wrapped \cup {"probe"} /\ (w.pc = "getconn" => current' # 0)
        /\ pools' \in Seq(PoolRow) /\ current' = Len(pools') /\ current' \in Nat /\ current' >= current
    BY <1>1, <1>2, <1>3, <1>5
  <1> QED BY <1>2, <1>4, <1>7, <1>8, <1>9, PoolStep

LEMMA ClosedPoolsAre ==
    ASSUME PoolIInv
    PROVE  /\ ClosedPools \in Seq(PoolRow) /\ Len(ClosedPools) = current
           /\ DOMAIN ClosedPools = 1..current /\ \A p \in DOMAIN ClosedPools : ~ClosedPools[p].open
  <1>1. pools \in Seq(PoolRow) /\ current = Len(pools) /\ current \in Nat /\ DOMAIN pools = 1..current
    BY DEF PoolIInv, PoolTypes
  <1>2. PICK C : C = ClosedPools
    OBVIOUS
  <1>3. C = [p \in 1..current |-> [pools[p] EXCEPT !.open = FALSE]]
    BY <1>1, <1>2 DEF ClosedPools
  <1>4. ASSUME NEW p \in 1..current PROVE C[p] \in PoolRow /\ ~C[p].open
    <2>1. PICK q \in PoolRow : q = pools[p]
      BY <1>1, ElementOfSeq
    <2>2. C[p] = [q EXCEPT !.open = FALSE]
      BY <1>3, <2>1
    <2> QED BY <2>2 DEF PoolRow
  <1>5. C \in Seq(PoolRow) /\ Len(C) = current
    BY <1>1, <1>3, <1>4
  <1> QED BY <1>2, <1>3, <1>4, <1>5


LEMMA CreatePoolInv ==
    ASSUME PoolIInv, NEW t \in PThreads, CreatePool(t) PROVE PoolIInv'
  <1>1. thread[t].pc = "create" /\ UNCHANGED <<gauge, bodies>>
    BY DEF CreatePool
  <1>2. /\ current \in Nat /\ gauge \in Int /\ thread[t].pool = 0 /\ "create" \notin Wrapped \cup {"probe"}
        /\ "getconn" \notin Wrapped \cup {"probe"} /\ "out" \notin Wrapped \cup {"probe"}
    BY <1>1, ThreadFields DEF Wrapped
  <1>3. PICK C \in Seq(PoolRow) : C = ClosedPools /\ Len(C) = current /\ \A p \in 1..current : ~C[p].open
    BY ClosedPoolsAre
  <1>4. CASE /\ pools' = Append(ClosedPools, [open |-> TRUE, lent |-> 0])
             /\ current' = current + 1 /\ Goes(t, "getconn") /\ outcome' = outcome
    <2>1. PICK w \in Borrower : /\ w.pc = "getconn" /\ w.pool = thread[t].pool /\ w.tx = thread[t].tx
                                /\ thread' = [thread EXCEPT ![t] = w]
      BY <1>4, GoesIs
    <2>2. bodies' \in 0..MaxBodies /\ outcome' \in Bodies /\ BodiesInv' /\ SuccessIsCommitted'
      BY <1>1, <1>4, <2>1, BodyGoesOn
    <2>3. PICK r : r = [open |-> TRUE, lent |-> 0] /\ r \in PoolRow
      <3>1. [open |-> TRUE, lent |-> 0] \in PoolRow
        BY DEF PoolRow
      <3> QED BY <3>1
    <2>4. pools' = Append(C, r)
      BY <1>3, <1>4, <2>3
    <2>5. /\ pools' \in Seq(PoolRow) /\ Len(pools') = current + 1 /\ DOMAIN pools' = 1..(current + 1)
          /\ pools'[current + 1] = r /\ \A p \in 1..current : pools'[p] = C[p]
      BY <1>2, <1>3, <2>3, <2>4, AppendProperties
    <2>6. \A p \in DOMAIN pools' : pools'[p].open => pools'[p].lent = 0 /\ p > current /\ w.pool # p
      BY <1>2, <1>3, <2>1, <2>3, <2>5
    <2>7. gauge' = gauge + (IF w.pc \in Wrapped THEN 1 ELSE 0) - (IF thread[t].pc \in Wrapped THEN 1 ELSE 0)
      BY <1>1, <1>2, <2>1
    <2>8. /\ w.pool = 0 /\ w.pc \notin Wrapped \cup {"probe"} /\ (w.pc = "getconn" => current' # 0)
          /\ current' = Len(pools') /\ current' \in Nat /\ current' >= current
      BY <1>2, <1>4, <2>1, <2>5
    <2> QED BY <2>1, <2>2, <2>5, <2>6, <2>7, <2>8, PoolStep
  <1>5. CASE pools' = ClosedPools /\ Finishes(t, "error") /\ current' = current
    <2>1. thread' = [thread EXCEPT ![t] = Unborrowed]
      BY <1>5 DEF Finishes
    <2>2. bodies' \in 0..MaxBodies /\ outcome' \in Bodies /\ BodiesInv' /\ SuccessIsCommitted'
      BY <1>1, <1>5, BodyEnds
    <2>3. /\ pools' \in Seq(PoolRow) /\ current' = Len(pools') /\ current' \in Nat /\ current' >= current
          /\ \A p \in DOMAIN pools' : ~pools'[p].open
      BY <1>2, <1>3, <1>5
    <2>4. gauge' = gauge + (IF Unborrowed.pc \in Wrapped THEN 1 ELSE 0) - (IF thread[t].pc \in Wrapped THEN 1 ELSE 0)
      BY <1>1, <1>2, UnborrowedIs
    <2> QED BY <2>1, <2>2, <2>3, <2>4, UnborrowedIs, PoolStep
  <1> QED BY <1>4, <1>5 DEF CreatePool

(* A thread that gives up its turn holds nothing: it goes back to look for *)
(* a pool, or its caller gets the error.                                   *)
LEMMA RetryIs ==
    ASSUME PoolIInv, NEW t \in PThreads, thread[t].pc \in {"getconn", "probe"}, Retry(t), bodies' = bodies
    PROVE  /\ \E w \in Borrower : w.pool = 0 /\ w.pc \in {"out", "ensure"} /\ thread' = [thread EXCEPT ![t] = w]
           /\ bodies' \in 0..MaxBodies /\ outcome' \in Bodies /\ BodiesInv' /\ SuccessIsCommitted'
  <1>1. CASE Finishes(t, "error")
    <2>1. thread' = [thread EXCEPT ![t] = Unborrowed]
      BY <1>1 DEF Finishes
    <2> QED BY <1>1, <2>1, UnborrowedIs, BodyEnds
  <1>2. CASE /\ thread' = [thread EXCEPT ![t].pc = "ensure", ![t].pool = 0, ![t].attempt = @ + 1]
             /\ outcome' = outcome
    <2>1. PICK q \in Borrower : q = thread[t] /\ thread \in [PThreads -> Borrower]
      BY DEF PoolIInv, PoolTypes
    <2>2. PICK n \in Int : n = q.attempt + 1
      BY DEF Borrower
    <2>3. PICK w : w = [q EXCEPT !.pc = "ensure", !.pool = 0, !.attempt = n]
      OBVIOUS
    <2>4. w \in Borrower /\ w.pc = "ensure" /\ w.pool = 0 /\ w.tx = q.tx
      BY <2>3 DEF Borrower
    <2>5. thread' = [thread EXCEPT ![t] = w]
      BY <1>2, <2>1, <2>2, <2>3
    <2> QED BY <1>2, <2>1, <2>4, <2>5, BodyGoesOn
  <1> QED BY <1>1, <1>2 DEF Retry

(* A connection given back: an open pool has one less lent.                *)
LEMMA PutBackIs ==
    ASSUME PoolIInv, NEW t \in PThreads, thread[t].pc \in Wrapped \cup {"probe"},
           NEW w \in Borrower, w.pool = 0, pools' = PutBack(thread[t].pool)
    PROVE  /\ pools' \in Seq(PoolRow) /\ Len(pools') = current /\ DOMAIN pools' = DOMAIN pools
           /\ \A p \in DOMAIN pools' : pools'[p].open => pools[p].open /\ pools'[p].lent = LentBy(w, t, p)
  <1>1. /\ pools \in Seq(PoolRow) /\ current = Len(pools) /\ current \in Nat /\ DOMAIN pools = 1..current
    BY ThreadFields
  <1>2. PICK q \in 1..current : q = thread[t].pool
    BY ThreadFields
  <1>3. PICK r \in PoolRow : r = pools[q]
    BY <1>1, ElementOfSeq
  <1>4. ASSUME NEW p \in 1..current
        PROVE  pools[p].lent \in Int /\ LentBy(w, t, p) = pools[p].lent - (IF p = q THEN 1 ELSE 0)
    <2>1. pools[p] \in PoolRow
      BY <1>1, ElementOfSeq
    <2>2. pools[p].lent \in Int
      BY <2>1 DEF PoolRow
    <2>3. ~Holding(w, p) /\ (t \in Holders(p) <=> p = q)
      BY <1>2, HoldsLender DEF Holding, PoolIInv
    <2> QED BY <2>2, <2>3 DEF LentBy
  <1>5. CASE r.open
    <2>1. PICK n \in Int : n = r.lent - 1
      BY DEF PoolRow
    <2>2. PICK s : s = [r EXCEPT !.lent = n]
      OBVIOUS
    <2>3. s \in PoolRow /\ s.lent = n
      BY <2>2 DEF PoolRow
    <2>4. pools' = [pools EXCEPT ![q] = s]
      BY <1>1, <1>2, <1>3, <1>5, <2>1, <2>2 DEF PutBack
    <2>5. pools' \in Seq(PoolRow) /\ Len(pools') = current /\ DOMAIN pools' = 1..current
      BY <1>1, <2>3, <2>4, ExceptSeq
    <2>6. ASSUME NEW p \in 1..current, pools'[p].open PROVE pools[p].open /\ pools'[p].lent = LentBy(w, t, p)
      <3>1. CASE p = q
        BY <1>1, <1>3, <1>4, <1>5, <2>1, <2>3, <2>4, <3>1
      <3>2. CASE p # q
        BY <1>1, <1>4, <2>4, <2>6, <3>2
      <3> QED BY <3>1, <3>2
    <2> QED BY <1>1, <2>5, <2>6
  <1>6. CASE ~r.open
    <2>1. pools' = pools
      BY <1>2, <1>3, <1>6 DEF PutBack
    <2>2. ASSUME NEW p \in 1..current, pools'[p].open PROVE pools[p].open /\ pools'[p].lent = LentBy(w, t, p)
      BY <1>3, <1>4, <1>6, <2>1, <2>2
    <2> QED BY <1>1, <2>1, <2>2
  <1> QED BY <1>5, <1>6


LEMMA BorrowInv ==
    ASSUME PoolIInv, NEW t \in PThreads, Borrow(t) PROVE PoolIInv'
  <1>1. thread[t].pc = "getconn" /\ UNCHANGED <<current, gauge, pgFaults, bodies>>
    BY DEF Borrow
  <1>2. /\ pools \in Seq(PoolRow) /\ current = Len(pools) /\ DOMAIN pools = 1..current /\ gauge \in Int
        /\ thread[t].pool = 0 /\ current \in Nat
        /\ "getconn" \notin Wrapped \cup {"probe"} /\ "probe" \notin Wrapped
        /\ "out" \notin Wrapped \cup {"probe"} /\ "ensure" \notin Wrapped \cup {"probe"}
    BY <1>1, ThreadFields DEF Wrapped
  <1>3. current \in 1..current
    BY <1>1, <1>2 DEF PoolIInv, LendersInv
  <1>4. CASE /\ pools[current].open /\ pools' = [pools EXCEPT ![current].lent = @ + 1]
             /\ thread' = [thread EXCEPT ![t].pc = "probe", ![t].pool = current] /\ outcome' = outcome
    <2>1. PICK q \in Borrower : q = thread[t] /\ thread \in [PThreads -> Borrower]
      BY DEF PoolIInv, PoolTypes
    <2>2. PICK w : w = [q EXCEPT !.pc = "probe", !.pool = current]
      OBVIOUS
    <2>3. w \in Borrower /\ w.pc = "probe" /\ w.pool = current /\ w.tx = q.tx
      BY <1>2, <2>2 DEF Borrower
    <2>4. thread' = [thread EXCEPT ![t] = w]
      BY <1>4, <2>1, <2>2
    <2>5. bodies' \in 0..MaxBodies /\ outcome' \in Bodies /\ BodiesInv' /\ SuccessIsCommitted'
      BY <1>1, <1>4, <2>1, <2>3, <2>4, BodyGoesOn
    <2>6. PICK r \in PoolRow : r = pools[current]
      BY <1>2, <1>3, ElementOfSeq
    <2>7. PICK n \in Int : n = r.lent + 1
      BY DEF PoolRow
    <2>8. PICK s : s = [r EXCEPT !.lent = n]
      OBVIOUS
    <2>9. s \in PoolRow /\ s.lent = n
      BY <2>8 DEF PoolRow
    <2>10. pools' = [pools EXCEPT ![current] = s]
      BY <1>2, <1>3, <1>4, <2>6, <2>7, <2>8
    <2>11. pools' \in Seq(PoolRow) /\ Len(pools') = current /\ DOMAIN pools' = 1..current
      BY <1>2, <1>3, <2>9, <2>10, ExceptSeq
    <2>12. ASSUME NEW p \in 1..current, pools'[p].open PROVE pools[p].open /\ pools'[p].lent = LentBy(w, t, p)
      <3>1. pools[p] \in PoolRow
        BY <1>2, ElementOfSeq
      <3>2. pools[p].lent \in Int
        BY <3>1 DEF PoolRow
      <3>3. t \notin Holders(p) /\ (Holding(w, p) <=> p = current)
        BY <1>2, <2>3, HoldsLender DEF Holding, PoolIInv
      <3>4. CASE p = current
        BY <1>2, <1>3, <1>4, <2>6, <2>7, <2>9, <2>10, <3>2, <3>3, <3>4 DEF LentBy
      <3>5. CASE p # current
        BY <1>2, <2>10, <2>12, <3>2, <3>3, <3>5 DEF LentBy
      <3> QED BY <3>4, <3>5
    <2>13. gauge' = gauge + (IF w.pc \in Wrapped THEN 1 ELSE 0) - (IF thread[t].pc \in Wrapped THEN 1 ELSE 0)
      BY <1>1, <1>2, <2>3
    <2>14. /\ w.pool \in 1..current' /\ w.pc = "probe" /\ current' = Len(pools') /\ current' \in Nat /\ current' >= current
           /\ DOMAIN pools' = DOMAIN pools
      BY <1>1, <1>2, <1>3, <2>3, <2>11
    <2> QED BY <2>3, <2>4, <2>5, <2>11, <2>12, <2>13, <2>14, PoolStep
  <1>5. CASE Retry(t) /\ pools' = pools
    <2>1. PICK w \in Borrower : w.pool = 0 /\ w.pc \in {"out", "ensure"} /\ thread' = [thread EXCEPT ![t] = w]
      BY <1>1, <1>5, RetryIs
    <2>2. bodies' \in 0..MaxBodies /\ outcome' \in Bodies /\ BodiesInv' /\ SuccessIsCommitted'
      BY <1>1, <1>5, RetryIs
    <2>3. \A p \in DOMAIN pools' : pools'[p].open => p \in DOMAIN pools /\ pools[p].open /\ pools'[p].lent = LentBy(w, t, p)
      BY <1>2, <1>5, <2>1, HoldsNothing
    <2>4. gauge' = gauge + (IF w.pc \in Wrapped THEN 1 ELSE 0) - (IF thread[t].pc \in Wrapped THEN 1 ELSE 0)
      BY <1>1, <1>2, <2>1
    <2>5. /\ w.pool = 0 /\ w.pc \notin Wrapped \cup {"probe"} /\ w.pc # "getconn"
          /\ pools' \in Seq(PoolRow) /\ current' = Len(pools') /\ current' \in Nat /\ current' >= current
      BY <1>1, <1>2, <1>5, <2>1
    <2> QED BY <2>1, <2>2, <2>3, <2>4, <2>5, PoolStep
  <1> QED BY <1>4, <1>5 DEF Borrow

(* A thread that keeps its connection, and changes no pool.                *)
LEMMA KeepsIt ==
    ASSUME PoolIInv, NEW t \in PThreads, thread[t].pc \in Wrapped \cup {"probe"}, NEW pc \in Wrapped, Goes(t, pc),
           UNCHANGED <<pools, current>>, gauge' = gauge + 1 - (IF thread[t].pc \in Wrapped THEN 1 ELSE 0),
           bodies' \in 0..MaxBodies, outcome' \in Bodies, BodiesInv', SuccessIsCommitted'
    PROVE  PoolIInv'
  <1>1. PICK w \in Borrower : /\ w.pc = pc /\ w.pool = thread[t].pool /\ w.tx = thread[t].tx
                              /\ thread' = [thread EXCEPT ![t] = w]
    BY GoesIs
  <1>2. /\ pools \in Seq(PoolRow) /\ current = Len(pools) /\ current \in Nat /\ gauge \in Int
        /\ DOMAIN pools = 1..current /\ thread[t].pool \in 1..current
    BY ThreadFields
  <1>3. ASSUME NEW p \in DOMAIN pools' PROVE p \in DOMAIN pools /\ pools'[p] = pools[p] /\ pools'[p].lent = LentBy(w, t, p)
    <2>1. pools[p] \in PoolRow /\ p \in 1..current
      BY <1>2, ElementOfSeq
    <2>2. pools[p].lent \in Int
      BY <2>1 DEF PoolRow
    <2>3. t \in Holders(p) <=> Holding(w, p)
      BY <1>1, <2>1, HoldsLender DEF Holding, PoolIInv, Wrapped
    <2> QED BY <1>2, <2>1, <2>2, <2>3 DEF LentBy
  <1>4. gauge' = gauge + (IF w.pc \in Wrapped THEN 1 ELSE 0) - (IF thread[t].pc \in Wrapped THEN 1 ELSE 0)
    BY <1>1
  <1>5. /\ w.pool \in 1..current' /\ w.pc \in Wrapped \cup {"probe"} /\ w.pc # "getconn"
        /\ pools' \in Seq(PoolRow) /\ current' = Len(pools') /\ current' \in Nat /\ current' >= current
    BY <1>1, <1>2 DEF Wrapped
  <1> QED BY <1>1, <1>3, <1>4, <1>5, PoolStep

(* One that gives it back.                                                 *)
LEMMA GivesItBack ==
    ASSUME PoolIInv, NEW t \in PThreads, thread[t].pc \in Wrapped \cup {"probe"}, pools' = PutBack(thread[t].pool),
           NEW w \in Borrower, w.pool = 0, w.pc \in {"out", "ensure"}, thread' = [thread EXCEPT ![t] = w],
           current' = current, gauge' = gauge - (IF thread[t].pc \in Wrapped THEN 1 ELSE 0),
           bodies' \in 0..MaxBodies, outcome' \in Bodies, BodiesInv', SuccessIsCommitted'
    PROVE  PoolIInv'
  <1>1. /\ pools' \in Seq(PoolRow) /\ Len(pools') = current /\ DOMAIN pools' = DOMAIN pools
        /\ \A p \in DOMAIN pools' : pools'[p].open => pools[p].open /\ pools'[p].lent = LentBy(w, t, p)
    BY PutBackIs
  <1>2. current \in Nat /\ gauge \in Int
    BY ThreadFields
  <1>3. w.pc \notin Wrapped \cup {"probe"} /\ w.pc # "getconn"
    BY DEF Wrapped
  <1>4. gauge' = gauge + (IF w.pc \in Wrapped THEN 1 ELSE 0) - (IF thread[t].pc \in Wrapped THEN 1 ELSE 0)
    BY <1>2, <1>3
  <1>5. current' = Len(pools') /\ current' \in Nat /\ current' >= current
    BY <1>1, <1>2
  <1> QED BY <1>1, <1>3, <1>4, <1>5, PoolStep

LEMMA ProbeInv ==
    ASSUME PoolIInv, NEW t \in PThreads, Probe(t) PROVE PoolIInv'
  <1>1. thread[t].pc = "probe" /\ current' = current /\ bodies' = bodies /\ "probe" \notin Wrapped /\ "body" \in Wrapped
        /\ gauge \in Int
    BY ThreadFields DEF Probe, Wrapped
  <1>2. CASE gauge' = gauge + 1 /\ Goes(t, "body") /\ UNCHANGED <<pools, outcome>>
    <2>1. PICK w \in Borrower : /\ w.pc = "body" /\ w.pool = thread[t].pool /\ w.tx = thread[t].tx
                                /\ thread' = [thread EXCEPT ![t] = w]
      BY <1>1, <1>2, GoesIs
    <2>2. bodies' \in 0..MaxBodies /\ outcome' \in Bodies /\ BodiesInv' /\ SuccessIsCommitted'
      BY <1>1, <1>2, <2>1, BodyGoesOn
    <2>3. gauge' = gauge + 1 - (IF thread[t].pc \in Wrapped THEN 1 ELSE 0)
      BY <1>1, <1>2
    <2> QED BY <1>1, <1>2, <2>2, <2>3, KeepsIt
  <1>3. CASE pools' = PutBack(thread[t].pool) /\ Retry(t) /\ gauge' = gauge
    <2>1. PICK w \in Borrower : w.pool = 0 /\ w.pc \in {"out", "ensure"} /\ thread' = [thread EXCEPT ![t] = w]
      BY <1>1, <1>3, RetryIs
    <2>2. bodies' \in 0..MaxBodies /\ outcome' \in Bodies /\ BodiesInv' /\ SuccessIsCommitted'
      BY <1>1, <1>3, RetryIs
    <2>3. gauge' = gauge - (IF thread[t].pc \in Wrapped THEN 1 ELSE 0)
      BY <1>1, <1>3
    <2> QED BY <1>1, <1>3, <2>1, <2>2, <2>3, GivesItBack
  <1> QED BY <1>2, <1>3 DEF Probe

LEMMA BodyInv ==
    ASSUME PoolIInv, NEW t \in PThreads, Body(t) PROVE PoolIInv'
  <1>1. /\ thread[t].pc = "body" /\ UNCHANGED <<pools, current, available, gauge, outcome, bodies>> /\ gauge \in Int
        /\ "body" \in Wrapped
    BY ThreadFields DEF Body, Wrapped
  <1>2. PICK pc \in {"commit", "rollback"} : Goes(t, pc)
    BY DEF Body
  <1>3. pc \in Wrapped
    BY DEF Wrapped
  <1>4. PICK w \in Borrower : /\ w.pc = pc /\ w.pool = thread[t].pool /\ w.tx = thread[t].tx
                              /\ thread' = [thread EXCEPT ![t] = w]
    BY <1>2, <1>3, GoesIs
  <1>5. bodies' \in 0..MaxBodies /\ outcome' \in Bodies /\ BodiesInv' /\ SuccessIsCommitted'
    BY <1>1, <1>4, BodyGoesOn
  <1>6. gauge' = gauge + 1 - (IF thread[t].pc \in Wrapped THEN 1 ELSE 0)
    BY <1>1
  <1> QED BY <1>1, <1>2, <1>3, <1>5, <1>6, KeepsIt


LEMMA CommitInv ==
    ASSUME PoolIInv, NEW t \in PThreads, Commit(t) PROVE PoolIInv'
  <1>1. /\ thread[t].pc = "commit" /\ UNCHANGED <<pools, current, available, gauge, bodies>> /\ gauge \in Int
        /\ "commit" \in Wrapped
    BY ThreadFields DEF Commit, Wrapped
  <1>2. PICK pc \in {"release", "discard"}, done \in BOOLEAN :
           /\ Goes(t, pc) /\ (pc = "release" => done)
           /\ outcome' = [outcome EXCEPT ![thread[t].tx].done = done]
    <2>1. CASE Goes(t, "release") /\ outcome' = [outcome EXCEPT ![thread[t].tx].done = TRUE]
      BY <2>1
    <2>2. CASE /\ \E happened \in BOOLEAN : outcome' = [outcome EXCEPT ![thread[t].tx].done = happened /\ Alive(t)]
               /\ Goes(t, "discard")
      <3>1. PICK happened \in BOOLEAN : outcome' = [outcome EXCEPT ![thread[t].tx].done = happened /\ Alive(t)]
        BY <2>2
      <3>2. (happened /\ Alive(t)) \in BOOLEAN
        OBVIOUS
      <3> QED BY <2>2, <3>1, <3>2
    <2> QED BY <2>1, <2>2 DEF Commit
  <1>3. pc \in Wrapped /\ pc # "out"
    BY DEF Wrapped
  <1>4. PICK w \in Borrower : /\ w.pc = pc /\ w.pool = thread[t].pool /\ w.tx = thread[t].tx
                              /\ thread' = [thread EXCEPT ![t] = w]
    BY <1>2, <1>3, GoesIs
  <1>5. thread'[t] = w /\ \A u \in PThreads : u # t => thread'[u] = thread[u]
    BY <1>4, ThreadMoves DEF PoolIInv
  <1>6. /\ thread[t].tx \in 1..MaxBodies /\ outcome \in Bodies /\ outcome[thread[t].tx].said # "ok"
        /\ bodies \in 0..MaxBodies /\ MaxBodies \in Nat
    BY <1>1, PgPoolAssumption DEF PoolIInv, PoolTypes, BodiesInv
  <1>7. PICK r \in [done : BOOLEAN, said : {"none", "ok", "error"}] : r = outcome[thread[t].tx]
    BY <1>6 DEF Bodies
  <1>8. PICK o : o = [r EXCEPT !.done = done]
    OBVIOUS
  <1>9. o \in [done : BOOLEAN, said : {"none", "ok", "error"}] /\ o.said = r.said /\ o.done = done
    BY <1>8
  <1>10. outcome' = [outcome EXCEPT ![thread[t].tx] = o]
    BY <1>2, <1>7, <1>8
  <1>11. /\ thread[t].tx <= bodies /\ outcome' \in Bodies /\ outcome'[thread[t].tx] = o
         /\ \A b \in 1..MaxBodies : b # thread[t].tx => outcome'[b] = outcome[b]
    BY <1>1, <1>9, <1>10, OutcomeMoves
  <1>12. BodiesInv'
    <2>1. ASSUME NEW u \in PThreads, thread'[u].pc # "out"
          PROVE  /\ thread'[u].tx \in 1..bodies' /\ outcome'[thread'[u].tx].said # "ok"
                 /\ thread'[u].pc = "release" => outcome'[thread'[u].tx].done
      <3>1. CASE u = t
        BY <1>1, <1>2, <1>4, <1>5, <1>6, <1>7, <1>9, <1>11, <3>1
      <3>2. CASE u # t
        <4>1. /\ thread'[u] = thread[u] /\ thread[u].tx \in 1..bodies /\ thread[u].tx # thread[t].tx
              /\ outcome[thread[u].tx].said # "ok" /\ (thread[u].pc = "release" => outcome[thread[u].tx].done)
          BY <1>1, <1>5, <2>1, <3>2 DEF PoolIInv, BodiesInv
        <4>2. outcome'[thread[u].tx] = outcome[thread[u].tx]
          BY <1>6, <1>11, <4>1
        <4> QED BY <1>1, <4>1, <4>2
      <3> QED BY <3>1, <3>2
    <2>2. \A u \in PThreads : thread'[u].tx = thread[u].tx /\ (thread'[u].pc # "out" => thread[u].pc # "out")
      BY <1>1, <1>4, <1>5
    <2>3. \A u, v \in PThreads : u # v /\ thread'[u].pc # "out" /\ thread'[v].pc # "out" => thread'[u].tx # thread'[v].tx
      BY <2>2 DEF PoolIInv, BodiesInv
    <2>4. \A b \in 1..MaxBodies : b > bodies' => outcome'[b].said # "ok"
      BY <1>1, <1>6, <1>11 DEF PoolIInv, BodiesInv
    <2> QED BY <2>1, <2>3, <2>4 DEF BodiesInv
  <1>13. SuccessIsCommitted'
    <2> SUFFICES ASSUME NEW b \in 1..MaxBodies, outcome'[b].said = "ok" PROVE outcome'[b].done
      BY DEF SuccessIsCommitted
    <2>1. b # thread[t].tx
      BY <1>6, <1>7, <1>9, <1>11
    <2> QED BY <1>11, <2>1 DEF SuccessIsCommitted, PoolIInv, PgPoolInv
  <1>14. gauge' = gauge + 1 - (IF thread[t].pc \in Wrapped THEN 1 ELSE 0)
    BY <1>1
  <1>15. bodies' \in 0..MaxBodies
    BY <1>1, <1>6
  <1> QED BY <1>1, <1>2, <1>3, <1>11, <1>12, <1>13, <1>14, <1>15, KeepsIt

LEMMA ReleaseInv ==
    ASSUME PoolIInv, NEW t \in PThreads, Release(t) PROVE PoolIInv'
  <1>1. /\ thread[t].pc \in {"release", "discard", "rollback"} /\ pools' = PutBack(thread[t].pool)
        /\ gauge' = gauge - 1 /\ current' = current /\ bodies' = bodies
    BY DEF Release
  <1>2. PICK said \in {"ok", "error"} : Finishes(t, said) /\ (said = "ok" => thread[t].pc = "release")
    BY DEF Release
  <1>3. thread[t].pc \in Wrapped /\ thread[t].pc # "out"
    BY <1>1 DEF Wrapped
  <1>4. bodies' \in 0..MaxBodies /\ outcome' \in Bodies /\ BodiesInv' /\ SuccessIsCommitted'
    BY <1>1, <1>2, <1>3, BodyEnds
  <1>5. thread' = [thread EXCEPT ![t] = Unborrowed]
    BY <1>2 DEF Finishes
  <1>6. gauge' = gauge - (IF thread[t].pc \in Wrapped THEN 1 ELSE 0)
    BY <1>1, <1>3
  <1> QED BY <1>1, <1>3, <1>4, <1>5, <1>6, UnborrowedIs, GivesItBack

LEMMA ShutdownInv ==
    ASSUME PoolIInv, Shutdown PROVE PoolIInv'
  <1>1. /\ current # 0 /\ pools' = [pools EXCEPT ![current].open = FALSE]
        /\ UNCHANGED <<current, thread, gauge, outcome, pgFaults, bodies>>
    BY DEF Shutdown
  <1>2. pools \in Seq(PoolRow) /\ current = Len(pools) /\ current \in Nat /\ current \in 1..current
    BY <1>1 DEF PoolIInv, PoolTypes
  <1>3. PICK r \in PoolRow : r = pools[current]
    BY <1>2, ElementOfSeq
  <1>4. PICK s : s = [r EXCEPT !.open = FALSE]
    OBVIOUS
  <1>5. s \in PoolRow /\ ~s.open
    BY <1>4 DEF PoolRow
  <1>6. pools' = [pools EXCEPT ![current] = s]
    BY <1>1, <1>2, <1>3, <1>4
  <1>7. pools' \in Seq(PoolRow) /\ Len(pools') = current
    BY <1>2, <1>5, <1>6, ExceptSeq
  <1>8. PoolTypes'
    BY <1>1, <1>2, <1>7 DEF PoolIInv, PoolTypes
  <1>9. LendersInv' /\ BodiesInv' /\ GaugeIsTrue' /\ SuccessIsCommitted'
    BY <1>1 DEF PoolIInv, PgPoolInv, LendersInv, BodiesInv, GaugeIsTrue, SuccessIsCommitted
  <1>10. LentIsHeld'
    <2> SUFFICES ASSUME NEW p \in DOMAIN pools', pools'[p].open PROVE pools'[p].lent = Cardinality(Holders(p)')
      BY DEF LentIsHeld
    <2>1. p \in DOMAIN pools /\ p # current /\ pools'[p] = pools[p]
      BY <1>2, <1>5, <1>6
    <2>2. Holders(p)' = Holders(p)
      BY <1>1 DEF Holders
    <2> QED BY <2>1, <2>2 DEF PoolIInv, PgPoolInv, LentIsHeld
  <1> QED BY <1>8, <1>9, <1>10 DEF PoolIInv, PgPoolInv

LEMMA PoolNextInv ==
    ASSUME PoolIInv, [PgPoolNext]_pgvars PROVE PoolIInv'
  <1>1. CASE PgPoolNext
    BY <1>1, GetConnectionInv, EnsurePoolInv, CreatePoolInv, BorrowInv, ProbeInv, BodyInv, CommitInv, ReleaseInv,
       ShutdownInv DEF PgPoolNext
  <1>2. CASE UNCHANGED pgvars
    BY <1>2 DEF pgvars, PoolIInv, PoolTypes, LendersInv, BodiesInv, PgPoolInv, LentIsHeld, GaugeIsTrue,
                SuccessIsCommitted, Holders
  <1> QED BY <1>1, <1>2

(* The pool of connections: an open pool has lent what threads hold, the   *)
(* gauge counts the wrappers in use, and a caller told of success has a    *)
(* committed transaction, however many pools were replaced meanwhile.      *)
THEOREM PoolLosesNothing == ServingSpec => []PgPoolInv
  <1>1. ServingInit => PoolIInv
    BY PoolInitInv DEF ServingInit
  <1>2. PoolIInv /\ [ServingNext]_ServingVars => PoolIInv'
    <2>1. [ServingNext]_ServingVars => [PgPoolNext]_pgvars
      BY DEF ServingNext, ServingVars
    <2> QED BY <2>1, PoolNextInv
  <1>3. PoolIInv => PgPoolInv
    BY DEF PoolIInv
  <1> QED BY <1>1, <1>2, <1>3, PTL DEF ServingSpec, ServingVars

-----------------------------------------------------------------------------
(* The API process: its life.                                              *)

ProcRow == [at : Points4, elapsed : Nat, delay : Delay0..MaxDelay, pool : BOOLEAN, tasks : BOOLEAN,
            restarts : Nat]

\* Jobs are in flight only between the start and the end of the drain, and
\* with the pools; so is the worker that starts them.
LifeIInv ==
    /\ proc \in ProcRow
    /\ inflight # {} => proc.pool /\ proc.at \in {"serving", "cancelling", "draining"}
    /\ proc.tasks => proc.pool /\ proc.at \in {"serving", "cancelling"}
    /\ proc.at = "init" => proc.elapsed < Timeout + MaxDelay

LEMMA LifeInitInv == ServiceInit => LifeIInv
  BY ServiceAssumption DEF ServiceInit, LifeIInv, Fresh4, ProcRow, Points4

\* The jobs and the process after a step that neither starts a job nor keeps
\* one without the pools.
LEMMA InitFailsInv == ASSUME LifeIInv, InitFails PROVE LifeIInv'
  <1>1. proc \in ProcRow /\ proc.at = "init" /\ inflight = {} /\ ~proc.tasks /\ UNCHANGED inflight
    BY DEF LifeIInv, InitFails
  <1>2. proc.elapsed \in Nat /\ proc.delay \in Nat /\ proc.delay <= MaxDelay /\ Delay0 <= proc.delay
    BY <1>1, ServiceAssumption DEF ProcRow
  <1>3. CASE proc.elapsed >= Timeout
    BY <1>1, <1>3 DEF InitFails, LifeIInv, ProcRow, Points4
  <1>4. CASE ~(proc.elapsed >= Timeout)
    <2> DEFINE q == [proc EXCEPT !.elapsed = proc.elapsed + proc.delay]
               d == Longer(proc.delay)
    <2>1. d \in Delay0..MaxDelay
      BY <1>2, ServiceAssumption DEF Longer
    <2>2. /\ q \in ProcRow /\ q.at = "init" /\ q.elapsed = proc.elapsed + proc.delay
          /\ q.delay = proc.delay /\ q.tasks = proc.tasks
      BY <1>1, <1>2 DEF ProcRow
    <2>3. proc' = [q EXCEPT !.delay = d]
      BY <1>1, <1>4 DEF InitFails, ProcRow
    <2> HIDE DEF q, d
    <2>4. proc' \in ProcRow /\ proc'.at = "init" /\ proc'.elapsed = proc.elapsed + proc.delay /\ proc'.tasks = proc.tasks
      BY <2>1, <2>2, <2>3 DEF ProcRow
    <2>5. proc'.elapsed < Timeout + MaxDelay
      BY <1>2, <1>4, <2>4, ServiceAssumption
    <2> QED BY <1>1, <2>4, <2>5 DEF LifeIInv
  <1> QED BY <1>3, <1>4

LEMMA StartUpInv == ASSUME LifeIInv, StartUp PROVE LifeIInv'
  <1>1. PICK pool \in BOOLEAN, tasks \in BOOLEAN :
           (tasks => pool) /\ proc' = [proc EXCEPT !.at = "serving", !.pool = pool, !.tasks = tasks]
    BY Zenon DEF StartUp
  <1>2. proc \in ProcRow /\ inflight = {} /\ inflight' = {}
    BY DEF LifeIInv, StartUp
  <1>3. proc' \in ProcRow /\ proc'.at = "serving" /\ proc'.pool = pool /\ proc'.tasks = tasks
    BY <1>1, <1>2 DEF ProcRow, Points4
  <1> QED BY <1>1, <1>2, <1>3 DEF LifeIInv

LEMMA LifeNextInv == LifeIInv /\ [LifeNext]_lifevars => LifeIInv'
  <1> SUFFICES ASSUME LifeIInv, [LifeNext]_lifevars PROVE LifeIInv'
    OBVIOUS
  <1>0. proc \in ProcRow
    BY DEF LifeIInv
  <1>1. CASE UNCHANGED lifevars
    BY <1>1 DEF lifevars, LifeIInv
  <1>2. CASE InitFails \/ StartUp
    BY <1>2, InitFailsInv, StartUpInv
  <1>3. CASE ReconcileOnce
    BY <1>3 DEF ReconcileOnce, LifeIInv
  <1>4. CASE StopTasks
    BY <1>4 DEF StopTasks, LifeIInv, ProcRow, Points4
  <1>5. CASE TasksStopped
    BY <1>5 DEF TasksStopped, LifeIInv, ProcRow, Points4
  <1>6. CASE DrainInflight
    <2>1. proc' = [proc EXCEPT !.at = "stopped", !.pool = FALSE] /\ inflight' = {} /\ ~proc.tasks
      BY <1>6 DEF DrainInflight, Cancelled, LifeIInv
    <2>2. proc' \in ProcRow /\ proc'.at = "stopped" /\ proc'.tasks = proc.tasks
      BY <1>0, <2>1 DEF ProcRow, Points4
    <2> QED BY <2>1, <2>2 DEF LifeIInv
  <1>7. CASE KillProcess
    <2>1. proc' = [proc EXCEPT !.at = "dead", !.pool = FALSE, !.tasks = FALSE] /\ inflight' = {}
      BY <1>7 DEF KillProcess
    <2>2. proc' \in ProcRow /\ proc'.at = "dead" /\ ~proc'.tasks
      BY <1>0, <2>1 DEF ProcRow, Points4
    <2> QED BY <2>1, <2>2 DEF LifeIInv
  <1>8. CASE Supervisor
    <2>1. proc' = Fresh4(proc.restarts + 1) /\ inflight' = {} /\ proc.restarts \in Nat
      BY <1>0, <1>8 DEF Supervisor, LifeIInv, ProcRow
    <2>2. proc' \in ProcRow /\ proc'.at = "init" /\ ~proc'.tasks /\ proc'.elapsed = 0
      BY <2>1, ServiceAssumption DEF Fresh4, ProcRow, Points4
    <2> QED BY <2>1, <2>2, ServiceAssumption DEF LifeIInv
  <1>9. ASSUME NEW j \in SvcJobs, StartJob(j) \/ EndJob(j) PROVE LifeIInv'
    BY <1>9 DEF StartJob, EndJob, LifeIInv
  <1>10. CASE LifeNext
    BY <1>2, <1>3, <1>4, <1>5, <1>6, <1>7, <1>8, <1>9, <1>10 DEF LifeNext
  <1> QED BY <1>1, <1>10

-----------------------------------------------------------------------------
(* The sockets.  An entry of the registry is the last registration of an   *)
(* open socket, or that of a socket that renamed itself.                   *)

SockRow == [open : {"no", "yes", "closed"}, id : WsWorkers \cup {NoWsWorker}, renamed : BOOLEAN]
SocketsIInv ==
    /\ socks \in [Socks -> SockRow]
    /\ active \in [WsWorkers -> Socks \cup {NoSock}]
    /\ ActiveIsOpen

LEMMA SocketsInitInv == ServiceInit => SocketsIInv
  BY DEF ServiceInit, SocketsIInv, SockRow, ActiveIsOpen

\* One socket moves and the entries that name it stay right.
LEMMA SocketMovesInv ==
    ASSUME SocketsIInv, NEW s \in Socks, NEW x \in SockRow, socks' = [socks EXCEPT ![s] = x],
           active' \in [WsWorkers -> Socks \cup {NoSock}],
           \A w \in WsWorkers : active'[w] = s => (x.open = "yes" /\ x.id = w) \/ x.renamed \/ s = NoSock,
           \A w \in WsWorkers : active'[w] \in {active[w], s, NoSock}
    PROVE  SocketsIInv'
  <1>1. /\ socks' \in [Socks -> SockRow] /\ socks'[s] = x /\ \A c \in Socks : c # s => socks'[c] = socks[c]
    BY DEF SocketsIInv
  <1>2. ASSUME NEW w \in WsWorkers, active'[w] # NoSock
        PROVE (socks'[active'[w]].open = "yes" /\ socks'[active'[w]].id = w) \/ socks'[active'[w]].renamed
    <2>1. CASE active'[w] = s
      BY <1>1, <1>2, <2>1
    <2>2. CASE active'[w] # s
      <3>1. active'[w] = active[w] /\ active[w] \in Socks /\ active[w] # NoSock
        BY <1>2, <2>2 DEF SocketsIInv
      <3>2. socks'[active'[w]] = socks[active[w]]
        BY <1>1, <2>2, <3>1
      <3> QED BY <3>1, <3>2 DEF SocketsIInv, ActiveIsOpen
    <2> QED BY <2>1, <2>2
  <1>3. ActiveIsOpen'
    BY <1>2 DEF ActiveIsOpen
  <1> QED BY <1>1, <1>3 DEF SocketsIInv

LEMMA ConnectsInv == ASSUME SocketsIInv, NEW s \in Socks, Connects(s) PROVE SocketsIInv'
  <1> DEFINE x == [socks[s] EXCEPT !.open = "yes"]
  <1>1. socks[s] \in SockRow /\ active \in [WsWorkers -> Socks \cup {NoSock}]
    BY DEF SocketsIInv
  <1>2. x \in SockRow /\ x.open = "yes" /\ x.renamed = socks[s].renamed /\ x.id = socks[s].id
    BY <1>1 DEF SockRow
  <1>3. socks' = [socks EXCEPT ![s] = x] /\ UNCHANGED active
    BY DEF Connects, SocketsIInv
  <1> HIDE DEF x
  <1>4. \A w \in WsWorkers : active'[w] = s => (x.open = "yes" /\ x.id = w) \/ x.renamed \/ s = NoSock
    BY <1>2, <1>3 DEF SocketsIInv, ActiveIsOpen
  <1> QED BY <1>1, <1>2, <1>3, <1>4, SocketMovesInv

\* The socket had its last registration in the registry, or had renamed itself.
LEMMA NamedBefore ==
    ASSUME SocketsIInv, NEW s \in Socks, NEW v \in WsWorkers, active[v] = s, s # NoSock
    PROVE  (socks[s].id = v /\ socks[s].id # NoWsWorker) \/ socks[s].renamed
  BY ServiceAssumption DEF SocketsIInv, ActiveIsOpen

LEMMA WsRegisterInv ==
    ASSUME SocketsIInv, NEW s \in Socks, NEW w \in WsWorkers, WsRegister(s, w)
    PROVE  SocketsIInv'
  <1> DEFINE b == socks[s].renamed \/ (socks[s].id \notin {w, NoWsWorker} /\ active[socks[s].id] = s)
             y == [socks[s] EXCEPT !.id = w]
             x == [y EXCEPT !.renamed = b]
  <1>1. /\ socks[s] \in SockRow /\ active \in [WsWorkers -> Socks \cup {NoSock}] /\ socks[s].open = "yes"
        /\ socks \in [Socks -> SockRow]
    BY DEF SocketsIInv, WsRegister
  <1>2. y \in SockRow /\ y.open = "yes" /\ y.id = w /\ y.renamed = socks[s].renamed
    BY <1>1 DEF SockRow
  <1>3. b \in BOOLEAN
    BY <1>1 DEF SockRow
  <1>4. socks' = [socks EXCEPT ![s] = x] /\ active' = [active EXCEPT ![w] = s]
    <2>1. socks' = [socks EXCEPT ![s].id = w,
                   ![s].renamed = @ \/ (socks[s].id \notin {w, NoWsWorker} /\ active[socks[s].id] = s)]
      BY DEF WsRegister
    <2>2. [socks EXCEPT ![s].id = w] = [socks EXCEPT ![s] = y] /\ [socks EXCEPT ![s] = y][s] = y
      BY <1>1
    <2> DEFINE z == [socks EXCEPT ![s] = y]
    <2>3. socks' = [z EXCEPT ![s].renamed = y.renamed \/ (socks[s].id \notin {w, NoWsWorker} /\ active[socks[s].id] = s)]
      BY <2>1, <2>2, Zenon
    <2>4. [z EXCEPT ![s].renamed = b] = [z EXCEPT ![s] = x] /\ [z EXCEPT ![s] = x] = [socks EXCEPT ![s] = x]
      <3> HIDE DEF b, y
      <3> QED BY <1>1, <2>2
    <2>5. socks' = [z EXCEPT ![s].renamed = b]
      BY <1>2, <2>3, Zenon
    <2>6. active' = [active EXCEPT ![w] = s]
      BY DEF WsRegister
    <2> HIDE DEF z, b, x, y
    <2> QED BY <2>4, <2>5, <2>6
  <1> HIDE DEF y
  <1>5. x \in SockRow /\ x.open = "yes" /\ x.id = w /\ x.renamed = b
    <2> HIDE DEF b
    <2> QED BY <1>2, <1>3 DEF SockRow
  <1> HIDE DEF x
  <1>6. ASSUME NEW v \in WsWorkers, active'[v] = s, s # NoSock PROVE (x.open = "yes" /\ x.id = v) \/ x.renamed
    <2>1. CASE v = w
      BY <1>5, <2>1
    <2>2. CASE v # w
      <3>1. active[v] = s
        BY <1>1, <1>4, <1>6, <2>2
      <3>2. (socks[s].id = v /\ socks[s].id # NoWsWorker) \/ socks[s].renamed
        BY <1>6, <3>1, NamedBefore
      <3> QED BY <1>5, <2>2, <3>1, <3>2
    <2> QED BY <2>1, <2>2
  <1>7. active' \in [WsWorkers -> Socks \cup {NoSock}] /\ \A v \in WsWorkers : active'[v] \in {active[v], s, NoSock}
    BY <1>1, <1>4
  <1> QED BY <1>4, <1>5, <1>6, <1>7, SocketMovesInv

LEMMA WsEndsInv == ASSUME SocketsIInv, NEW s \in Socks, WsEnds(s) PROVE SocketsIInv'
  <1>1. PICK w \in {socks[s].id} \cup WsWorkers :
          /\ socks' = [socks EXCEPT ![s].open = "closed",
                         ![s].renamed = @ \/ (socks[s].id \notin {w, NoWsWorker} /\ active[socks[s].id] = s)]
          /\ active' = [v \in WsWorkers |-> IF v = w THEN NoSock ELSE active[v]]
    BY Zenon DEF WsEnds
  <1> DEFINE b == socks[s].renamed \/ (socks[s].id \notin {w, NoWsWorker} /\ active[socks[s].id] = s)
             y == [socks[s] EXCEPT !.open = "closed"]
             x == [y EXCEPT !.renamed = b]
  <1>2. /\ socks[s] \in SockRow /\ active \in [WsWorkers -> Socks \cup {NoSock}] /\ socks \in [Socks -> SockRow]
    BY DEF SocketsIInv
  <1>3. y \in SockRow /\ y.renamed = socks[s].renamed
    BY <1>2 DEF SockRow
  <1>4. b \in BOOLEAN
    BY <1>2 DEF SockRow
  <1>5. socks' = [socks EXCEPT ![s] = x]
    <2>2. [socks EXCEPT ![s].open = "closed"] = [socks EXCEPT ![s] = y] /\ [socks EXCEPT ![s] = y][s] = y
      BY <1>2
    <2> DEFINE z == [socks EXCEPT ![s] = y]
    <2>3. socks' = [z EXCEPT ![s].renamed = y.renamed \/ (socks[s].id \notin {w, NoWsWorker} /\ active[socks[s].id] = s)]
      BY <1>1, <2>2, Zenon
    <2>4. [z EXCEPT ![s].renamed = b] = [z EXCEPT ![s] = x] /\ [z EXCEPT ![s] = x] = [socks EXCEPT ![s] = x]
      <3> HIDE DEF b, y
      <3> QED BY <1>2, <2>2
    <2>5. socks' = [z EXCEPT ![s].renamed = b]
      BY <1>3, <2>3, Zenon
    <2> HIDE DEF z, b, x, y
    <2> QED BY <2>4, <2>5
  <1> HIDE DEF y
  <1>6. x \in SockRow /\ x.renamed = b
    <2> HIDE DEF b
    <2> QED BY <1>3, <1>4 DEF SockRow
  <1> HIDE DEF x
  <1>7. ASSUME NEW v \in WsWorkers, active'[v] = s, s # NoSock PROVE x.renamed
    <2>1. v # w /\ active[v] = s
      BY <1>1, <1>7
    <2>2. (socks[s].id = v /\ socks[s].id # NoWsWorker) \/ socks[s].renamed
      BY <1>7, <2>1, NamedBefore
    <2> QED BY <1>6, <2>1, <2>2
  <1>8. active' \in [WsWorkers -> Socks \cup {NoSock}] /\ \A v \in WsWorkers : active'[v] \in {active[v], s, NoSock}
    BY <1>1, <1>2
  <1> QED BY <1>5, <1>6, <1>7, <1>8, SocketMovesInv

LEMMA SocketNextInv == SocketsIInv /\ [SocketNext]_<<socks, active>> => SocketsIInv'
  <1> SUFFICES ASSUME SocketsIInv, [SocketNext]_<<socks, active>> PROVE SocketsIInv'
    OBVIOUS
  <1>1. CASE UNCHANGED <<socks, active>>
    BY <1>1 DEF SocketsIInv, ActiveIsOpen
  <1>2. CASE DemoSubmit \/ \E s \in Socks : WsStatus(s)
    BY <1>1, <1>2 DEF DemoSubmit, WsStatus
  <1>3. ASSUME NEW s \in Socks, Connects(s) \/ WsEnds(s) PROVE SocketsIInv'
    BY <1>3, ConnectsInv, WsEndsInv
  <1>4. ASSUME NEW s \in Socks, NEW w \in WsWorkers, WsRegister(s, w) PROVE SocketsIInv'
    BY <1>4, WsRegisterInv
  <1> QED BY <1>1, <1>2, <1>3, <1>4 DEF SocketNext

-----------------------------------------------------------------------------
(* The chat.  A tool call without its result is still to be run.           *)

Msg == [role : {"user", "call", "tool"}, id : Nat]
ChatRow == [at : {"idle", "model", "tools", "ended"}, round : Nat, messages : Seq(Msg), calls : Seq(Nat)]

Given(ms, i) == \E k \in DOMAIN ms : k > i /\ ms[k] = Message("tool", ms[i].id)
Accounted(ms, cs) ==
    \A i \in DOMAIN ms : ms[i].role = "call" => Given(ms, i) \/ \E k \in DOMAIN cs : cs[k] = ms[i].id

ChatIInv ==
    /\ chat \in ChatRow
    /\ chat.at \in {"idle", "model"} => chat.calls = <<>>
    /\ Accounted(chat.messages, chat.calls)

\* The conversation grows, and what was to be run is still to be run or has
\* its result in what is added.
LEMMA AccountedGrows ==
    ASSUME NEW ms \in Seq(Msg), NEW add \in Seq(Msg), NEW cs \in Seq(Nat), NEW ds \in Seq(Nat),
           Accounted(ms, cs),
           \A k \in DOMAIN cs : \/ \E l \in DOMAIN ds : ds[l] = cs[k]
                                \/ \E l \in DOMAIN add : add[l] = Message("tool", cs[k]),
           \A k \in DOMAIN add : add[k].role = "call" => \E l \in DOMAIN ds : ds[l] = add[k].id
    PROVE  ms \o add \in Seq(Msg) /\ Accounted(ms \o add, ds)
  <1> DEFINE t == ms \o add
  <1>1. /\ t \in Seq(Msg) /\ Len(t) = Len(ms) + Len(add)
        /\ \A i \in 1..(Len(ms) + Len(add)) : t[i] = IF i <= Len(ms) THEN ms[i] ELSE add[i - Len(ms)]
    BY ConcatProperties
  <1>2. /\ DOMAIN ms = 1..Len(ms) /\ DOMAIN add = 1..Len(add) /\ DOMAIN t = 1..(Len(ms) + Len(add))
        /\ Len(ms) \in Nat /\ Len(add) \in Nat
    BY <1>1, LenProperties
  <1> HIDE DEF t
  <1>3. \A i \in DOMAIN ms : i \in DOMAIN t /\ t[i] = ms[i]
    BY <1>1, <1>2
  <1>4. \A k \in DOMAIN add : Len(ms) + k \in DOMAIN t /\ t[Len(ms) + k] = add[k]
    <2> TAKE k \in DOMAIN add
    <2>1. Len(ms) + k \in 1..(Len(ms) + Len(add)) /\ ~(Len(ms) + k <= Len(ms)) /\ (Len(ms) + k) - Len(ms) = k
      BY <1>2
    <2> QED BY <1>1, <1>2, <2>1
  <1>5. ASSUME NEW i \in DOMAIN t, t[i].role = "call"
        PROVE  Given(t, i) \/ \E l \in DOMAIN ds : ds[l] = t[i].id
    <2>1. CASE i \in DOMAIN ms
      <3>1. t[i] = ms[i]
        BY <1>3, <2>1
      <3>2. Given(ms, i) \/ \E k \in DOMAIN cs : cs[k] = ms[i].id
        BY <1>5, <2>1, <3>1 DEF Accounted
      <3>3. CASE Given(ms, i)
        BY <1>3, <3>1, <3>3 DEF Given
      <3>4. ASSUME NEW k \in DOMAIN cs, cs[k] = ms[i].id PROVE Given(t, i) \/ \E l \in DOMAIN ds : ds[l] = t[i].id
        <4>1. ASSUME NEW l \in DOMAIN add, add[l] = Message("tool", cs[k]) PROVE Given(t, i)
          <5>1. Len(ms) + l \in DOMAIN t /\ Len(ms) + l > i /\ t[Len(ms) + l] = Message("tool", t[i].id)
            BY <1>2, <1>4, <2>1, <3>1, <3>4, <4>1
          <5> QED BY <5>1 DEF Given
        <4> QED BY <3>1, <3>4, <4>1
      <3> QED BY <3>2, <3>3, <3>4
    <2>2. CASE i \notin DOMAIN ms
      <3>1. i - Len(ms) \in DOMAIN add /\ t[i] = add[i - Len(ms)]
        BY <1>1, <1>2, <2>2
      <3> QED BY <1>5, <3>1
    <2> QED BY <2>1, <2>2
  <1>6. Accounted(t, ds)
    BY <1>5 DEF Accounted
  <1> QED BY <1>1, <1>6 DEF t

LEMMA ChatInitInv == ServiceInit => ChatIInv
  <1> SUFFICES ASSUME ServiceInit PROVE ChatIInv
    OBVIOUS
  <1>1. chat = NoChat /\ <<>> \in Seq(Msg) /\ <<>> \in Seq(Nat) /\ DOMAIN <<>> = {}
    BY EmptySeq DEF ServiceInit
  <1>2. chat \in ChatRow /\ chat.calls = <<>> /\ chat.messages = <<>>
    BY <1>1 DEF NoChat, ChatRow
  <1> QED BY <1>1, <1>2 DEF ChatIInv, Accounted

LEMMA ChatStartsInv == ASSUME ChatIInv, ChatStarts PROVE ChatIInv'
  <1>1. chat \in ChatRow /\ chat.at = "idle" /\ chat.calls = <<>>
    BY DEF ChatIInv, ChatStarts
  <1>2. CASE chat' = [chat EXCEPT !.at = "ended"]
    BY <1>1, <1>2 DEF ChatIInv, ChatRow
  <1>3. CASE chat' = [chat EXCEPT !.at = "model", !.messages = <<Message("user", 0)>>]
    <2> DEFINE ms == <<Message("user", 0)>>
    <2>1. ms \in Seq(Msg) /\ DOMAIN ms = {1} /\ ms[1].role = "user"
      BY DEF Msg, Message
    <2> HIDE DEF ms
    <2>2. chat' \in ChatRow /\ chat'.messages = ms /\ chat'.calls = <<>>
      BY <1>1, <1>3, <2>1 DEF ChatRow, ms
    <2>3. Accounted(ms, <<>>)
      BY <2>1 DEF Accounted
    <2> QED BY <2>2, <2>3 DEF ChatIInv
  <1> QED BY <1>2, <1>3 DEF ChatStarts

LEMMA ModelStreamsInv == ASSUME ChatIInv, ModelStreams PROVE ChatIInv'
  <1>1. /\ chat \in ChatRow /\ chat.at = "model" /\ chat.calls = <<>> /\ Accounted(chat.messages, chat.calls)
        /\ chat.messages \in Seq(Msg) /\ chat.calls \in Seq(Nat) /\ chat.round \in Nat
    BY DEF ChatIInv, ModelStreams, ChatRow
  <1>2. PICK n \in 0..MaxToolCalls :
          LET ids == [i \in 1..n |-> chat.round * MaxToolCalls + i] IN
          chat' = IF n = 0 THEN [chat EXCEPT !.at = "ended"]
                  ELSE [chat EXCEPT !.at = "tools", !.calls = ids,
                           !.messages = @ \o [i \in 1..n |-> Message("call", ids[i])]]
    BY Zenon DEF ModelStreams
  <1> DEFINE ids == [i \in 1..n |-> chat.round * MaxToolCalls + i]
             add == [i \in 1..n |-> Message("call", ids[i])]
             ms == chat.messages \o add
  <1>3. CASE n = 0
    BY <1>1, <1>2, <1>3 DEF ChatIInv, ChatRow
  <1>4. CASE n # 0
    <2>1. chat' = [chat EXCEPT !.at = "tools", !.calls = ids, !.messages = ms]
      BY <1>1, <1>2, <1>4 DEF ChatRow
    <2>2. \A i \in 1..n : chat.round * MaxToolCalls + i \in Nat
      <3>1. chat.round * MaxToolCalls \in Nat
        BY <1>1, ServiceAssumption
      <3> QED BY <3>1
    <2>3. ids \in Seq(Nat) /\ DOMAIN ids = 1..n
      <3>1. n \in Nat
        BY ServiceAssumption
      <3>2. ids \in [1..n -> Nat]
        BY <2>2
      <3> HIDE DEF ids
      <3> QED BY <3>1, <3>2, SeqDef
    <2> HIDE DEF ids
    <2>4. add \in Seq(Msg) /\ DOMAIN add = 1..n /\ \A i \in 1..n : add[i].role = "call" /\ add[i].id = ids[i]
      <3>1. n \in Nat
        BY ServiceAssumption
      <3>2. \A i \in 1..n : Message("call", ids[i]) \in Msg
        BY <2>3, ElementOfSeq DEF Message, Msg
      <3>3. add \in [1..n -> Msg] /\ \A i \in 1..n : add[i].role = "call" /\ add[i].id = ids[i]
        BY <3>2 DEF Message
      <3> HIDE DEF add
      <3> QED BY <3>1, <3>3, SeqDef
    <2> HIDE DEF add
    <2>5. DOMAIN chat.calls = {}
      BY <1>1, EmptySeq
    <2>6. ms \in Seq(Msg) /\ Accounted(ms, ids)
      BY <1>1, <2>3, <2>4, <2>5, AccountedGrows
    <2> HIDE DEF ms
    <2>7. chat' \in ChatRow /\ chat'.at = "tools" /\ chat'.messages = ms /\ chat'.calls = ids
      BY <1>1, <2>1, <2>3, <2>6 DEF ChatRow
    <2> QED BY <2>6, <2>7 DEF ChatIInv
  <1> QED BY <1>3, <1>4

LEMMA RunToolInv == ASSUME ChatIInv, RunTool PROVE ChatIInv'
  <1>1. /\ chat \in ChatRow /\ chat.at = "tools" /\ chat.calls # <<>> /\ Accounted(chat.messages, chat.calls)
        /\ chat.messages \in Seq(Msg) /\ chat.calls \in Seq(Nat)
    BY DEF ChatIInv, RunTool, ChatRow
  <1> DEFINE cs == chat.calls
             ds == Tail(cs)
             add == <<Message("tool", Head(cs))>>
             ms == chat.messages \o add
  <1>2. chat' = [chat EXCEPT !.calls = ds, !.messages = ms]
    BY <1>1 DEF RunTool, ResultOf, ChatRow
  <1>3. /\ ds \in Seq(Nat) /\ Head(cs) \in Nat /\ Head(cs) = cs[1] /\ DOMAIN cs = 1..Len(cs) /\ Len(cs) \in Nat
        /\ DOMAIN ds = 1..(Len(cs) - 1) /\ \A i \in 1..(Len(cs) - 1) : ds[i] = cs[i + 1]
    <2> HIDE DEF cs
    <2>1. cs \in Seq(Nat) /\ cs # <<>>
      BY <1>1 DEF cs
    <2> QED BY <2>1, HeadTailProperties, LenProperties
  <1>4. add \in Seq(Msg) /\ DOMAIN add = {1} /\ add[1] = Message("tool", cs[1]) /\ add[1].role = "tool"
    BY <1>3 DEF Msg, Message
  <1> HIDE DEF ds, add
  <1>5. \A k \in DOMAIN cs : (\E l \in DOMAIN ds : ds[l] = cs[k]) \/ \E l \in DOMAIN add : add[l] = Message("tool", cs[k])
    <2> TAKE k \in DOMAIN cs
    <2>1. CASE k = 1
      BY <1>4, <2>1
    <2>2. CASE k # 1
      <3>1. k - 1 \in 1..(Len(cs) - 1) /\ (k - 1) + 1 = k
        BY <1>3, <2>2
      <3> QED BY <1>3, <3>1
    <2> QED BY <2>1, <2>2
  <1>6. \A k \in DOMAIN add : add[k].role # "call"
    BY <1>4
  <1>7. ms \in Seq(Msg) /\ Accounted(ms, ds)
    BY <1>1, <1>3, <1>4, <1>5, <1>6, AccountedGrows
  <1> HIDE DEF ms
  <1>8. chat' \in ChatRow /\ chat'.at = "tools" /\ chat'.messages = ms /\ chat'.calls = ds
    BY <1>1, <1>2, <1>3, <1>7 DEF ChatRow
  <1> QED BY <1>7, <1>8 DEF ChatIInv

LEMMA ChatNextInv == ChatIInv /\ [ChatNext]_chat => ChatIInv'
  <1> SUFFICES ASSUME ChatIInv, [ChatNext]_chat PROVE ChatIInv'
    OBVIOUS
  <1>1. CASE UNCHANGED chat
    BY <1>1 DEF ChatIInv
  <1>2. CASE ModelFails
    BY <1>2 DEF ModelFails, ChatIInv, ChatRow
  <1>3. CASE NextRound
    <2> DEFINE p == IF chat.round + 1 < MaxIterations THEN "model" ELSE "ended"
               n == chat.round + 1
    <2>1. chat' = [chat EXCEPT !.round = n, !.at = p] /\ chat.calls = <<>> /\ chat \in ChatRow
      BY <1>3 DEF NextRound, ChatIInv, ChatRow
    <2>2. p \in {"model", "ended"} /\ n \in Nat
      BY <2>1 DEF ChatRow
    <2> HIDE DEF p, n
    <2> DEFINE c == [chat EXCEPT !.round = n]
    <2>3. c \in ChatRow /\ c.messages = chat.messages /\ c.calls = chat.calls
      BY <2>1, <2>2 DEF ChatRow
    <2>4. chat' = [c EXCEPT !.at = p]
      BY <2>1
    <2> HIDE DEF c
    <2>5. chat' \in ChatRow /\ chat'.messages = chat.messages /\ chat'.calls = chat.calls
      BY <2>2, <2>3, <2>4 DEF ChatRow
    <2> QED BY <2>1, <2>5 DEF ChatIInv
  <1> QED BY <1>1, <1>2, <1>3, ChatStartsInv, ModelStreamsInv, RunToolInv DEF ChatNext

-----------------------------------------------------------------------------
(* The policies.                                                           *)

\* What a tier grants, the next one grants: a larger share of the tools, no
\* smaller allowance, -1 for none.
LEMMA TiersRise ==
    ASSUME NEW i \in 1..3, NEW k \in i..3, NEW a \in PolicyActions, NEW x \in Contexts,
           EvaluatePolicies(TRUE, Tiers[i], a, x) = "allowed"
    PROVE  EvaluatePolicies(TRUE, Tiers[k], a, x) = "allowed"
  <1>1. ~DeniesJob(Tiers[i], a, x) /\ ~DeniesCrypto(Tiers[i], a, x)
    BY DEF EvaluatePolicies
  <1>2. x.tool \in {"list_jobs", "submit_task", "cancel_job", "other"} /\ x.cost \in {0, 2, 3} /\ x.count \in {0, 1, 3}
    BY DEF Contexts
  <1>3. Tiers[1] = "start" /\ Tiers[2] = "pro" /\ Tiers[3] = "enterprise"
    BY DEF Tiers
  <1>4. /\ Tier["start"] = [jobs |-> 1,  budget |-> 1,  tools |-> "read_only"]
        /\ Tier["pro"] = [jobs |-> 2,  budget |-> 2,  tools |-> "scoped"]
        /\ Tier["enterprise"] = [jobs |-> -1, budget |-> -1, tools |-> "full"]
        /\ ToolAccess["read_only"] = {"list_jobs"} /\ ToolAccess["scoped"] = {"list_jobs", "submit_task"}
        /\ ToolAccess["full"] = {"list_jobs", "submit_task", "cancel_job"}
        /\ InvoiceCap["start"] = 1 /\ InvoiceCap["pro"] = 2 /\ InvoiceCap["enterprise"] = 3
    BY DEF Tier, ToolAccess, InvoiceCap
  <1>5. (i = 1 /\ k = 1) \/ (i = 1 /\ k = 2) \/ (i = 1 /\ k = 3) \/ (i = 2 /\ k = 2) \/ (i = 2 /\ k = 3) \/ (i = 3 /\ k = 3)
    OBVIOUS
  <1>6. ~DeniesJob(Tiers[k], a, x)
    BY <1>1, <1>2, <1>3, <1>4, <1>5 DEF DeniesJob, OverBudget
  <1>7. ~DeniesCrypto(Tiers[k], a, x)
    BY <1>1, <1>2, <1>3, <1>4, <1>5 DEF DeniesCrypto
  <1> QED BY <1>6, <1>7 DEF EvaluatePolicies

LEMMA AskNextInv == TiersAreOrdered /\ [AskNext]_asked => TiersAreOrdered'
  <1> SUFFICES ASSUME TiersAreOrdered, [AskNext]_asked PROVE TiersAreOrdered'
    OBVIOUS
  <1>1. CASE UNCHANGED asked
    BY <1>1 DEF TiersAreOrdered
  <1>2. CASE AskNext
    <2>1. PICK known \in BOOLEAN, i \in DOMAIN Tiers, a \in PolicyActions, x \in Contexts :
             asked' = [action |-> a, known |-> known, tier |-> i, context |-> x,
                       verdict |-> EvaluatePolicies(known, Tiers[i], a, x)]
      BY <1>2, Zenon DEF AskNext, AskPolicy
    <2>2. Len(Tiers) = 3 /\ DOMAIN Tiers = 1..3
      BY DEF Tiers
    <2> DEFINE v == EvaluatePolicies(known, Tiers[i], a, x)
    <2> HIDE DEF v
    <2>3. asked'.known = known /\ asked'.tier = i /\ asked'.action = a /\ asked'.context = x /\ asked'.verdict = v
      BY <2>1 DEF v
    <2>4. CASE known
      <3>1. ASSUME v = "allowed", NEW k \in i..3 PROVE EvaluatePolicies(TRUE, Tiers[k], a, x) = "allowed"
        BY <2>2, <2>4, <3>1, TiersRise DEF v
      <3> QED BY <2>2, <2>3, <2>4, <3>1 DEF TiersAreOrdered
    <2>5. CASE ~known
      <3>1. v = "denied"
        BY <2>5 DEF v, EvaluatePolicies
      <3> QED BY <2>3, <2>5, <3>1 DEF TiersAreOrdered
    <2> QED BY <2>4, <2>5
  <1> QED BY <1>1, <1>2

-----------------------------------------------------------------------------
ServiceIInv == LifeIInv /\ ChatIInv /\ SocketsIInv /\ TiersAreOrdered

LEMMA ServiceIsSafe == ServiceIInv => ServiceInv
  <1> SUFFICES ASSUME ServiceIInv PROVE ServiceInv
    OBVIOUS
  <1>1. PoolOutlivesJobs /\ InitIsBounded
    BY ServiceAssumption DEF ServiceIInv, LifeIInv, ProcRow, PoolOutlivesJobs, InitIsBounded
  <1>2. ToolsAnswered
    <2> SUFFICES ASSUME chat.at = "model", NEW i \in DOMAIN chat.messages, chat.messages[i].role = "call"
                 PROVE Given(chat.messages, i)
      BY DEF ToolsAnswered, Given
    <2>1. chat.calls = <<>> /\ DOMAIN <<>> = {}
      BY EmptySeq DEF ServiceIInv, ChatIInv
    <2> QED BY <2>1 DEF ServiceIInv, ChatIInv, Accounted
  <1>3. ActiveIsOpen /\ TiersAreOrdered
    BY DEF ServiceIInv, SocketsIInv
  <1> QED BY <1>1, <1>2, <1>3 DEF ServiceInv

\* The API process keeps its pools as long as its jobs, gives up on its
\* database in time, answers every tool call before it asks the model again,
\* lists no closed socket, and never refuses a higher tier what it grants a
\* lower one, for any delays, jobs, rounds, sockets and workers.
THEOREM ApiProcessIsSound == ServingSpec => []ServiceInv
  <1>1. ServingInit => ServiceIInv
    <2>1. ServiceInit => TiersAreOrdered
      BY DEF ServiceInit, TiersAreOrdered
    <2> QED BY <2>1, LifeInitInv, ChatInitInv, SocketsInitInv DEF ServingInit, ServiceIInv
  <1>2. [ServingNext]_ServingVars =>
           [LifeNext]_lifevars /\ [ChatNext]_chat /\ [SocketNext]_<<socks, active>> /\ [AskNext]_asked
    BY DEF ServingNext, ServingVars, LifeNext, ChatNext, SocketNext, AskNext, svcvars, lifevars
  <1>3. ServiceIInv /\ [ServingNext]_ServingVars => ServiceIInv'
    BY <1>2, LifeNextInv, ChatNextInv, SocketNextInv, AskNextInv DEF ServiceIInv
  <1> QED BY <1>1, <1>3, ServiceIsSafe, PTL DEF ServingSpec, ServingVars


-----------------------------------------------------------------------------
(* The two databases behind the adapter.                                   *)

StoredTenant == [there : BOOLEAN, hash : SKeys \cup {NoKeyHash}, plain : BOOLEAN,
              status : {"inactive", "active", "canceled"}, plan : {"free", "pro"},
              customer : {"", "invoice"}]
StoredUser == [there : BOOLEAN, tenant : STenants, hash : SKeys \cup {NoKeyHash},
            token : {"none", "live", "expired"}, verified : BOOLEAN]
LeadStates == {"new", "contacted", "lost", "invited"}
StoredMail == [to : Boxes, status : {"sent", "failed", "opened", "clicked", "bounced",
                                  "open", "click", "delivered", "bounce"},
            stamps : SUBSET {"open", "click", "delivered"}]
StoredEvent == [tenant : STenants, kind : {"login", "job_submit"}]

\* A store has its eight tables.
Tables(s) ==
    s = [tenants |-> s.tenants, users |-> s.users, invoices |-> s.invoices, leads |-> s.leads,
         mails |-> s.mails, events |-> s.events, ratings |-> s.ratings, workers |-> s.workers]

RowsOK(s) ==
    /\ s.tenants \in [STenants -> StoredTenant] /\ s.users \in [SUsers -> StoredUser]
    /\ s.invoices \in [SInvoices -> STenants \cup {"none"}]
    /\ s.leads \in Seq(LeadStates) /\ s.mails \in Seq(StoredMail) /\ s.events \in Seq(StoredEvent)

\* A user's tenant is there, is the same in both stores and the user's alone,
\* and its row was never one with a plaintext key.
Owners(lt, lu, pt, pu) ==
    \A u \in SUsers : pu[u].there =>
        /\ lu[u].tenant = pu[u].tenant
        /\ pt[pu[u].tenant].there /\ ~lt[pu[u].tenant].plain
        /\ pu[u].hash = pt[pu[u].tenant].hash
        /\ lu[u].hash = lt[pu[u].tenant].hash
        /\ \A v \in SUsers : pu[v].there /\ pu[v].tenant = pu[u].tenant => v = u

\* StoresAgree on the two tables that differ.
AccountsAlike(lt, lu, pt, pu) ==
    /\ \A t \in STenants : /\ lt[t].there <=> pt[t].there
                           /\ lt[t].status = pt[t].status
                           /\ lt[t].plan = pt[t].plan
                           /\ pt[t].customer \in {"", lt[t].customer}
    /\ \A u \in SUsers : /\ lu[u].there <=> pu[u].there
                         /\ lu[u].hash = pu[u].hash

AccountsBoth(lt, lu, pt, pu) == AccountsAlike(lt, lu, pt, pu) /\ Owners(lt, lu, pt, pu)

TablesAlike ==
    /\ lite.invoices = pg.invoices /\ lite.leads = pg.leads
    /\ lite.events = pg.events /\ lite.ratings = pg.ratings

MailsBoth(lm, pm) ==
    /\ Len(lm) = Len(pm)
    /\ \A n \in 1..Len(pm) :
          /\ lm[n].to = pm[n].to
          /\ pm[n].status = "sent" <=> lm[n].status = "sent" /\ lm[n].stamps = {}

\* A row the reader began with and has not seen is on a page to come: new rows
\* push it further back.
ReaderInv ==
    /\ reader = [pc |-> reader.pc, offset |-> reader.offset, begun |-> reader.begun, seen |-> reader.seen]
    /\ reader.pc \in {"idle", "paging", "done"}
    /\ reader.pc = "paging" =>
          /\ reader.offset \in Nat
          /\ \A n \in reader.begun : /\ n \in 1..Len(pg.events)
                                     /\ n \in reader.seen \/ Len(pg.events) - n >= reader.offset
    /\ PagesMissNothing

DualIInv ==
    /\ Tables(lite) /\ Tables(pg) /\ RowsOK(lite) /\ RowsOK(pg)
    /\ TablesAlike /\ MailsBoth(lite.mails, pg.mails)
    /\ AccountsBoth(lite.tenants, lite.users, pg.tenants, pg.users)
    /\ ReaderInv

\* What callers rely on, except for the sums and lists of the reading calls.
StoresSound == StoresAgree /\ MailsAgree /\ KeysOpenTenants /\ PagesMissNothing


-----------------------------------------------------------------------------
\* r has the tables of s but for tenants and users, or but for the one named.
SameRest(r, s) ==
    /\ Tables(r)
    /\ r.invoices = s.invoices /\ r.leads = s.leads /\ r.mails = s.mails
    /\ r.events = s.events /\ r.ratings = s.ratings

LEMMA TenantsSet ==
    ASSUME NEW s, Tables(s), NEW v
    PROVE  LET r == [s EXCEPT !.tenants = v]
           IN SameRest(r, s) /\ r.tenants = v /\ r.users = s.users
  BY DEF Tables, SameRest

LEMMA UsersSet ==
    ASSUME NEW s, Tables(s), NEW v
    PROVE  LET r == [s EXCEPT !.users = v]
           IN SameRest(r, s) /\ r.users = v /\ r.tenants = s.tenants
  BY DEF Tables, SameRest

\* r is s with the row v of tenant t, or of user u.
TenantIs(r, s, t, v) == SameRest(r, s) /\ r.tenants = [s.tenants EXCEPT ![t] = v] /\ r.users = s.users
UserIs(r, s, u, v) == SameRest(r, s) /\ r.users = [s.users EXCEPT ![u] = v] /\ r.tenants = s.tenants

LEMMA TenantSet ==
    ASSUME NEW s, Tables(s), NEW t, NEW v, NEW r, r = [s EXCEPT !.tenants[t] = v]
    PROVE  TenantIs(r, s, t, v)
  <1> DEFINE w == [s.tenants EXCEPT ![t] = v]
  <1>1. [s EXCEPT !.tenants[t] = v] = [s EXCEPT !.tenants = w]
    OBVIOUS
  <1> HIDE DEF w
  <1>2. SameRest(r, s) /\ r.tenants = w /\ r.users = s.users
    BY <1>1, TenantsSet
  <1> QED BY <1>1, <1>2, Zenon DEF w, TenantIs

LEMMA UserSet ==
    ASSUME NEW s, Tables(s), NEW u, NEW v, NEW r, r = [s EXCEPT !.users[u] = v]
    PROVE  UserIs(r, s, u, v)
  <1> DEFINE w == [s.users EXCEPT ![u] = v]
  <1>1. [s EXCEPT !.users[u] = v] = [s EXCEPT !.users = w]
    OBVIOUS
  <1> HIDE DEF w
  <1>2. SameRest(r, s) /\ r.users = w /\ r.tenants = s.tenants
    BY <1>1, UsersSet
  <1> QED BY <1>1, <1>2, Zenon DEF w, UserIs

\* A call that touches tenants and users only.
LEMMA AccountsCall ==
    ASSUME DualIInv, UNCHANGED reader, SameRest(lite', lite), SameRest(pg', pg),
           lite'.tenants \in [STenants -> StoredTenant], lite'.users \in [SUsers -> StoredUser],
           pg'.tenants \in [STenants -> StoredTenant], pg'.users \in [SUsers -> StoredUser],
           AccountsBoth(lite'.tenants, lite'.users, pg'.tenants, pg'.users)
    PROVE  DualIInv'
  <1>1. Tables(lite)' /\ Tables(pg)' /\ RowsOK(lite)' /\ RowsOK(pg)'
    BY DEF SameRest, DualIInv, RowsOK, Tables
  <1>2. TablesAlike' /\ MailsBoth(lite.mails, pg.mails)'
    BY DEF SameRest, DualIInv, TablesAlike, MailsBoth
  <1>3. ReaderInv'
    BY DEF SameRest, DualIInv, ReaderInv, PagesMissNothing
  <1> QED BY <1>1, <1>2, <1>3, Zenon DEF DualIInv


LEMMA FirstRows ==
    /\ (CHOOSE t \in STenants : TRUE) \in STenants
    /\ (CHOOSE k \in SKeys : TRUE) \in SKeys
    /\ Absent \in StoredTenant /\ ~Absent.there
    /\ NoAccount \in StoredUser /\ ~NoAccount.there
  <1>1. (CHOOSE t \in STenants : TRUE) \in STenants /\ (CHOOSE k \in SKeys : TRUE) \in SKeys
    BY DualStoreAssumption, Zenon
  <1> QED BY <1>1 DEF Absent, NoAccount, StoredTenant, StoredUser

LEMMA DualInitInv == DualStoreInit => DualIInv
  <1> SUFFICES ASSUME DualStoreInit PROVE DualIInv
    OBVIOUS
  <1> DEFINE old == CHOOSE t \in STenants : TRUE
  <1>1. PICK row : /\ lite = [Empty EXCEPT !.tenants[old] = row]
                   /\ pg = [Empty EXCEPT !.tenants[old] = row]
                   /\ \E h \in SKeys \cup {NoKeyHash} :
                         row = [Absent EXCEPT !.there = TRUE, !.plain = TRUE, !.hash = h]
    <2>1. PICK hashed \in BOOLEAN :
            LET r == [Absent EXCEPT !.there = TRUE, !.plain = TRUE,
                                    !.hash = IF hashed THEN CHOOSE k \in SKeys : TRUE ELSE NoKeyHash]
            IN /\ lite = [Empty EXCEPT !.tenants[old] = r]
               /\ pg = [Empty EXCEPT !.tenants[old] = r]
      BY Zenon DEF DualStoreInit
    <2> DEFINE h == IF hashed THEN CHOOSE k \in SKeys : TRUE ELSE NoKeyHash
    <2>2. h \in SKeys \cup {NoKeyHash}
      BY FirstRows
    <2> QED BY <2>1, <2>2, Zenon
  <1> HIDE DEF old
  <1>2. row \in StoredTenant
    BY <1>1, FirstRows DEF StoredTenant
  <1>3. Tables(Empty) /\ Empty.tenants = [t \in STenants |-> Absent]
        /\ Empty.users = [u \in SUsers |-> NoAccount] /\ Empty.leads = <<>> /\ Empty.mails = <<>>
        /\ Empty.events = <<>> /\ Empty.ratings = <<>>
        /\ Empty.invoices = [i \in SInvoices |-> "none"]
    BY DEF Tables, Empty
  <1>4. /\ SameRest(lite, Empty) /\ lite.users = Empty.users
        /\ lite.tenants = [Empty.tenants EXCEPT ![old] = row]
    <2>1. Tables(Empty)
      BY <1>3
    <2>2. lite = [Empty EXCEPT !.tenants[old] = row]
      BY <1>1
    <2>3. TenantIs(lite, Empty, old, row)
      BY <2>1, <2>2, TenantSet
    <2> QED BY <2>3 DEF TenantIs
  <1>5. lite.tenants \in [STenants -> StoredTenant] /\ lite.users \in [SUsers -> StoredUser]
    BY <1>2, <1>3, <1>4, FirstRows
  <1>6. \A u \in SUsers : ~lite.users[u].there
    BY <1>3, <1>4, FirstRows
  <1>7. pg = lite
    BY <1>1
  <1>8. AccountsBoth(lite.tenants, lite.users, pg.tenants, pg.users)
    BY <1>6, <1>7 DEF AccountsBoth, AccountsAlike, Owners
  <1>9. Tables(lite) /\ RowsOK(lite)
    BY <1>3, <1>4, <1>5, EmptySeq DEF SameRest, RowsOK
  <1>10. TablesAlike /\ MailsBoth(lite.mails, pg.mails)
    BY <1>3, <1>4, <1>7, EmptySeq DEF TablesAlike, MailsBoth, SameRest
  <1>11. ReaderInv
    BY DEF DualStoreInit, AtRestReader, ReaderInv, PagesMissNothing
  <1> QED BY <1>7, <1>8, <1>9, <1>10, <1>11 DEF DualIInv

-----------------------------------------------------------------------------
(* Tenants.                                                                *)

LEMMA DigestedIs ==
    ASSUME NEW row \in StoredTenant
    PROVE  /\ Digested(row) \in StoredTenant
           /\ Digested(row).there <=> row.there
           /\ Digested(row).status = row.status /\ Digested(row).plan = row.plan
           /\ Digested(row).customer = row.customer
           /\ ~row.plain => Digested(row) = row
  <1>1. CASE ~row.plain
    BY <1>1 DEF Digested
  <1>2. CASE row.plain
    <2>1. PICK h \in SKeys \cup {NoKeyHash} : h = IF row.hash = NoKeyHash THEN CHOOSE k \in SKeys : TRUE ELSE row.hash
      BY FirstRows DEF StoredTenant
    <2>2. Digested(row) = [row EXCEPT !.plain = FALSE, !.hash = h]
      BY <1>2, <2>1 DEF Digested, StoredTenant
    <2> QED BY <1>2, <2>2 DEF StoredTenant
  <1> QED BY <1>1, <1>2

LEMMA InitDbInv == ASSUME DualIInv, InitDb PROVE DualIInv'
  <1> DEFINE lt == [t \in STenants |-> Digested(lite.tenants[t])]
  <1>1. lite' = [lite EXCEPT !.tenants = lt] /\ pg' = pg /\ UNCHANGED reader
    BY DEF InitDb, Called
  <1>2. /\ Tables(lite) /\ Tables(pg) /\ RowsOK(lite) /\ RowsOK(pg)
        /\ AccountsBoth(lite.tenants, lite.users, pg.tenants, pg.users)
    BY DEF DualIInv
  <1>3. lite.tenants \in [STenants -> StoredTenant]
    BY <1>2 DEF RowsOK
  <1>4. lt \in [STenants -> StoredTenant] /\ \A t \in STenants : lt[t] = Digested(lite.tenants[t])
    BY <1>3, DigestedIs
  <1> HIDE DEF lt
  <1>5. SameRest(lite', lite) /\ lite'.tenants = lt /\ lite'.users = lite.users
    BY <1>1, <1>2, TenantsSet
  <1>6. SameRest(pg', pg)
    BY <1>1, <1>2 DEF SameRest
  <1>7. \A t \in STenants : /\ lt[t].there <=> lite.tenants[t].there
                            /\ lt[t].status = lite.tenants[t].status /\ lt[t].plan = lite.tenants[t].plan
                            /\ lt[t].customer = lite.tenants[t].customer
                            /\ ~lite.tenants[t].plain => lt[t] = lite.tenants[t]
    BY <1>3, <1>4, DigestedIs
  <1>8. AccountsBoth(lt, lite.users, pg.tenants, pg.users)
    <2>1. AccountsAlike(lt, lite.users, pg.tenants, pg.users)
      BY <1>2, <1>7 DEF AccountsBoth, AccountsAlike
    <2>2. Owners(lt, lite.users, pg.tenants, pg.users)
      BY <1>2, <1>7 DEF AccountsBoth, Owners, RowsOK, StoredUser
    <2> QED BY <2>1, <2>2 DEF AccountsBoth
  <1> QED BY <1>1, <1>2, <1>4, <1>5, <1>6, <1>8, AccountsCall DEF RowsOK

\* r is s with a new row of tenant t and key k, unless there was one.
WithTenant(r, s, t, k) ==
    /\ SameRest(r, s) /\ r.users = s.users
    /\ r.tenants \in [STenants -> StoredTenant]
    /\ \A x \in STenants : x # t \/ s.tenants[t].there => r.tenants[x] = s.tenants[x]
    /\ ~s.tenants[t].there =>
          /\ r.tenants[t].there /\ r.tenants[t].hash = k /\ ~r.tenants[t].plain
          /\ r.tenants[t].status = "inactive" /\ r.tenants[t].plan = "free"
          /\ r.tenants[t].customer = ""

LEMMA SeededIs ==
    ASSUME NEW s, Tables(s), s.tenants \in [STenants -> StoredTenant], NEW t \in STenants, NEW k \in SKeys
    PROVE  WithTenant(Seeded(s, t, k), s, t, k)
  <1>1. CASE s.tenants[t].there
    BY <1>1 DEF Seeded, SameRest, WithTenant
  <1>2. CASE ~s.tenants[t].there
    <2>1. PICK row : row = [Absent EXCEPT !.there = TRUE, !.hash = k]
      OBVIOUS
    <2>2. /\ row \in StoredTenant /\ row.there /\ row.hash = k /\ ~row.plain
          /\ row.status = "inactive" /\ row.plan = "free" /\ row.customer = ""
      BY <2>1 DEF StoredTenant, Absent
    <2>3. Seeded(s, t, k) = [s EXCEPT !.tenants[t] = row]
      BY <1>2, <2>1 DEF Seeded
    <2>4. PICK r : r = [s EXCEPT !.tenants[t] = row]
      OBVIOUS
    <2>5. SameRest(r, s) /\ r.tenants = [s.tenants EXCEPT ![t] = row] /\ r.users = s.users
      BY <2>4, TenantSet DEF TenantIs
    <2>6. r.tenants \in [STenants -> StoredTenant] /\ r.tenants[t] = row
          /\ \A x \in STenants : x # t => r.tenants[x] = s.tenants[x]
      BY <2>2, <2>5
    <2>7. WithTenant(r, s, t, k)
      BY <1>2, <2>2, <2>5, <2>6 DEF WithTenant
    <2> QED BY <2>3, <2>4, <2>7, Zenon
  <1> QED BY <1>1, <1>2


\* What a call that changes one tenant's row has to keep.
OneTenant(lt, pt, nl, np, t) ==
    /\ lt[t].there <=> nl[t].there
    /\ pt[t].there <=> np[t].there
    /\ nl[t].plain <=> lt[t].plain
    /\ nl[t].status = np[t].status /\ nl[t].plan = np[t].plan
    /\ np[t].customer \in {"", nl[t].customer}
    /\ nl[t].hash = lt[t].hash /\ np[t].hash = pt[t].hash
    /\ \A x \in STenants : x # t => nl[x] = lt[x] /\ np[x] = pt[x]

LEMMA OneTenantInv ==
    ASSUME NEW lt, NEW lu, NEW pt, NEW pu, NEW t \in STenants, NEW nl, NEW np,
           pu \in [SUsers -> StoredUser],
           AccountsBoth(lt, lu, pt, pu), OneTenant(lt, pt, nl, np, t)
    PROVE  AccountsBoth(nl, lu, np, pu)
  <1>1. AccountsAlike(nl, lu, np, pu)
    BY DEF AccountsBoth, AccountsAlike, OneTenant
  <1>2. Owners(nl, lu, np, pu)
    <2> SUFFICES ASSUME NEW u \in SUsers, pu[u].there
                 PROVE  /\ lu[u].tenant = pu[u].tenant
                        /\ np[pu[u].tenant].there /\ ~nl[pu[u].tenant].plain
                        /\ pu[u].hash = np[pu[u].tenant].hash
                        /\ lu[u].hash = nl[pu[u].tenant].hash
                        /\ \A v \in SUsers : pu[v].there /\ pu[v].tenant = pu[u].tenant => v = u
      BY DEF Owners
    <2>1. PICK x \in STenants : x = pu[u].tenant
      BY DEF StoredUser
    <2>2. /\ lu[u].tenant = x /\ pt[x].there /\ ~lt[x].plain
          /\ pu[u].hash = pt[x].hash /\ lu[u].hash = lt[x].hash
          /\ \A v \in SUsers : pu[v].there /\ pu[v].tenant = x => v = u
      BY <2>1, Zenon DEF AccountsBoth, Owners
    <2>3. np[x].there /\ ~nl[x].plain /\ np[x].hash = pt[x].hash /\ nl[x].hash = lt[x].hash
      <3>1. CASE x = t
        BY <2>2, <3>1 DEF OneTenant
      <3>2. CASE x # t
        BY <2>2, <3>2 DEF OneTenant
      <3> QED BY <3>1, <3>2
    <2> QED BY <2>1, <2>2, <2>3, Zenon
  <1> QED BY <1>1, <1>2 DEF AccountsBoth

LEMMA SeedTenantsInv ==
    ASSUME DualIInv, NEW t \in STenants, NEW k \in SKeys, SeedTenants(t, k) PROVE DualIInv'
  <1>1. lite' = Seeded(lite, t, k) /\ pg' = Seeded(pg, t, k) /\ UNCHANGED reader
    BY DEF SeedTenants, Called
  <1>2. /\ Tables(lite) /\ Tables(pg) /\ RowsOK(lite) /\ RowsOK(pg)
        /\ AccountsBoth(lite.tenants, lite.users, pg.tenants, pg.users)
    BY DEF DualIInv
  <1>3. WithTenant(lite', lite, t, k)
    BY <1>1, <1>2, SeededIs, Zenon DEF RowsOK
  <1>4. WithTenant(pg', pg, t, k)
    BY <1>1, <1>2, SeededIs, Zenon DEF RowsOK
  <1>5. lite.tenants[t].there <=> pg.tenants[t].there
    BY <1>2 DEF AccountsBoth, AccountsAlike
  <1>6. AccountsAlike(lite'.tenants, lite.users, pg'.tenants, pg.users)
    <2>1. AccountsAlike(lite.tenants, lite.users, pg.tenants, pg.users)
      BY <1>2 DEF AccountsBoth
    <2>2. ASSUME NEW x \in STenants
          PROVE  /\ lite'.tenants[x].there <=> pg'.tenants[x].there
                 /\ lite'.tenants[x].status = pg'.tenants[x].status
                 /\ lite'.tenants[x].plan = pg'.tenants[x].plan
                 /\ pg'.tenants[x].customer \in {"", lite'.tenants[x].customer}
      <3>1. CASE x # t \/ pg.tenants[t].there
        <4>1. lite'.tenants[x] = lite.tenants[x] /\ pg'.tenants[x] = pg.tenants[x]
          BY <1>3, <1>4, <1>5, <3>1 DEF WithTenant
        <4> QED BY <2>1, <4>1 DEF AccountsAlike
      <3>2. CASE x = t /\ ~pg.tenants[t].there
        BY <1>3, <1>4, <1>5, <3>2 DEF WithTenant
      <3> QED BY <3>1, <3>2
    <2> QED BY <2>1, <2>2 DEF AccountsAlike
  <1>7. Owners(lite'.tenants, lite.users, pg'.tenants, pg.users)
    <2>1. \A u \in SUsers : pg.users[u].there =>
             /\ pg.users[u].tenant \in STenants /\ pg.tenants[pg.users[u].tenant].there
      BY <1>2 DEF AccountsBoth, Owners, RowsOK, StoredUser
    <2>2. \A u \in SUsers : pg.users[u].there =>
             /\ lite'.tenants[pg.users[u].tenant] = lite.tenants[pg.users[u].tenant]
             /\ pg'.tenants[pg.users[u].tenant] = pg.tenants[pg.users[u].tenant]
      BY <1>3, <1>4, <1>5, <2>1 DEF WithTenant
    <2> QED BY <1>2, <2>2 DEF AccountsBoth, Owners
  <1>8. AccountsBoth(lite'.tenants, lite'.users, pg'.tenants, pg'.users)
    BY <1>3, <1>4, <1>6, <1>7 DEF AccountsBoth, WithTenant
  <1> QED BY <1>1, <1>2, <1>3, <1>4, <1>8, AccountsCall DEF RowsOK, WithTenant

\* r is s with other subscription columns in the row of tenant t.
WithPlan(r, s, t, st, plan, c) ==
    /\ SameRest(r, s) /\ r.users = s.users
    /\ r.tenants \in [STenants -> StoredTenant]
    /\ \A x \in STenants : x # t => r.tenants[x] = s.tenants[x]
    /\ r.tenants[t].there <=> s.tenants[t].there
    /\ r.tenants[t].plain <=> s.tenants[t].plain
    /\ r.tenants[t].hash = s.tenants[t].hash
    /\ r.tenants[t].status = st /\ r.tenants[t].plan = plan /\ r.tenants[t].customer = c

PlanIs(new, row, st, plan, c) ==
    /\ new \in StoredTenant
    /\ new.there <=> row.there
    /\ new.plain <=> row.plain
    /\ new.hash = row.hash /\ new.status = st /\ new.plan = plan /\ new.customer = c

LEMMA PlanRow ==
    ASSUME NEW s, s.tenants \in [STenants -> StoredTenant], NEW t \in STenants, NEW st, NEW plan, NEW c,
           NEW r, NEW new, TenantIs(r, s, t, new), PlanIs(new, s.tenants[t], st, plan, c)
    PROVE  WithPlan(r, s, t, st, plan, c)
  <1>1. SameRest(r, s) /\ r.tenants = [s.tenants EXCEPT ![t] = new] /\ r.users = s.users
    BY DEF TenantIs
  <1>2. r.tenants \in [STenants -> StoredTenant] /\ r.tenants[t] = new
        /\ \A x \in STenants : x # t => r.tenants[x] = s.tenants[x]
    BY <1>1 DEF PlanIs
  <1> QED BY <1>1, <1>2 DEF WithPlan, PlanIs

LEMMA SubscribedIs ==
    ASSUME NEW s, Tables(s), s.tenants \in [STenants -> StoredTenant], NEW t \in STenants,
           NEW st \in {"inactive", "active", "canceled"}, NEW plan \in {"free", "pro"},
           NEW c \in {"", "invoice"}, NEW r,
           r = [s EXCEPT !.tenants[t].status = st, !.tenants[t].plan = plan, !.tenants[t].customer = c]
    PROVE  WithPlan(r, s, t, st, plan, c)
  <1>1. PICK row \in StoredTenant : row = s.tenants[t]
    OBVIOUS
  <1>2. PICK new : new = [row EXCEPT !.status = st, !.plan = plan, !.customer = c]
    OBVIOUS
  <1>3. PlanIs(new, row, st, plan, c)
    BY <1>2 DEF StoredTenant, PlanIs
  <1>4. r = [s EXCEPT !.tenants[t] = new]
    BY <1>1, <1>2 DEF Tables
  <1>5. TenantIs(r, s, t, new)
    BY <1>4, TenantSet
  <1> QED BY <1>1, <1>3, <1>5, PlanRow, Zenon

LEMMA LiteSubscribesIs ==
    ASSUME NEW s, Tables(s), s.tenants \in [STenants -> StoredTenant], NEW t \in STenants,
           NEW st \in {"inactive", "active", "canceled"}, NEW plan \in {"free", "pro"},
           NEW c \in {"", "invoice"}, s.tenants[t].there
    PROVE  WithPlan(LiteSubscribes(s, t, c, st, plan), s, t, st, plan,
                    IF c = "" THEN s.tenants[t].customer ELSE c)
  <1>1. PICK d \in {"", "invoice"} : d = IF c = "" THEN s.tenants[t].customer ELSE c
    BY DEF StoredTenant
  <1>2. PICK r : r = LiteSubscribes(s, t, c, st, plan)
    OBVIOUS
  <1>3. r = [s EXCEPT !.tenants[t].status = st, !.tenants[t].plan = plan, !.tenants[t].customer = d]
    BY <1>1, <1>2 DEF LiteSubscribes, Tables, StoredTenant
  <1>4. WithPlan(r, s, t, st, plan, d)
    BY <1>3, SubscribedIs
  <1> QED BY <1>1, <1>2, <1>4, Zenon

LEMMA PgSubscribesIs ==
    ASSUME NEW s, Tables(s), s.tenants \in [STenants -> StoredTenant], NEW t \in STenants,
           NEW st \in {"inactive", "active", "canceled"}, NEW plan \in {"free", "pro"},
           NEW c \in {"", "invoice"}, s.tenants[t].there
    PROVE  WithPlan(PgSubscribes(s, t, c, st, plan), s, t, st, plan, c)
  <1>1. PICK r : r = PgSubscribes(s, t, c, st, plan)
    OBVIOUS
  <1>2. r = [s EXCEPT !.tenants[t].status = st, !.tenants[t].plan = plan, !.tenants[t].customer = c]
    BY <1>1 DEF PgSubscribes
  <1>3. WithPlan(r, s, t, st, plan, c)
    BY <1>2, SubscribedIs
  <1> QED BY <1>1, <1>3, Zenon

\* A call after which the row of one tenant has the same plan in both stores.
LEMMA PlanCall ==
    ASSUME DualIInv, UNCHANGED reader, NEW t \in STenants, NEW st, NEW plan, NEW c, NEW d,
           WithPlan(lite', lite, t, st, plan, c), WithPlan(pg', pg, t, st, plan, d), d \in {"", c}
    PROVE  DualIInv'
  <1>1. /\ RowsOK(lite) /\ RowsOK(pg) /\ AccountsBoth(lite.tenants, lite.users, pg.tenants, pg.users)
    BY DEF DualIInv
  <1>2. pg.users \in [SUsers -> StoredUser]
    BY <1>1 DEF RowsOK
  <1>3. AccountsBoth(lite'.tenants, lite.users, pg'.tenants, pg.users)
    <2>1. PICK lt, lu, pt, pu, nl, np :
             /\ lt = lite.tenants /\ lu = lite.users /\ pt = pg.tenants /\ pu = pg.users
             /\ nl = lite'.tenants /\ np = pg'.tenants
      OBVIOUS
    <2>2. pu \in [SUsers -> StoredUser] /\ AccountsBoth(lt, lu, pt, pu)
      BY <1>1, <1>2, <2>1, Zenon
    <2>3. OneTenant(lt, pt, nl, np, t)
      BY <2>1 DEF OneTenant, WithPlan
    <2>4. AccountsBoth(nl, lu, np, pu)
      BY <2>2, <2>3, OneTenantInv
    <2> QED BY <2>1, <2>4, Zenon
  <1> QED BY <1>1, <1>3, AccountsCall DEF WithPlan, RowsOK

LEMMA StoresRest ==
    ASSUME DualIInv, UNCHANGED <<lite, pg, reader>> PROVE DualIInv'
  BY DEF DualIInv, TablesAlike, ReaderInv, PagesMissNothing

LEMMA UpdateTenantSubscriptionInv ==
    ASSUME DualIInv, NEW t \in STenants, NEW call \in {"paid", "free", "canceled"},
           UpdateTenantSubscription(t, call)
    PROVE  DualIInv'
  <1>1. PICK c \in {"", "invoice"}, st \in {"inactive", "active", "canceled"}, plan \in {"free", "pro"} :
           /\ lite' = LiteSubscribes(lite, t, c, st, plan) /\ pg' = PgSubscribes(pg, t, c, st, plan)
           /\ UNCHANGED reader
    <2>1. CASE call = "paid"
      BY <2>1 DEF UpdateTenantSubscription, Called
    <2>2. CASE call = "free"
      BY <2>2 DEF UpdateTenantSubscription, Called
    <2>3. CASE call = "canceled"
      BY <2>3 DEF UpdateTenantSubscription, Called
    <2> QED BY <2>1, <2>2, <2>3
  <1>2. /\ Tables(lite) /\ Tables(pg)
        /\ lite.tenants \in [STenants -> StoredTenant] /\ pg.tenants \in [STenants -> StoredTenant]
        /\ AccountsAlike(lite.tenants, lite.users, pg.tenants, pg.users)
    BY DEF DualIInv, RowsOK, AccountsBoth
  <1>3. lite.tenants[t].there <=> pg.tenants[t].there
    BY <1>2 DEF AccountsAlike
  <1>4. CASE pg.tenants[t].there
    <2>1. PICK d : d = IF c = "" THEN lite.tenants[t].customer ELSE c
      OBVIOUS
    <2>2. WithPlan(lite', lite, t, st, plan, d)
      BY <1>1, <1>2, <1>3, <1>4, <2>1, LiteSubscribesIs
    <2>3. WithPlan(pg', pg, t, st, plan, c)
      BY <1>1, <1>2, <1>4, PgSubscribesIs
    <2>4. c \in {"", d}
      BY <2>1
    <2> QED BY <1>1, <2>2, <2>3, <2>4, PlanCall
  <1>5. CASE ~pg.tenants[t].there
    BY <1>1, <1>3, <1>5, StoresRest DEF LiteSubscribes, PgSubscribes
  <1> QED BY <1>4, <1>5

LEMMA InactiveIs ==
    ASSUME NEW s, Tables(s), s.tenants \in [STenants -> StoredTenant], NEW t \in STenants
    PROVE  WithPlan([s EXCEPT !.tenants[t].status = "inactive"], s, t, "inactive",
                    s.tenants[t].plan, s.tenants[t].customer)
  <1>1. PICK row \in StoredTenant : row = s.tenants[t]
    OBVIOUS
  <1>2. row.plan \in {"free", "pro"} /\ row.customer \in {"", "invoice"}
    BY DEF StoredTenant
  <1>3. PICK r : r = [s EXCEPT !.tenants[t].status = "inactive"]
    OBVIOUS
  <1>4. r = [s EXCEPT !.tenants[t].status = "inactive", !.tenants[t].plan = row.plan,
                      !.tenants[t].customer = row.customer]
    BY <1>1, <1>3 DEF Tables, StoredTenant
  <1>5. WithPlan(r, s, t, "inactive", row.plan, row.customer)
    BY <1>2, <1>4, SubscribedIs
  <1> QED BY <1>1, <1>3, <1>5, Zenon

LEMMA SetTenantInactiveInv ==
    ASSUME DualIInv, NEW t \in STenants, SetTenantInactive(t) PROVE DualIInv'
  <1>1. /\ Tables(lite) /\ Tables(pg)
        /\ lite.tenants \in [STenants -> StoredTenant] /\ pg.tenants \in [STenants -> StoredTenant]
        /\ AccountsAlike(lite.tenants, lite.users, pg.tenants, pg.users)
    BY DEF DualIInv, RowsOK, AccountsBoth
  <1>2. /\ lite.tenants[t].there <=> pg.tenants[t].there
        /\ lite.tenants[t].plan = pg.tenants[t].plan
        /\ pg.tenants[t].customer \in {"", lite.tenants[t].customer}
    BY <1>1 DEF AccountsAlike
  <1>3. CASE pg.tenants[t].there
    <2>1. /\ lite' = [lite EXCEPT !.tenants[t].status = "inactive"]
          /\ pg' = [pg EXCEPT !.tenants[t].status = "inactive"] /\ UNCHANGED reader
      BY <1>2, <1>3 DEF SetTenantInactive, Called
    <2>2. WithPlan(lite', lite, t, "inactive", lite.tenants[t].plan, lite.tenants[t].customer)
      BY <1>1, <2>1, InactiveIs
    <2>3. WithPlan(pg', pg, t, "inactive", lite.tenants[t].plan, pg.tenants[t].customer)
      BY <1>1, <1>2, <2>1, InactiveIs
    <2> QED BY <1>2, <2>1, <2>2, <2>3, PlanCall
  <1>4. CASE ~pg.tenants[t].there
    BY <1>2, <1>4, StoresRest DEF SetTenantInactive, Called
  <1> QED BY <1>3, <1>4


-----------------------------------------------------------------------------
(* Users, keys and tokens.                                                 *)

\* A call on the tokens of a user leaves tenant and key alone.
TokensOnly(r, s) ==
    /\ SameRest(r, s) /\ r.tenants = s.tenants
    /\ r.users \in [SUsers -> StoredUser]
    /\ \A v \in SUsers : /\ r.users[v].there <=> s.users[v].there
                         /\ r.users[v].tenant = s.users[v].tenant
                         /\ r.users[v].hash = s.users[v].hash

LEMMA TokensCall ==
    ASSUME DualIInv, UNCHANGED reader, TokensOnly(lite', lite), TokensOnly(pg', pg)
    PROVE  DualIInv'
  <1>1. /\ RowsOK(lite) /\ RowsOK(pg) /\ AccountsBoth(lite.tenants, lite.users, pg.tenants, pg.users)
    BY DEF DualIInv
  <1>2. PICK lt, lu, pt, pu, nl, np :
           /\ lt = lite.tenants /\ lu = lite.users /\ pt = pg.tenants /\ pu = pg.users
           /\ nl = lite'.users /\ np = pg'.users
    OBVIOUS
  <1>3. \A v \in SUsers : /\ nl[v].there <=> lu[v].there
                          /\ np[v].there <=> pu[v].there
                          /\ nl[v].tenant = lu[v].tenant /\ nl[v].hash = lu[v].hash
                          /\ np[v].tenant = pu[v].tenant /\ np[v].hash = pu[v].hash
    BY <1>2 DEF TokensOnly
  <1>4. AccountsBoth(lt, lu, pt, pu)
    BY <1>1, <1>2, Zenon
  <1>5. AccountsAlike(lt, nl, pt, np)
    BY <1>3, <1>4 DEF AccountsBoth, AccountsAlike
  <1>6. Owners(lt, nl, pt, np)
    <2> SUFFICES ASSUME NEW u \in SUsers, np[u].there
                 PROVE  /\ nl[u].tenant = np[u].tenant
                        /\ pt[np[u].tenant].there /\ ~lt[np[u].tenant].plain
                        /\ np[u].hash = pt[np[u].tenant].hash
                        /\ nl[u].hash = lt[np[u].tenant].hash
                        /\ \A v \in SUsers : np[v].there /\ np[v].tenant = np[u].tenant => v = u
      BY DEF Owners
    <2>1. pu[u].there
      BY <1>3
    <2>2. /\ lu[u].tenant = pu[u].tenant
          /\ pt[pu[u].tenant].there /\ ~lt[pu[u].tenant].plain
          /\ pu[u].hash = pt[pu[u].tenant].hash
          /\ lu[u].hash = lt[pu[u].tenant].hash
          /\ \A v \in SUsers : pu[v].there /\ pu[v].tenant = pu[u].tenant => v = u
      BY <1>4, <2>1, Zenon DEF AccountsBoth, Owners
    <2> QED BY <1>3, <2>2, Zenon
  <1>7. AccountsBoth(lt, nl, pt, np)
    BY <1>5, <1>6 DEF AccountsBoth
  <1>8. AccountsBoth(lite'.tenants, lite'.users, pg'.tenants, pg'.users)
    <2>1. lite'.tenants = lt /\ pg'.tenants = pt
      BY <1>2 DEF TokensOnly
    <2> QED BY <1>2, <1>7, <2>1, Zenon
  <1> QED BY <1>1, <1>8, AccountsCall DEF TokensOnly, RowsOK

LEMMA NoTokens ==
    ASSUME NEW s, Tables(s), RowsOK(s) PROVE TokensOnly(s, s)
  BY DEF TokensOnly, SameRest, RowsOK

LEMMA TokenSet ==
    ASSUME NEW s, Tables(s), RowsOK(s), NEW u \in SUsers,
           NEW b \in BOOLEAN, NEW tok \in {"none", "live", "expired"},
           NEW r, r = [s EXCEPT !.users[u].verified = b, !.users[u].token = tok]
    PROVE  TokensOnly(r, s)
  <1>0. s.users \in [SUsers -> StoredUser]
    BY DEF RowsOK
  <1>1. PICK row \in StoredUser : row = s.users[u]
    BY <1>0
  <1>2. PICK new : new = [row EXCEPT !.verified = b, !.token = tok]
    OBVIOUS
  <1>3. /\ new \in StoredUser
        /\ new.there <=> row.there
        /\ new.tenant = row.tenant /\ new.hash = row.hash
    BY <1>2 DEF StoredUser
  <1>4. r = [s EXCEPT !.users[u] = new]
    BY <1>0, <1>1, <1>2 DEF Tables
  <1>5. UserIs(r, s, u, new)
    BY <1>4, UserSet
  <1>6. PICK f, g : f = s.users /\ g = r.users
    OBVIOUS
  <1>7. f \in [SUsers -> StoredUser] /\ g = [f EXCEPT ![u] = new] /\ f[u] = row
    BY <1>0, <1>1, <1>5, <1>6, Zenon DEF UserIs
  <1>8. /\ g \in [SUsers -> StoredUser]
        /\ \A v \in SUsers : /\ g[v].there <=> f[v].there
                             /\ g[v].tenant = f[v].tenant /\ g[v].hash = f[v].hash
    BY <1>3, <1>7
  <1> QED BY <1>5, <1>6, <1>8, Zenon DEF UserIs, TokensOnly

LEMMA OneTokenSet ==
    ASSUME NEW s, Tables(s), RowsOK(s), NEW u \in SUsers, NEW tok \in {"none", "live", "expired"},
           NEW r, r = [s EXCEPT !.users[u].token = tok]
    PROVE  TokensOnly(r, s)
  <1>1. PICK b \in BOOLEAN : b = s.users[u].verified
    BY DEF RowsOK, StoredUser
  <1>2. r = [s EXCEPT !.users[u].verified = b, !.users[u].token = tok]
    BY <1>1 DEF Tables, RowsOK, StoredUser
  <1> QED BY <1>2, TokenSet

LEMMA TokenCallsInv ==
    ASSUME DualIInv, NEW u \in SUsers,
           \/ SetVerificationToken(u) \/ MarkEmailVerified(u) \/ ConsumeVerificationToken(u)
           \/ RestoreVerificationToken(u) \/ TokenExpires(u)
    PROVE  DualIInv'
  <1>1. Tables(lite) /\ Tables(pg) /\ RowsOK(lite) /\ RowsOK(pg)
    BY DEF DualIInv
  <1>2. TokensOnly(lite, lite) /\ TokensOnly(pg, pg)
    BY <1>1, NoTokens
  <1>3. UNCHANGED reader
    BY DEF SetVerificationToken, MarkEmailVerified, ConsumeVerificationToken, RestoreVerificationToken,
           TokenExpires, Called
  <1>4. TokensOnly(lite', lite)
    <2>1. \/ lite' = lite
          \/ lite' = [lite EXCEPT !.users[u].verified = TRUE, !.users[u].token = "none"]
      BY DEF SetVerificationToken, MarkEmailVerified, ConsumeVerificationToken, RestoreVerificationToken,
             TokenExpires, Called, Consumed
    <2> QED BY <1>1, <1>2, <2>1, TokenSet
  <1>5. TokensOnly(pg', pg)
    <2>1. \/ pg' = pg
          \/ \E b \in BOOLEAN, tok \in {"none", "live"} :
                pg' = [pg EXCEPT !.users[u].verified = b, !.users[u].token = tok]
          \/ \E tok \in {"live", "expired"} : pg' = [pg EXCEPT !.users[u].token = tok]
      BY DEF SetVerificationToken, MarkEmailVerified, ConsumeVerificationToken, RestoreVerificationToken,
             TokenExpires, Called, Consumed
    <2> QED BY <1>1, <1>2, <2>1, TokenSet, OneTokenSet
  <1> QED BY <1>3, <1>4, <1>5, TokensCall


\* r is s with user u of a new tenant t, both with key k.
SignedUp(r, s, u, t, k) ==
    /\ SameRest(r, s)
    /\ r.tenants \in [STenants -> StoredTenant] /\ r.users \in [SUsers -> StoredUser]
    /\ \A x \in STenants : x # t => r.tenants[x] = s.tenants[x]
    /\ r.tenants[t].there /\ r.tenants[t].hash = k /\ ~r.tenants[t].plain
    /\ r.tenants[t].status = "inactive" /\ r.tenants[t].plan = "free" /\ r.tenants[t].customer = ""
    /\ \A v \in SUsers : v # u => r.users[v] = s.users[v]
    /\ r.users[u].there /\ r.users[u].tenant = t /\ r.users[u].hash = k

LEMMA SignedIs ==
    ASSUME NEW s, Tables(s), RowsOK(s), NEW u \in SUsers, NEW t \in STenants, NEW k \in SKeys,
           ~s.users[u].there, ~s.tenants[t].there
    PROVE  SignedUp(Signed(s, u, t, k), s, u, t, k)
  <1>1. s.tenants \in [STenants -> StoredTenant] /\ s.users \in [SUsers -> StoredUser]
    BY DEF RowsOK
  <1>2. PICK m : m = Seeded(s, t, k)
    OBVIOUS
  <1>3. WithTenant(m, s, t, k)
    BY <1>1, <1>2, SeededIs
  <1>4. PICK new : new = [NoAccount EXCEPT !.there = TRUE, !.tenant = t, !.hash = k]
    OBVIOUS
  <1>5. new \in StoredUser /\ new.there /\ new.tenant = t /\ new.hash = k
    BY <1>4 DEF StoredUser, NoAccount
  <1>6. PICK r : r = Signed(s, u, t, k)
    OBVIOUS
  <1>7. r = [m EXCEPT !.users[u] = new]
    BY <1>2, <1>4, <1>6 DEF Signed
  <1>8. UserIs(r, m, u, new)
    BY <1>3, <1>7, UserSet DEF WithTenant, SameRest
  <1>9. PICK f, g : f = s.users /\ g = r.users
    OBVIOUS
  <1>10. f \in [SUsers -> StoredUser] /\ g = [f EXCEPT ![u] = new]
    BY <1>1, <1>3, <1>8, <1>9, Zenon DEF UserIs, WithTenant
  <1>11. g \in [SUsers -> StoredUser] /\ g[u] = new /\ \A v \in SUsers : v # u => g[v] = f[v]
    BY <1>5, <1>10
  <1>12. SameRest(r, s) /\ r.tenants = m.tenants
    BY <1>3, <1>8 DEF UserIs, WithTenant, SameRest
  <1>13. SignedUp(r, s, u, t, k)
    <2>1. /\ m.tenants \in [STenants -> StoredTenant]
          /\ \A x \in STenants : x # t => m.tenants[x] = s.tenants[x]
          /\ m.tenants[t].there /\ m.tenants[t].hash = k /\ ~m.tenants[t].plain
          /\ m.tenants[t].status = "inactive" /\ m.tenants[t].plan = "free" /\ m.tenants[t].customer = ""
      BY <1>3, Zenon DEF WithTenant
    <2>2. /\ r.users \in [SUsers -> StoredUser] /\ \A v \in SUsers : v # u => r.users[v] = s.users[v]
          /\ r.users[u].there /\ r.users[u].tenant = t /\ r.users[u].hash = k
      BY <1>5, <1>9, <1>11, Zenon
    <2> QED BY <1>12, <2>1, <2>2, Zenon DEF SignedUp
  <1> QED BY <1>6, <1>13, Zenon

LEMMA UpsertOauthUserInv ==
    ASSUME DualIInv, NEW u \in SUsers, NEW t \in STenants, NEW k \in SKeys, UpsertOauthUser(u, t, k)
    PROVE  DualIInv'
  <1>1. /\ lite' = Signed(lite, u, t, k) /\ pg' = Signed(pg, u, t, k) /\ UNCHANGED reader
        /\ ~pg.tenants[t].there \/ pg.users[u].there
    BY DEF UpsertOauthUser, Called
  <1>2. /\ Tables(lite) /\ Tables(pg) /\ RowsOK(lite) /\ RowsOK(pg)
        /\ AccountsAlike(lite.tenants, lite.users, pg.tenants, pg.users)
        /\ Owners(lite.tenants, lite.users, pg.tenants, pg.users)
    BY DEF DualIInv, AccountsBoth
  <1>3. /\ lite.users[u].there <=> pg.users[u].there
        /\ lite.tenants[t].there <=> pg.tenants[t].there
    BY <1>2 DEF AccountsAlike
  <1>4. CASE pg.users[u].there
    BY <1>1, <1>3, <1>4, StoresRest DEF Signed
  <1>5. CASE ~pg.users[u].there
    <2>1. SignedUp(lite', lite, u, t, k) /\ SignedUp(pg', pg, u, t, k)
      BY <1>1, <1>2, <1>3, <1>5, SignedIs
    <2>2. AccountsAlike(lite'.tenants, lite'.users, pg'.tenants, pg'.users)
      <3>1. ASSUME NEW x \in STenants
            PROVE  /\ lite'.tenants[x].there <=> pg'.tenants[x].there
                   /\ lite'.tenants[x].status = pg'.tenants[x].status
                   /\ lite'.tenants[x].plan = pg'.tenants[x].plan
                   /\ pg'.tenants[x].customer \in {"", lite'.tenants[x].customer}
        <4>1. CASE x = t
          BY <2>1, <4>1 DEF SignedUp
        <4>2. CASE x # t
          <5>1. lite'.tenants[x] = lite.tenants[x] /\ pg'.tenants[x] = pg.tenants[x]
            BY <2>1, <4>2, Zenon DEF SignedUp
          <5> QED BY <1>2, <5>1 DEF AccountsAlike
        <4> QED BY <4>1, <4>2
      <3>2. ASSUME NEW v \in SUsers
            PROVE  /\ lite'.users[v].there <=> pg'.users[v].there
                   /\ lite'.users[v].hash = pg'.users[v].hash
        <4>1. CASE v = u
          BY <2>1, <4>1 DEF SignedUp
        <4>2. CASE v # u
          <5>1. lite'.users[v] = lite.users[v] /\ pg'.users[v] = pg.users[v]
            BY <2>1, <4>2, Zenon DEF SignedUp
          <5> QED BY <1>2, <5>1 DEF AccountsAlike
        <4> QED BY <4>1, <4>2
      <3> QED BY <3>1, <3>2 DEF AccountsAlike
    <2>3. PICK lt, lu, pt, pu, nl, nu, np, nq :
             /\ lt = lite.tenants /\ lu = lite.users /\ pt = pg.tenants /\ pu = pg.users
             /\ nl = lite'.tenants /\ nu = lite'.users /\ np = pg'.tenants /\ nq = pg'.users
      OBVIOUS
    <2>4. /\ \A x \in STenants : x # t => nl[x] = lt[x] /\ np[x] = pt[x]
          /\ \A v \in SUsers : v # u => nu[v] = lu[v] /\ nq[v] = pu[v]
          /\ nl[t].hash = k /\ ~nl[t].plain /\ np[t].hash = k /\ np[t].there
          /\ nu[u].tenant = t /\ nu[u].hash = k /\ nq[u].tenant = t /\ nq[u].hash = k
      BY <2>1, <2>3, Zenon DEF SignedUp
    <2>5. /\ Owners(lt, lu, pt, pu) /\ ~pt[t].there
          /\ \A v \in SUsers : pu[v].tenant \in STenants
      BY <1>1, <1>2, <1>5, <2>3 DEF RowsOK, StoredUser
    <2>6. Owners(nl, nu, np, nq)
      <3> SUFFICES ASSUME NEW v \in SUsers, nq[v].there
                   PROVE  /\ nu[v].tenant = nq[v].tenant
                          /\ np[nq[v].tenant].there /\ ~nl[nq[v].tenant].plain
                          /\ nq[v].hash = np[nq[v].tenant].hash
                          /\ nu[v].hash = nl[nq[v].tenant].hash
                          /\ \A w \in SUsers : nq[w].there /\ nq[w].tenant = nq[v].tenant => w = v
        BY DEF Owners
      <3>0. \A w \in SUsers : pu[w].there => pu[w].tenant # t
        BY <2>5 DEF Owners
      <3>1. CASE v = u
        <4>1. \A w \in SUsers : nq[w].there /\ nq[w].tenant = t => w = u
          BY <2>4, <3>0
        <4> QED BY <2>4, <3>1, <4>1
      <3>2. CASE v # u
        <4>1. nq[v] = pu[v] /\ nu[v] = lu[v] /\ pu[v].there
          BY <2>4, <3>2
        <4>2. PICK x \in STenants : x = pu[v].tenant /\ x # t
          BY <2>5, <3>0, <4>1
        <4>3. /\ lu[v].tenant = x /\ pt[x].there /\ ~lt[x].plain /\ pu[v].hash = pt[x].hash
              /\ lu[v].hash = lt[x].hash
              /\ \A w \in SUsers : pu[w].there /\ pu[w].tenant = x => w = v
          BY <2>5, <4>1, <4>2, Zenon DEF Owners
        <4>4. nl[x] = lt[x] /\ np[x] = pt[x]
          BY <2>4, <4>2
        <4>5. \A w \in SUsers : nq[w].there /\ nq[w].tenant = x => w = v
          BY <2>4, <4>2, <4>3
        <4> QED BY <4>1, <4>2, <4>3, <4>4, <4>5, Zenon
      <3> QED BY <3>1, <3>2
    <2>7. AccountsBoth(lite'.tenants, lite'.users, pg'.tenants, pg'.users)
      BY <2>2, <2>3, <2>6, Zenon DEF AccountsBoth
    <2> QED BY <1>1, <2>1, <2>7, AccountsCall DEF SignedUp
  <1> QED BY <1>4, <1>5


\* r is s with the key k in the rows of user u and tenant t.
Rekeyed(r, s, u, t, k) ==
    /\ SameRest(r, s)
    /\ r.tenants \in [STenants -> StoredTenant] /\ r.users \in [SUsers -> StoredUser]
    /\ \A x \in STenants : x # t => r.tenants[x] = s.tenants[x]
    /\ r.tenants[t].there <=> s.tenants[t].there
    /\ r.tenants[t].plain <=> s.tenants[t].plain
    /\ r.tenants[t].hash = k
    /\ r.tenants[t].status = s.tenants[t].status /\ r.tenants[t].plan = s.tenants[t].plan
    /\ r.tenants[t].customer = s.tenants[t].customer
    /\ \A v \in SUsers : v # u => r.users[v] = s.users[v]
    /\ r.users[u].there <=> s.users[u].there
    /\ r.users[u].tenant = s.users[u].tenant /\ r.users[u].hash = k

LEMMA RekeyedIs ==
    ASSUME NEW s, Tables(s), RowsOK(s), NEW u \in SUsers, NEW t \in STenants, NEW k \in SKeys,
           s.users[u].there, s.tenants[t].there
    PROVE  Rekeyed(Rotated(s, u, t, k), s, u, t, k)
  <1>1. PICK ts, us : ts = s.tenants /\ us = s.users
    OBVIOUS
  <1>2. ts \in [STenants -> StoredTenant] /\ us \in [SUsers -> StoredUser]
    BY <1>1 DEF RowsOK
  <1>3. PICK row \in StoredTenant, usr \in StoredUser : row = ts[t] /\ usr = us[u]
    BY <1>2
  <1>4. PICK nr, nu : nr = [row EXCEPT !.hash = k] /\ nu = [usr EXCEPT !.hash = k]
    OBVIOUS
  <1>5. /\ nr \in StoredTenant
        /\ nr.there <=> row.there
        /\ nr.plain <=> row.plain
        /\ nr.hash = k /\ nr.status = row.status /\ nr.plan = row.plan /\ nr.customer = row.customer
    BY <1>4 DEF StoredTenant
  <1>6. /\ nu \in StoredUser
        /\ nu.there <=> usr.there
        /\ nu.tenant = usr.tenant /\ nu.hash = k
    BY <1>4 DEF StoredUser
  <1>7. PICK m : m = [s EXCEPT !.users[u] = nu]
    OBVIOUS
  <1>8. UserIs(m, s, u, nu)
    BY <1>7, UserSet
  <1>9. PICK r : r = Rotated(s, u, t, k)
    OBVIOUS
  <1>10. r = [m EXCEPT !.tenants[t] = nr]
    <2>1. r = [s EXCEPT !.users[u].hash = k, !.tenants[t].hash = k]
      BY <1>9 DEF Rotated
    <2>2. m = [s EXCEPT !.users[u].hash = k]
      BY <1>1, <1>3, <1>4, <1>7
    <2>3. r = [m EXCEPT !.tenants[t].hash = k]
      BY <2>1, <2>2
    <2>4. m.tenants[t] = row
      BY <1>1, <1>3, <1>8 DEF UserIs
    <2> QED BY <1>4, <2>3, <2>4
  <1>11. TenantIs(r, m, t, nr)
    BY <1>8, <1>10, TenantSet DEF UserIs, SameRest
  <1>12. SameRest(r, s)
    BY <1>8, <1>11 DEF UserIs, TenantIs, SameRest
  <1>13. r.tenants = [ts EXCEPT ![t] = nr] /\ r.users = [us EXCEPT ![u] = nu]
    BY <1>1, <1>8, <1>11, Zenon DEF UserIs, TenantIs
  <1>14. PICK nts, nus : nts = r.tenants /\ nus = r.users
    OBVIOUS
  <1>15. /\ nts \in [STenants -> StoredTenant] /\ nts[t] = nr
         /\ \A x \in STenants : x # t => nts[x] = ts[x]
    BY <1>2, <1>5, <1>13, <1>14
  <1>16. /\ nus \in [SUsers -> StoredUser] /\ nus[u] = nu
         /\ \A v \in SUsers : v # u => nus[v] = us[v]
    BY <1>2, <1>6, <1>13, <1>14
  <1>17. Rekeyed(r, s, u, t, k)
    BY <1>1, <1>3, <1>5, <1>6, <1>12, <1>14, <1>15, <1>16, Zenon DEF Rekeyed
  <1> QED BY <1>9, <1>17, Zenon

LEMMA RotateUserApiKeyInv ==
    ASSUME DualIInv, NEW u \in SUsers, NEW t \in STenants, NEW k \in SKeys, RotateUserApiKey(u, t, k)
    PROVE  DualIInv'
  <1>1. /\ lite' = Rotated(lite, u, t, k) /\ pg' = Rotated(pg, u, t, k) /\ UNCHANGED reader
        /\ pg.users[u].there => pg.users[u].tenant = t
    BY DEF RotateUserApiKey, Called
  <1>2. /\ Tables(lite) /\ Tables(pg) /\ RowsOK(lite) /\ RowsOK(pg)
        /\ AccountsAlike(lite.tenants, lite.users, pg.tenants, pg.users)
        /\ Owners(lite.tenants, lite.users, pg.tenants, pg.users)
    BY DEF DualIInv, AccountsBoth
  <1>3. /\ lite.users[u].there <=> pg.users[u].there
        /\ lite.tenants[t].there <=> pg.tenants[t].there
    BY <1>2 DEF AccountsAlike
  <1>4. CASE ~pg.users[u].there
    BY <1>1, <1>3, <1>4, StoresRest DEF Rotated
  <1>5. CASE pg.users[u].there
    <2>0. pg.tenants[t].there
      BY <1>1, <1>2, <1>5 DEF Owners
    <2>1. Rekeyed(lite', lite, u, t, k) /\ Rekeyed(pg', pg, u, t, k)
      BY <1>1, <1>2, <1>3, <1>5, <2>0, RekeyedIs
    <2>2. AccountsAlike(lite'.tenants, lite'.users, pg'.tenants, pg'.users)
      <3>1. ASSUME NEW x \in STenants
            PROVE  /\ lite'.tenants[x].there <=> pg'.tenants[x].there
                   /\ lite'.tenants[x].status = pg'.tenants[x].status
                   /\ lite'.tenants[x].plan = pg'.tenants[x].plan
                   /\ pg'.tenants[x].customer \in {"", lite'.tenants[x].customer}
        <4>1. CASE x = t
          BY <1>2, <2>1, <4>1 DEF Rekeyed, AccountsAlike
        <4>2. CASE x # t
          <5>1. lite'.tenants[x] = lite.tenants[x] /\ pg'.tenants[x] = pg.tenants[x]
            BY <2>1, <4>2, Zenon DEF Rekeyed
          <5> QED BY <1>2, <5>1 DEF AccountsAlike
        <4> QED BY <4>1, <4>2
      <3>2. ASSUME NEW v \in SUsers
            PROVE  /\ lite'.users[v].there <=> pg'.users[v].there
                   /\ lite'.users[v].hash = pg'.users[v].hash
        <4>1. CASE v = u
          BY <1>3, <2>1, <4>1 DEF Rekeyed
        <4>2. CASE v # u
          <5>1. lite'.users[v] = lite.users[v] /\ pg'.users[v] = pg.users[v]
            BY <2>1, <4>2, Zenon DEF Rekeyed
          <5> QED BY <1>2, <5>1 DEF AccountsAlike
        <4> QED BY <4>1, <4>2
      <3> QED BY <3>1, <3>2 DEF AccountsAlike
    <2>3. PICK lt, lu, pt, pu, nl, nu, np, nq :
             /\ lt = lite.tenants /\ lu = lite.users /\ pt = pg.tenants /\ pu = pg.users
             /\ nl = lite'.tenants /\ nu = lite'.users /\ np = pg'.tenants /\ nq = pg'.users
      OBVIOUS
    <2>4. /\ \A x \in STenants : x # t => nl[x] = lt[x] /\ np[x] = pt[x]
          /\ \A v \in SUsers : v # u => nu[v] = lu[v] /\ nq[v] = pu[v]
          /\ nl[t].hash = k /\ np[t].hash = k
          /\ np[t].there <=> pt[t].there
          /\ nl[t].plain <=> lt[t].plain
          /\ nq[u].there <=> pu[u].there
          /\ nu[u].tenant = lu[u].tenant /\ nu[u].hash = k /\ nq[u].tenant = pu[u].tenant /\ nq[u].hash = k
      BY <2>1, <2>3, Zenon DEF Rekeyed
    <2>5. /\ Owners(lt, lu, pt, pu) /\ pu[u].there /\ pu[u].tenant = t
          /\ \A v \in SUsers : pu[v].tenant \in STenants
      BY <1>1, <1>2, <1>5, <2>3 DEF RowsOK, StoredUser
    <2>6. Owners(nl, nu, np, nq)
      <3> SUFFICES ASSUME NEW v \in SUsers, nq[v].there
                   PROVE  /\ nu[v].tenant = nq[v].tenant
                          /\ np[nq[v].tenant].there /\ ~nl[nq[v].tenant].plain
                          /\ nq[v].hash = np[nq[v].tenant].hash
                          /\ nu[v].hash = nl[nq[v].tenant].hash
                          /\ \A w \in SUsers : nq[w].there /\ nq[w].tenant = nq[v].tenant => w = v
        BY DEF Owners
      <3>0. /\ pt[t].there /\ ~lt[t].plain /\ lu[u].tenant = t
            /\ \A w \in SUsers : pu[w].there /\ pu[w].tenant = t => w = u
        BY <2>5, Zenon DEF Owners
      <3>1. \A w \in SUsers : nq[w].tenant = pu[w].tenant /\ (nq[w].there <=> pu[w].there)
        BY <2>4
      <3>2. CASE v = u
        BY <2>4, <2>5, <3>0, <3>1, <3>2
      <3>3. CASE v # u
        <4>1. nq[v] = pu[v] /\ nu[v] = lu[v] /\ pu[v].there
          BY <2>4, <3>3
        <4>2. PICK x \in STenants : x = pu[v].tenant /\ x # t
          BY <2>5, <3>0, <3>3, <4>1
        <4>3. /\ lu[v].tenant = x /\ pt[x].there /\ ~lt[x].plain /\ pu[v].hash = pt[x].hash
              /\ lu[v].hash = lt[x].hash
              /\ \A w \in SUsers : pu[w].there /\ pu[w].tenant = x => w = v
          BY <2>5, <4>1, <4>2, Zenon DEF Owners
        <4>4. nl[x] = lt[x] /\ np[x] = pt[x]
          BY <2>4, <4>2
        <4> QED BY <3>1, <4>1, <4>2, <4>3, <4>4
      <3> QED BY <3>2, <3>3
    <2>7. AccountsBoth(lite'.tenants, lite'.users, pg'.tenants, pg'.users)
      BY <2>2, <2>3, <2>6, Zenon DEF AccountsBoth
    <2> QED BY <1>1, <2>1, <2>7, AccountsCall DEF Rekeyed
  <1> QED BY <1>4, <1>5


-----------------------------------------------------------------------------
(* The other tables.                                                       *)

SameAccounts(r, s) == Tables(r) /\ r.tenants = s.tenants /\ r.users = s.users

\* r is s with these five tables.
OfficeIs(r, s, iv, ld, ml, ev, rt) ==
    /\ SameAccounts(r, s) /\ r.invoices = iv /\ r.leads = ld /\ r.mails = ml
    /\ r.events = ev /\ r.ratings = rt

LEMMA OtherTableSet ==
    ASSUME NEW s, Tables(s), NEW v, NEW r
    PROVE  /\ r = s => OfficeIs(r, s, s.invoices, s.leads, s.mails, s.events, s.ratings)
           /\ r = [s EXCEPT !.invoices = v] => OfficeIs(r, s, v, s.leads, s.mails, s.events, s.ratings)
           /\ r = [s EXCEPT !.leads = v] => OfficeIs(r, s, s.invoices, v, s.mails, s.events, s.ratings)
           /\ r = [s EXCEPT !.mails = v] => OfficeIs(r, s, s.invoices, s.leads, v, s.events, s.ratings)
           /\ r = [s EXCEPT !.events = v] => OfficeIs(r, s, s.invoices, s.leads, s.mails, v, s.ratings)
           /\ r = [s EXCEPT !.ratings = v] => OfficeIs(r, s, s.invoices, s.leads, s.mails, s.events, v)
           /\ r = [s EXCEPT !.workers = v] => OfficeIs(r, s, s.invoices, s.leads, s.mails, s.events, s.ratings)
  BY DEF Tables, SameAccounts, OfficeIs

\* A call that leaves tenants and users alone.
LEMMA OfficeCall ==
    ASSUME DualIInv, SameAccounts(lite', lite), SameAccounts(pg', pg),
           lite'.invoices = pg'.invoices, lite'.invoices \in [SInvoices -> STenants \cup {"none"}],
           lite'.leads = pg'.leads, lite'.leads \in Seq(LeadStates),
           lite'.events = pg'.events, lite'.events \in Seq(StoredEvent),
           lite'.ratings = pg'.ratings,
           lite'.mails \in Seq(StoredMail), pg'.mails \in Seq(StoredMail), MailsBoth(lite'.mails, pg'.mails),
           ReaderInv'
    PROVE  DualIInv'
  <1>1. /\ RowsOK(lite) /\ RowsOK(pg) /\ AccountsBoth(lite.tenants, lite.users, pg.tenants, pg.users)
    BY DEF DualIInv
  <1>2. Tables(lite)' /\ Tables(pg)' /\ RowsOK(lite)' /\ RowsOK(pg)'
    BY <1>1 DEF SameAccounts, RowsOK, Tables
  <1>3. AccountsBoth(lite.tenants, lite.users, pg.tenants, pg.users)'
    BY <1>1, Zenon DEF SameAccounts
  <1>4. TablesAlike'
    BY DEF TablesAlike
  <1> QED BY <1>2, <1>3, <1>4, Zenon DEF DualIInv

LEMMA ReaderRests ==
    ASSUME DualIInv, UNCHANGED reader, pg'.events = pg.events PROVE ReaderInv'
  BY DEF DualIInv, ReaderInv, PagesMissNothing

\* What the invariant says of these tables.
LEMMA OfficeTypes ==
    ASSUME DualIInv
    PROVE  /\ Tables(lite) /\ Tables(pg)
           /\ lite.invoices = pg.invoices /\ lite.invoices \in [SInvoices -> STenants \cup {"none"}]
           /\ lite.leads = pg.leads /\ lite.leads \in Seq(LeadStates)
           /\ lite.events = pg.events /\ lite.events \in Seq(StoredEvent)
           /\ lite.ratings = pg.ratings
           /\ lite.mails \in Seq(StoredMail) /\ pg.mails \in Seq(StoredMail)
           /\ MailsBoth(lite.mails, pg.mails)
  BY DEF DualIInv, RowsOK, TablesAlike

LEMMA MarkInvoiceProcessedInv ==
    ASSUME DualIInv, NEW i \in SInvoices, NEW t \in STenants, MarkInvoiceProcessed(i, t)
    PROVE  DualIInv'
  <1>1. PICK f : f = pg.invoices
    OBVIOUS
  <1>2. f \in [SInvoices -> STenants \cup {"none"}] /\ lite.invoices = f
    BY <1>1, OfficeTypes
  <1>3. /\ lite' = (IF lite.invoices[i] = "none" THEN [lite EXCEPT !.invoices[i] = t] ELSE lite)
        /\ pg' = [pg EXCEPT !.invoices[i] = IF @ = "none" THEN t ELSE @] /\ UNCHANGED reader
    BY DEF MarkInvoiceProcessed, Marked, Called
  <1>4. PICK g : g = [f EXCEPT ![i] = IF f[i] = "none" THEN t ELSE f[i]]
    OBVIOUS
  <1>5. g \in [SInvoices -> STenants \cup {"none"}] /\ (f[i] # "none" => g = f)
    BY <1>2, <1>4
  <1>6. pg' = [pg EXCEPT !.invoices = g]
    BY <1>1, <1>3, <1>4
  <1>7. lite' = [lite EXCEPT !.invoices = g]
    <2>1. CASE f[i] = "none"
      BY <1>2, <1>3, <1>4, <2>1
    <2>2. CASE f[i] # "none"
      BY <1>2, <1>3, <1>5, <2>2, OfficeTypes DEF Tables
    <2> QED BY <2>1, <2>2
  <1>8. OfficeIs(lite', lite, g, lite.leads, lite.mails, lite.events, lite.ratings)
    BY <1>7, OfficeTypes, OtherTableSet
  <1>9. OfficeIs(pg', pg, g, pg.leads, pg.mails, pg.events, pg.ratings)
    BY <1>6, OfficeTypes, OtherTableSet
  <1>10. ReaderInv'
    BY <1>3, <1>9, ReaderRests DEF OfficeIs
  <1> QED BY <1>5, <1>8, <1>9, <1>10, OfficeTypes, OfficeCall DEF OfficeIs


LEMMA LeadUpdated ==
    ASSUME NEW f \in Seq(LeadStates), NEW n \in DOMAIN f, NEW st \in LeadStates
    PROVE  [f EXCEPT ![n] = st] \in Seq(LeadStates)
  BY ExceptSeq

LEMMA LeadCallsInv ==
    ASSUME DualIInv,
           AddLead \/ \E n \in 1..2, st \in {"contacted", "lost"} : UpdateLeadStatus(n, st)
    PROVE  DualIInv'
  <1>1. PICK f : f = pg.leads
    OBVIOUS
  <1>2. f \in Seq(LeadStates) /\ lite.leads = f /\ Tables(lite) /\ Tables(pg)
    BY <1>1, OfficeTypes
  <1>3. PICK g \in Seq(LeadStates) :
           \/ lite' = [lite EXCEPT !.leads = g] /\ pg' = [pg EXCEPT !.leads = g]
           \/ lite' = lite /\ pg' = pg
    <2>1. CASE AddLead
      <3>1. PICK g : g = Append(f, "new")
        OBVIOUS
      <3>2. g \in Seq(LeadStates)
        BY <1>2, <3>1 DEF LeadStates
      <3>3. lite' = [lite EXCEPT !.leads = g] /\ pg' = [pg EXCEPT !.leads = g]
        BY <1>1, <1>2, <2>1, <3>1 DEF AddLead, Called, LeadAdded
      <3> QED BY <3>2, <3>3
    <2>2. ASSUME NEW n \in 1..2, NEW st \in {"contacted", "lost"}, UpdateLeadStatus(n, st)
          PROVE  \E g \in Seq(LeadStates) :
                    \/ lite' = [lite EXCEPT !.leads = g] /\ pg' = [pg EXCEPT !.leads = g]
                    \/ lite' = lite /\ pg' = pg
      <3>1. CASE n \in DOMAIN f
        <4>1. PICK g : g = [f EXCEPT ![n] = st]
          OBVIOUS
        <4>2. g \in Seq(LeadStates)
          BY <1>2, <3>1, <4>1, LeadUpdated DEF LeadStates
        <4>3. lite' = [lite EXCEPT !.leads = g] /\ pg' = [pg EXCEPT !.leads = g]
          BY <1>1, <1>2, <2>2, <3>1, <4>1 DEF UpdateLeadStatus, Called
        <4> QED BY <4>2, <4>3
      <3>2. CASE n \notin DOMAIN f
        <4>1. lite' = lite /\ pg' = pg
          BY <1>1, <1>2, <2>2, <3>2 DEF UpdateLeadStatus, Called
        <4> QED BY <1>2, <4>1
      <3> QED BY <3>1, <3>2
    <2> QED BY <2>1, <2>2
  <1>4. UNCHANGED reader
    BY DEF AddLead, UpdateLeadStatus, Called
  <1>5. CASE lite' = lite /\ pg' = pg
    BY <1>4, <1>5, StoresRest
  <1>6. CASE lite' = [lite EXCEPT !.leads = g] /\ pg' = [pg EXCEPT !.leads = g]
    <2>1. OfficeIs(lite', lite, lite.invoices, g, lite.mails, lite.events, lite.ratings)
      BY <1>2, <1>6, OtherTableSet
    <2>2. OfficeIs(pg', pg, pg.invoices, g, pg.mails, pg.events, pg.ratings)
      BY <1>2, <1>6, OtherTableSet
    <2>3. ReaderInv'
      BY <1>4, <2>2, ReaderRests DEF OfficeIs
    <2> QED BY <2>1, <2>2, <2>3, OfficeTypes, OfficeCall DEF OfficeIs
  <1> QED BY <1>3, <1>5, <1>6

\* Feedback, and the workers PostgreSQL knows.
LEMMA FeedbackInv ==
    ASSUME DualIInv, NEW r, SaveFeedback(r) PROVE DualIInv'
  <1>1. PICK g : g = Append(pg.ratings, r)
    OBVIOUS
  <1>2. lite' = [lite EXCEPT !.ratings = g] /\ pg' = [pg EXCEPT !.ratings = g] /\ UNCHANGED reader
    BY <1>1, OfficeTypes DEF SaveFeedback, Called, Rated
  <1>3. OfficeIs(lite', lite, lite.invoices, lite.leads, lite.mails, lite.events, g)
    BY <1>2, OfficeTypes, OtherTableSet
  <1>4. OfficeIs(pg', pg, pg.invoices, pg.leads, pg.mails, pg.events, g)
    BY <1>2, OfficeTypes, OtherTableSet
  <1>5. ReaderInv'
    BY <1>2, <1>4, ReaderRests DEF OfficeIs
  <1> QED BY <1>3, <1>4, <1>5, OfficeTypes, OfficeCall DEF OfficeIs

LEMMA WorkerCallsInv ==
    ASSUME DualIInv, NEW w, RegisterWorker(w) \/ DrainWorker(w) PROVE DualIInv'
  <1>1. lite' = lite /\ UNCHANGED reader
    BY DEF RegisterWorker, DrainWorker, Called
  <1>2. pg' = pg \/ \E g : pg' = [pg EXCEPT !.workers = g]
    <2>1. CASE RegisterWorker(w)
      <3>1. PICK g : g = [pg.workers EXCEPT ![w] = IF pg.workers[w] = "none" THEN "idle" ELSE pg.workers[w]]
        OBVIOUS
      <3>2. pg' = [pg EXCEPT !.workers = g]
        BY <2>1, <3>1 DEF RegisterWorker, Called
      <3> QED BY <3>2
    <2>2. CASE DrainWorker(w)
      <3>1. PICK g : g = [pg.workers EXCEPT ![w] = "drained"]
        OBVIOUS
      <3>2. pg' = pg \/ pg' = [pg EXCEPT !.workers = g]
        BY <2>2, <3>1 DEF DrainWorker, Called
      <3> QED BY <3>2
    <2> QED BY <2>1, <2>2
  <1>3. OfficeIs(lite', lite, lite.invoices, lite.leads, lite.mails, lite.events, lite.ratings)
    BY <1>1, OfficeTypes, OtherTableSet
  <1>4. OfficeIs(pg', pg, pg.invoices, pg.leads, pg.mails, pg.events, pg.ratings)
    BY <1>2, OfficeTypes, OtherTableSet
  <1>5. ReaderInv'
    BY <1>1, <1>4, ReaderRests DEF OfficeIs
  <1> QED BY <1>3, <1>4, <1>5, OfficeTypes, OfficeCall DEF OfficeIs


-----------------------------------------------------------------------------
(* Mails: both stores log the same rows and never touch half of a pair.    *)

\* The same new mails after rows that pair up.
LEMMA MailsLogged ==
    ASSUME NEW lm \in Seq(StoredMail), NEW pm \in Seq(StoredMail), MailsBoth(lm, pm),
           NEW t \in Seq(StoredMail), \A k \in 1..Len(t) : t[k].stamps = {}
    PROVE  /\ lm \o t \in Seq(StoredMail) /\ pm \o t \in Seq(StoredMail)
           /\ MailsBoth(lm \o t, pm \o t)
  <1>1. /\ lm \o t \in Seq(StoredMail) /\ Len(lm \o t) = Len(lm) + Len(t)
        /\ \A n \in 1..Len(lm) + Len(t) : (lm \o t)[n] = IF n <= Len(lm) THEN lm[n] ELSE t[n - Len(lm)]
    BY ConcatProperties
  <1>2. /\ pm \o t \in Seq(StoredMail) /\ Len(pm \o t) = Len(pm) + Len(t)
        /\ \A n \in 1..Len(pm) + Len(t) : (pm \o t)[n] = IF n <= Len(pm) THEN pm[n] ELSE t[n - Len(pm)]
    BY ConcatProperties
  <1>3. Len(lm) = Len(pm) /\ Len(pm) \in Nat /\ Len(t) \in Nat
    BY DEF MailsBoth
  <1>4. PICK ll, pp : ll = lm \o t /\ pp = pm \o t
    OBVIOUS
  <1>5. ASSUME NEW n \in 1..Len(pm) + Len(t)
        PROVE  /\ ll[n].to = pp[n].to
               /\ pp[n].status = "sent" <=> ll[n].status = "sent" /\ ll[n].stamps = {}
    <2>1. CASE n <= Len(pm)
      <3>1. ll[n] = lm[n] /\ pp[n] = pm[n] /\ n \in 1..Len(pm)
        BY <1>1, <1>2, <1>3, <1>4, <2>1
      <3> QED BY <3>1 DEF MailsBoth
    <2>2. CASE n > Len(pm)
      <3>1. PICK k \in 1..Len(t) : k = n - Len(pm)
        BY <1>3, <2>2
      <3>2. ll[n] = t[k] /\ pp[n] = t[k]
        BY <1>1, <1>2, <1>3, <1>4, <2>2, <3>1
      <3> QED BY <3>2
    <2> QED BY <1>3, <2>1, <2>2
  <1>6. MailsBoth(ll, pp)
    BY <1>1, <1>2, <1>3, <1>4, <1>5 DEF MailsBoth
  <1> QED BY <1>1, <1>2, <1>4, <1>6, Zenon

\* A call that logs mails t, and sets the leads to g.
LEMMA MailCall ==
    ASSUME DualIInv, UNCHANGED reader, NEW g \in Seq(LeadStates),
           NEW t \in Seq(StoredMail), \A k \in 1..Len(t) : t[k].stamps = {},
           OfficeIs(lite', lite, lite.invoices, g, lite.mails \o t, lite.events, lite.ratings),
           OfficeIs(pg', pg, pg.invoices, g, pg.mails \o t, pg.events, pg.ratings)
    PROVE  DualIInv'
  <1>1. /\ lite.mails \o t \in Seq(StoredMail) /\ pg.mails \o t \in Seq(StoredMail)
        /\ MailsBoth(lite.mails \o t, pg.mails \o t)
    BY OfficeTypes, MailsLogged, Zenon
  <1>2. ReaderInv'
    BY ReaderRests DEF OfficeIs
  <1> QED BY <1>1, <1>2, OfficeTypes, OfficeCall DEF OfficeIs

LEMMA LogEmailInv ==
    ASSUME DualIInv, NEW b \in Boxes, NEW st \in {"sent", "failed"}, LogEmail(b, st) PROVE DualIInv'
  <1>1. PICK row : row = [to |-> b, status |-> st, stamps |-> {}]
    OBVIOUS
  <1>2. row \in StoredMail /\ row.stamps = {}
    BY <1>1 DEF StoredMail
  <1>3. PICK t : t = <<row>>
    OBVIOUS
  <1>4. t \in Seq(StoredMail) /\ \A k \in 1..Len(t) : t[k].stamps = {}
    BY <1>2, <1>3
  <1>5. UNCHANGED reader /\ lite' = Mailed(lite, b, st) /\ pg' = Mailed(pg, b, st)
    BY DEF LogEmail, Called
  <1>6. Append(lite.mails, row) = lite.mails \o t /\ Append(pg.mails, row) = pg.mails \o t
    BY <1>2, <1>3, OfficeTypes, AppendIsConcat
  <1>7. lite' = [lite EXCEPT !.mails = lite.mails \o t] /\ pg' = [pg EXCEPT !.mails = pg.mails \o t]
    BY <1>1, <1>5, <1>6 DEF Mailed
  <1>8. OfficeIs(lite', lite, lite.invoices, lite.leads, lite.mails \o t, lite.events, lite.ratings)
    BY <1>7, OfficeTypes, OtherTableSet
  <1>9. OfficeIs(pg', pg, pg.invoices, pg.leads, pg.mails \o t, pg.events, pg.ratings)
    BY <1>7, OfficeTypes, OtherTableSet
  <1> QED BY <1>4, <1>5, <1>8, <1>9, OfficeTypes, MailCall

\* The mails of an invitation and the leads after it depend on the leads only.
Letters(ld, b, dry, accepted) ==
    LET new == {n \in DOMAIN ld : ld[n] = "new"}
    IN [k \in 1..Cardinality(new) |->
          [to |-> b, status |-> IF dry \/ SetToSeq(new)[k] \in accepted THEN "sent" ELSE "failed",
           stamps |-> {}]]
LeadsAfter(ld, dry, accepted) ==
    [n \in DOMAIN ld |-> IF ld[n] = "new" /\ ~dry /\ n \in accepted THEN "invited" ELSE ld[n]]

LEMMA LettersAre ==
    ASSUME NEW ld \in Seq(LeadStates), NEW b \in Boxes, NEW dry \in BOOLEAN, NEW accepted
    PROVE  /\ Letters(ld, b, dry, accepted) \in Seq(StoredMail)
           /\ \A k \in 1..Len(Letters(ld, b, dry, accepted)) : Letters(ld, b, dry, accepted)[k].stamps = {}
           /\ LeadsAfter(ld, dry, accepted) \in Seq(LeadStates)
  <1> DEFINE new == {n \in DOMAIN ld : ld[n] = "new"}
  <1>1. DOMAIN ld = 1..Len(ld) /\ Len(ld) \in Nat
    OBVIOUS
  <1>2. IsFiniteSet(1..Len(ld))
    BY <1>1, FS_Interval
  <1>3. IsFiniteSet(new)
    BY <1>1, <1>2, FS_Subset
  <1>4. PICK c \in Nat : c = Cardinality(new)
    BY <1>3, FS_CardinalityType
  <1>5. PICK q : q = SetToSeq(new)
    OBVIOUS
  <1> HIDE DEF new
  <1>6. PICK t : t = [k \in 1..c |-> [to |-> b, status |-> IF dry \/ q[k] \in accepted THEN "sent" ELSE "failed",
                                      stamps |-> {}]]
    OBVIOUS
  <1>7. \A k \in 1..c : t[k] \in StoredMail /\ t[k].stamps = {}
    BY <1>6 DEF StoredMail
  <1>8. t = [k \in 1..c |-> t[k]]
    BY <1>6
  <1>9. t \in Seq(StoredMail) /\ Len(t) = c
    BY <1>4, <1>7, <1>8
  <1>10. t = Letters(ld, b, dry, accepted)
    BY <1>4, <1>5, <1>6 DEF Letters, new
  <1>11. PICK g : g = LeadsAfter(ld, dry, accepted)
    OBVIOUS
  <1>12. g = [n \in 1..Len(ld) |-> g[n]] /\ \A n \in 1..Len(ld) : g[n] \in LeadStates
    BY <1>1, <1>11 DEF LeadsAfter, LeadStates
  <1>13. g \in Seq(LeadStates)
    BY <1>1, <1>12
  <1> QED BY <1>7, <1>9, <1>10, <1>11, <1>13


LEMMA InvitedIs ==
    ASSUME NEW s, Tables(s), NEW b, NEW dry, NEW accepted, NEW r, r = Invited(s, b, dry, accepted)
    PROVE  OfficeIs(r, s, s.invoices, LeadsAfter(s.leads, dry, accepted),
                    s.mails \o Letters(s.leads, b, dry, accepted), s.events, s.ratings)
  <1>1. PICK ml : ml = s.mails \o Letters(s.leads, b, dry, accepted)
    OBVIOUS
  <1>2. PICK ld : ld = LeadsAfter(s.leads, dry, accepted)
    OBVIOUS
  <1>3. r = [s EXCEPT !.mails = ml, !.leads = ld]
    BY <1>1, <1>2 DEF Invited, Letters, LeadsAfter, Tables
  <1>4. OfficeIs(r, s, s.invoices, ld, ml, s.events, s.ratings)
    BY <1>3 DEF OfficeIs, SameAccounts, Tables
  <1> QED BY <1>1, <1>2, <1>4, Zenon

LEMMA AdminInviteInv ==
    ASSUME DualIInv, NEW b \in Boxes, NEW dry \in BOOLEAN, NEW accepted, AdminInvite(b, dry, accepted)
    PROVE  DualIInv'
  <1>1. lite' = Invited(lite, b, dry, accepted) /\ pg' = Invited(pg, b, dry, accepted) /\ UNCHANGED reader
    BY DEF AdminInvite, Called
  <1>2. PICK ld \in Seq(LeadStates) : ld = lite.leads /\ ld = pg.leads
    BY OfficeTypes
  <1>3. PICK t, g : t = Letters(ld, b, dry, accepted) /\ g = LeadsAfter(ld, dry, accepted)
    OBVIOUS
  <1>4. t \in Seq(StoredMail) /\ (\A k \in 1..Len(t) : t[k].stamps = {}) /\ g \in Seq(LeadStates)
    BY <1>3, LettersAre
  <1>5. OfficeIs(lite', lite, lite.invoices, g, lite.mails \o t, lite.events, lite.ratings)
    BY <1>1, <1>2, <1>3, OfficeTypes, InvitedIs
  <1>6. OfficeIs(pg', pg, pg.invoices, g, pg.mails \o t, pg.events, pg.ratings)
    BY <1>1, <1>2, <1>3, OfficeTypes, InvitedIs
  <1> QED BY <1>1, <1>4, <1>5, <1>6, MailCall

\* An event of a pair of rows: both leave "sent" at the first one.
LEMMA EventPair ==
    ASSUME NEW l \in StoredMail, NEW p \in StoredMail, NEW ev \in {"open", "click", "delivered", "bounce"},
           l.to = p.to, p.status = "sent" <=> l.status = "sent" /\ l.stamps = {}
    PROVE  /\ LiteEvent(l, ev) \in StoredMail /\ PgEvent(p, ev) \in StoredMail
           /\ LiteEvent(l, ev).to = PgEvent(p, ev).to
           /\ PgEvent(p, ev).status # "sent"
           /\ ~(LiteEvent(l, ev).status = "sent" /\ LiteEvent(l, ev).stamps = {})
  <1>1. PgEvent(p, ev) \in StoredMail /\ PgEvent(p, ev).to = p.to /\ PgEvent(p, ev).status # "sent"
    BY DEF PgEvent, StoredMail
  <1>2. /\ LiteEvent(l, ev) \in StoredMail /\ LiteEvent(l, ev).to = l.to
        /\ ~(LiteEvent(l, ev).status = "sent" /\ LiteEvent(l, ev).stamps = {})
    <2>1. CASE ev \in {"open", "click"}
      <3>1. CASE ev \in l.stamps
        BY <2>1, <3>1 DEF LiteEvent
      <3>2. CASE ev \notin l.stamps
        <4>1. PICK st : st = Participle[ev]
          OBVIOUS
        <4>2. st \in {"opened", "clicked"}
          BY <2>1, <4>1 DEF Participle
        <4>3. PICK q : q = l.stamps \cup {ev}
          OBVIOUS
        <4>4. LiteEvent(l, ev) = [l EXCEPT !.stamps = q, !.status = st]
          BY <2>1, <3>2, <4>1, <4>3 DEF LiteEvent, StoredMail
        <4>5. q \in SUBSET {"open", "click", "delivered"}
          BY <2>1, <4>3 DEF StoredMail
        <4> QED BY <4>2, <4>4, <4>5 DEF StoredMail
      <3> QED BY <3>1, <3>2
    <2>2. CASE ev = "delivered"
      <3>1. PICK q : q = l.stamps \cup {ev}
        OBVIOUS
      <3>2. LiteEvent(l, ev) = [l EXCEPT !.stamps = q]
        BY <2>2, <3>1 DEF LiteEvent, StoredMail
      <3>3. q \in SUBSET {"open", "click", "delivered"} /\ q # {}
        BY <2>2, <3>1 DEF StoredMail
      <3> QED BY <3>2, <3>3 DEF StoredMail
    <2>3. CASE ev = "bounce"
      BY <2>3 DEF LiteEvent, StoredMail
    <2> QED BY <2>1, <2>2, <2>3
  <1> QED BY <1>1, <1>2

LEMMA UpdateEmailEventInv ==
    ASSUME DualIInv, NEW b \in Boxes, NEW ev \in {"open", "click", "delivered", "bounce"},
           UpdateEmailEvent(b, ev)
    PROVE  DualIInv'
  <1>1. PICK lm \in Seq(StoredMail), pm \in Seq(StoredMail) : lm = lite.mails /\ pm = pg.mails
    BY OfficeTypes
  <1>2. MailsBoth(lm, pm)
    BY <1>1, OfficeTypes, Zenon
  <1>3. PICK nl, np : /\ nl = [n \in DOMAIN lm |-> IF lm[n].to = b THEN LiteEvent(lm[n], ev) ELSE lm[n]]
                      /\ np = [n \in DOMAIN pm |-> IF pm[n].to = b THEN PgEvent(pm[n], ev) ELSE pm[n]]
    OBVIOUS
  <1>4. lite' = [lite EXCEPT !.mails = nl] /\ pg' = [pg EXCEPT !.mails = np] /\ UNCHANGED reader
    BY <1>1, <1>3 DEF UpdateEmailEvent, Called
  <1>5. PICK c \in Nat : c = Len(pm) /\ c = Len(lm) /\ DOMAIN lm = 1..c /\ DOMAIN pm = 1..c
    BY <1>2 DEF MailsBoth
  <1>6. ASSUME NEW n \in 1..c
        PROVE  /\ nl[n] \in StoredMail /\ np[n] \in StoredMail
               /\ nl[n].to = np[n].to
               /\ np[n].status = "sent" <=> nl[n].status = "sent" /\ nl[n].stamps = {}
    <2>1. PICK l \in StoredMail, p \in StoredMail : l = lm[n] /\ p = pm[n]
      BY <1>5
    <2>2. /\ l.to = p.to
          /\ p.status = "sent" <=> l.status = "sent" /\ l.stamps = {}
      BY <1>2, <1>5, <2>1 DEF MailsBoth
    <2>3. CASE l.to = b
      <3>1. nl[n] = LiteEvent(l, ev) /\ np[n] = PgEvent(p, ev)
        BY <1>3, <1>5, <2>1, <2>2, <2>3
      <3> QED BY <2>2, <3>1, EventPair
    <2>4. CASE l.to # b
      <3>1. nl[n] = l /\ np[n] = p
        BY <1>3, <1>5, <2>1, <2>2, <2>4
      <3> QED BY <2>2, <3>1
    <2> QED BY <2>3, <2>4
  <1>7. nl = [n \in 1..c |-> nl[n]] /\ np = [n \in 1..c |-> np[n]]
    BY <1>3, <1>5
  <1>8. nl \in Seq(StoredMail) /\ np \in Seq(StoredMail) /\ Len(nl) = c /\ Len(np) = c
    BY <1>5, <1>6, <1>7
  <1>9. MailsBoth(nl, np)
    BY <1>6, <1>8 DEF MailsBoth
  <1>10. OfficeIs(lite', lite, lite.invoices, lite.leads, nl, lite.events, lite.ratings)
    BY <1>4, OfficeTypes, OtherTableSet
  <1>11. OfficeIs(pg', pg, pg.invoices, pg.leads, np, pg.events, pg.ratings)
    BY <1>4, OfficeTypes, OtherTableSet
  <1>12. ReaderInv'
    BY <1>4, <1>11, ReaderRests DEF OfficeIs
  <1> QED BY <1>8, <1>9, <1>10, <1>11, <1>12, OfficeTypes, OfficeCall DEF OfficeIs


-----------------------------------------------------------------------------
(* Events and the client that pages through them.                          *)

LEMMA LogUserEventInv ==
    ASSUME DualIInv, NEW t \in STenants, NEW kind \in {"login", "job_submit"}, LogUserEvent(t, kind)
    PROVE  DualIInv'
  <1>1. PICK row : row = [tenant |-> t, kind |-> kind]
    OBVIOUS
  <1>2. row \in StoredEvent
    BY <1>1 DEF StoredEvent
  <1>3. PICK f \in Seq(StoredEvent) : f = pg.events /\ f = lite.events
    BY OfficeTypes
  <1>4. PICK g : g = Append(f, row)
    OBVIOUS
  <1>5. g \in Seq(StoredEvent) /\ Len(g) = Len(f) + 1 /\ Len(f) \in Nat
    BY <1>2, <1>4
  <1>6. lite' = [lite EXCEPT !.events = g] /\ pg' = [pg EXCEPT !.events = g] /\ UNCHANGED reader
    BY <1>1, <1>3, <1>4 DEF LogUserEvent, Called, Logged
  <1>7. OfficeIs(lite', lite, lite.invoices, lite.leads, lite.mails, g, lite.ratings)
    BY <1>6, OfficeTypes, OtherTableSet
  <1>8. OfficeIs(pg', pg, pg.invoices, pg.leads, pg.mails, g, pg.ratings)
    BY <1>6, OfficeTypes, OtherTableSet
  <1>9. ReaderInv'
    <2>1. ReaderInv /\ Len(pg.events) = Len(f) /\ Len(pg'.events) = Len(f) + 1
      BY <1>3, <1>5, <1>8 DEF DualIInv, OfficeIs
    <2>2. ASSUME reader.pc = "paging", NEW n \in reader.begun
          PROVE  /\ n \in 1..Len(pg'.events)
                 /\ n \in reader.seen \/ Len(pg'.events) - n >= reader.offset
      <3>1. /\ n \in 1..Len(f) /\ reader.offset \in Nat
            /\ n \in reader.seen \/ Len(f) - n >= reader.offset
        BY <2>1, <2>2 DEF ReaderInv
      <3> QED BY <1>5, <2>1, <3>1
    <2> QED BY <1>6, <2>1, <2>2 DEF ReaderInv, PagesMissNothing
  <1> QED BY <1>5, <1>7, <1>8, <1>9, OfficeTypes, OfficeCall DEF OfficeIs

\* A page that is not full is the last one.
LEMMA LastPage ==
    ASSUME NEW c \in Nat, NEW o \in Nat, NEW n \in 1..c, c - n >= o + PageSize
    PROVE  Cardinality({m \in 1..c : c - m \in o..(o + PageSize - 1)}) = PageSize
  <1>1. PageSize \in Nat /\ PageSize > 0
    BY DualStoreAssumption
  <1>2. {m \in 1..c : c - m \in o..(o + PageSize - 1)} = (c - o - PageSize + 1)..(c - o)
    BY <1>1
  <1>3. PICK x \in Int, y \in Int : x = c - o - PageSize + 1 /\ y = c - o
    BY <1>1
  <1>4. Cardinality(x..y) = IF x > y THEN 0 ELSE y - x + 1
    BY <1>3, FS_Interval
  <1>5. Cardinality(x..y) = PageSize
    BY <1>1, <1>3, <1>4
  <1> QED BY <1>2, <1>3, <1>5, Zenon

LEMMA ReadPageInv ==
    ASSUME DualIInv, ReadPage PROVE DualIInv'
  <1>1. PICK page : page = PageAt(pg, reader.offset)
    OBVIOUS
  <1>2. /\ reader.pc = "paging" /\ UNCHANGED <<lite, pg, storeCalls>>
        /\ reader' = [reader EXCEPT !.offset = @ + PageSize, !.seen = @ \cup page,
                                    !.pc = IF Cardinality(page) < PageSize THEN "done" ELSE "paging"]
    BY <1>1 DEF ReadPage
  <1>3. ReaderInv
    BY DEF DualIInv
  <1>4. PICK o \in Nat : o = reader.offset
    BY <1>2, <1>3 DEF ReaderInv
  <1>5. PICK next : next = IF Cardinality(page) < PageSize THEN "done" ELSE "paging"
    OBVIOUS
  <1>6. reader' = [pc |-> next, offset |-> o + PageSize, begun |-> reader.begun, seen |-> reader.seen \cup page]
    BY <1>2, <1>3, <1>4, <1>5 DEF ReaderInv
  <1>7. PICK c \in Nat : c = Len(pg.events) /\ DOMAIN pg.events = 1..c
    BY OfficeTypes
  <1>8. page = {m \in 1..c : c - m \in o..(o + PageSize - 1)}
    BY <1>1, <1>4, <1>7 DEF PageAt
  <1>9. PageSize \in Nat
    BY DualStoreAssumption
  <1>10. ASSUME NEW n \in reader.begun
         PROVE  /\ n \in 1..c
                /\ n \in reader.seen \cup page \/ c - n >= o + PageSize
    <2>1. n \in 1..c /\ (n \in reader.seen \/ c - n >= o)
      BY <1>2, <1>3, <1>4, <1>7 DEF ReaderInv
    <2>2. c - n >= o /\ ~(c - n >= o + PageSize) => n \in page
      BY <1>8, <1>9, <2>1
    <2> QED BY <2>1, <2>2
  <1>11. next = "done" => \A n \in reader.begun : n \in reader.seen \cup page
    <2>1. \A n \in reader.begun : c - n >= o + PageSize => Cardinality(page) = PageSize
      BY <1>8, <1>10, LastPage
    <2> QED BY <1>5, <1>9, <1>10, <2>1
  <1>12. ReaderInv'
    <2>1. /\ reader'.pc = next /\ reader'.offset = o + PageSize /\ reader'.begun = reader.begun
          /\ reader'.seen = reader.seen \cup page
      BY <1>6
    <2>4. next \in {"done", "paging"} /\ pg'.events = pg.events
      BY <1>2, <1>5
    <2>2. reader' = [pc |-> reader'.pc, offset |-> reader'.offset, begun |-> reader'.begun, seen |-> reader'.seen]
      BY <1>6
    <2>3. reader'.offset \in Nat
      BY <1>9, <2>1
    <2> QED BY <1>7, <1>10, <1>11, <2>1, <2>2, <2>3, <2>4 DEF ReaderInv, PagesMissNothing
  <1> QED BY <1>2, <1>12 DEF DualIInv, TablesAlike

LEMMA OpenCloseInv ==
    ASSUME DualIInv, OpenEvents \/ CloseEvents PROVE DualIInv'
  <1>1. UNCHANGED <<lite, pg>>
    BY DEF OpenEvents, CloseEvents
  <1>2. ReaderInv'
    <2>1. CASE CloseEvents
      BY <2>1 DEF CloseEvents, AtRestReader, ReaderInv, PagesMissNothing
    <2>2. CASE OpenEvents
      <3>1. PICK c \in Nat : c = Len(pg.events) /\ DOMAIN pg.events = 1..c
        BY OfficeTypes
      <3>2. reader' = [pc |-> "paging", offset |-> 0, begun |-> 1..c, seen |-> {}] /\ Len(pg'.events) = c
        BY <1>1, <2>2, <3>1 DEF OpenEvents
      <3> QED BY <3>1, <3>2 DEF ReaderInv, PagesMissNothing
    <2> QED BY <2>1, <2>2
  <1> QED BY <1>1, <1>2 DEF DualIInv, TablesAlike

-----------------------------------------------------------------------------
LEMMA DualNextInv == DualIInv /\ [DualStoreNext]_dsvars => DualIInv'
  <1> SUFFICES ASSUME DualIInv, [DualStoreNext]_dsvars PROVE DualIInv'
    OBVIOUS
  <1>1. CASE MoneyCalls
    BY <1>1, InitDbInv, SeedTenantsInv, UpdateTenantSubscriptionInv, SetTenantInactiveInv, MarkInvoiceProcessedInv
       DEF MoneyCalls
  <1>2. CASE UserCalls
    BY <1>2, UpsertOauthUserInv, RotateUserApiKeyInv, TokenCallsInv DEF UserCalls
  <1>3. CASE OfficeCalls
    BY <1>3, LeadCallsInv, LogEmailInv, AdminInviteInv, UpdateEmailEventInv, FeedbackInv, WorkerCallsInv
       DEF OfficeCalls
  <1>4. CASE EventCalls
    BY <1>4, LogUserEventInv, OpenCloseInv, ReadPageInv DEF EventCalls
  <1>5. CASE UNCHANGED dsvars
    BY <1>5, StoresRest DEF dsvars
  <1> QED BY <1>1, <1>2, <1>3, <1>4, <1>5 DEF DualStoreNext

LEMMA DualIsSound == DualIInv => StoresSound
  <1> SUFFICES ASSUME DualIInv PROVE StoresSound
    OBVIOUS
  <1>1. StoresAgree
    BY DEF DualIInv, TablesAlike, AccountsBoth, AccountsAlike, MailsBoth, StoresAgree
  <1>2. MailsAgree
    <2>1. DOMAIN pg.mails = 1..Len(pg.mails)
      BY OfficeTypes
    <2> QED BY <2>1 DEF DualIInv, MailsBoth, MailsAgree
  <1>3. KeysOpenTenants
    BY DEF DualIInv, AccountsBoth, Owners, KeysOpenTenants
  <1>4. PagesMissNothing
    BY DEF DualIInv, ReaderInv
  <1> QED BY <1>1, <1>2, <1>3, <1>4 DEF StoresSound

(* Whichever database answers, callers learn the same of tenants, plans,   *)
(* invoices, keys, leads, events and mails; a user's key opens the user's  *)
(* tenant; and who pages through the events misses none that was there at  *)
(* the start, for any tenants, users, keys, page size and number of calls, *)
(* in any order.                                                           *)
THEOREM DatabasesAgree == ServingSpec => []StoresSound
  <1>1. ServingInit => DualIInv
    BY DualInitInv DEF ServingInit
  <1>2. DualIInv /\ [ServingNext]_ServingVars => DualIInv'
    <2>1. [ServingNext]_ServingVars => [DualStoreNext]_dsvars
      BY DEF ServingNext, ServingVars, DualStoreNext
    <2> QED BY <2>1, DualNextInv
  <1> QED BY <1>1, <1>2, DualIsSound, PTL DEF ServingSpec, ServingVars
=============================================================================
