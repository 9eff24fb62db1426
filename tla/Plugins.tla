------------------------------ MODULE Plugins ------------------------------
(***************************************************************************)
(* The plugin manager (plugins/core/manager.py): the registry, the life    *)
(* cycle register / load / enable / disable / unload / update, and the     *)
(* thought traces.  The calls are coroutines of one event loop; all of     *)
(* them take one asyncio.Lock, which is fair and NOT reentrant.  The lock  *)
(* is the queue of the tasks that asked for it: the head holds it.  A task *)
(* that asks again while it holds the lock queues behind itself, and the   *)
(* queue never moves again.  A coroutine gives up control only where it    *)
(* waits for the lock or for an asynchronous hook of a plugin.             *)
(***************************************************************************)
EXTENDS Naturals, Sequences

CONSTANTS PluginNames,      \* names of plugins
          Deps,             \* manifest.dependencies of each plugin, in order
          PTasks,           \* coroutines calling the manager
          NoPlugin,
          TraceIds,         \* thought traces
          MaxSteps,         \* bound: steps recorded in one trace
          MaxPluginCalls    \* bound: calls made

ASSUME DepsAssumption == Deps \in [PluginNames -> Seq(PluginNames)]

VARIABLES instances,    \* plugin -> [state, object]: its PluginInstance
          lockQueue,   \* self._lock: holder first, then the waiters
          ptask,       \* task -> what it is doing
          pcalls,      \* calls made so far
          slipped,     \* plugins whose enable an unload fell into, of the
                       \* plugin itself or of a plugin it depends on
          traces       \* trace -> [state, parents]: steps and their parents

plugvars == <<instances, lockQueue, ptask, pcalls, slipped, traces>>

PStates == {"absent", "registered", "loaded", "enabled", "disabled",
            "unloaded", "error", "updating"}
Live == {"loaded", "enabled"}
POps == {"register", "load", "enable", "disable", "unload", "update"}
NoTask == [op |-> "none", on |-> NoPlugin, at |-> "idle"]

PluginsTypeOK ==
    /\ instances \in [PluginNames -> [state : PStates, object : BOOLEAN]]
    /\ lockQueue \in Seq(PTasks)
    /\ ptask \in [PTasks -> [op : POps \cup {"none"}, on : PluginNames \cup {NoPlugin},
                             at : {"idle", "asked", "again", "hook", "nested"}]]
    /\ pcalls \in 0..MaxPluginCalls
    /\ slipped \subseteq PluginNames
    /\ traces \in [TraceIds -> [state : {"new", "active", "completed"},
                                parents : Seq(0..MaxSteps)]]

PluginsInit ==
    /\ instances = [p \in PluginNames |-> [state |-> "absent", object |-> FALSE]]
    /\ lockQueue = <<>>
    /\ ptask = [t \in PTasks |-> NoTask]
    /\ pcalls = 0
    /\ slipped = {}
    /\ traces = [i \in TraceIds |-> [state |-> "new", parents |-> <<>>]]

State(p) == instances[p].state
Exists(p) == State(p) # "absent"
Holds(t, op, at) ==
    /\ lockQueue # <<>> /\ Head(lockQueue) = t
    /\ ptask[t].op = op /\ ptask[t].at = at

----------------------------------------------------------------------------
(* How a call goes on.  Ends: it returns or raises, the lock is released.  *)

Ends(t) ==
    /\ lockQueue' = Tail(lockQueue)
    /\ ptask' = [ptask EXCEPT ![t] = NoTask]

\* A nested call of a method of the manager asks for the lock the task holds.
AsksAgain(t) ==
    /\ lockQueue' = Append(lockQueue, t)
    /\ ptask' = [ptask EXCEPT ![t].at = "nested"]

\* It is suspended in an asynchronous hook, with the lock.
Suspends(t) == ptask' = [ptask EXCEPT ![t].at = "hook"] /\ UNCHANGED lockQueue

Put(p, s, o) == instances' = [instances EXCEPT ![p] = [state |-> s, object |-> o]]
SetState(p, s) == Put(p, s, instances[p].object)

\* A call is made.  unload looks the plugin up before it takes the lock;
\* enable starts with load, and takes the lock for that.  (A call may queue
\* before the head has run: in the code that takes a third task that was
\* holding the lock; the states reached are the same.)
CallManager(t) ==
    /\ ptask[t] = NoTask
    /\ pcalls < MaxPluginCalls
    /\ pcalls' = pcalls + 1
    /\ \E op \in POps, p \in PluginNames :
          /\ op = "unload" => Exists(p)
          /\ ptask' = [ptask EXCEPT ![t] = [op |-> op, on |-> p, at |-> "asked"]]
          /\ lockQueue' = Append(lockQueue, t)
    /\ UNCHANGED <<instances, slipped, traces>>

\* register: a name is registered once.
Register(t) ==
    LET p == ptask[t].on IN
    /\ Holds(t, "register", "asked")
    /\ IF Exists(p) THEN UNCHANGED instances ELSE Put(p, "registered", FALSE)
    /\ Ends(t)
    /\ UNCHANGED <<pcalls, slipped, traces>>

\* The places in the manifest of the dependencies that are not live, and the
\* first of those dependencies.
Unmet(p) == {i \in DOMAIN Deps[p] : State(Deps[p][i]) \notin Live}
FirstUnmet(p) == {Deps[p][i] : i \in {i \in Unmet(p) : \A k \in Unmet(p) : i <= k}}

\* load, the whole of it, as load or as the first half of enable: a live
\* plugin is returned; an unregistered or failed one raises.  Otherwise the
\* first dependency that is not live decides: unregistered, it fails the
\* load; registered, it is loaded by a nested call.  Then the entry point is
\* imported and the class instantiated, which may fail.
Loading(t, then) ==
    LET p == ptask[t].on IN
    \/ /\ State(p) \in Live
       /\ UNCHANGED instances
       /\ then
    \/ /\ State(p) \in {"absent", "error"}
       /\ UNCHANGED instances
       /\ Ends(t)
    \/ /\ State(p) \notin Live \cup {"absent", "error"}
       /\ \/ /\ \E d \in FirstUnmet(p) : Exists(d)
             /\ SetState(p, "updating")
             /\ AsksAgain(t)
          \/ /\ \A d \in FirstUnmet(p) : ~Exists(d)
             /\ SetState(p, "error")
             /\ Ends(t)
          \/ /\ Unmet(p) = {}
             /\ Put(p, "loaded", TRUE)
             /\ then

Load(t) ==
    /\ Holds(t, "load", "asked")
    /\ Loading(t, Ends(t))
    /\ UNCHANGED <<pcalls, slipped, traces>>

\* enable, first half: load returned the instance and released the lock; the
\* second half queues for it again.
EnableLoads(t) ==
    /\ Holds(t, "enable", "asked")
    /\ Loading(t, /\ lockQueue' = Append(Tail(lockQueue), t)
                  /\ ptask' = [ptask EXCEPT ![t].at = "again"])
    /\ UNCHANGED <<pcalls, slipped, traces>>

\* Second half: the state is not looked at again except for ENABLED.  The
\* object's on_enable, if there is an object and it has one, is called or
\* awaited.
EnableStarts(t) ==
    LET p == ptask[t].on IN
    /\ Holds(t, "enable", "again")
    /\ \/ State(p) = "enabled" /\ UNCHANGED instances /\ Ends(t)
       \/ State(p) # "enabled" /\ SetState(p, "enabled") /\ Ends(t)
       \/ State(p) # "enabled" /\ instances[p].object /\ SetState(p, "error") /\ Ends(t)
       \/ State(p) # "enabled" /\ instances[p].object /\ UNCHANGED instances /\ Suspends(t)
    /\ UNCHANGED <<pcalls, slipped, traces>>

\* The asynchronous hook of enable or disable returns or raises.
HookEnds(t) ==
    LET p == ptask[t].on IN
    \E op \in {"enable", "disable"} :
       /\ Holds(t, op, "hook")
       /\ \/ SetState(p, IF op = "enable" THEN "enabled" ELSE "disabled")
          \/ SetState(p, "error")
       /\ Ends(t)
       /\ UNCHANGED <<pcalls, slipped, traces>>

\* disable: only of an enabled plugin, whoever depends on it.
Disable(t) ==
    LET p == ptask[t].on IN
    /\ Holds(t, "disable", "asked")
    /\ \/ State(p) # "enabled" /\ UNCHANGED instances /\ Ends(t)
       \/ State(p) = "enabled" /\ SetState(p, "disabled") /\ Ends(t)
       \/ State(p) = "enabled" /\ instances[p].object /\ SetState(p, "error") /\ Ends(t)
       \/ State(p) = "enabled" /\ instances[p].object /\ UNCHANGED instances /\ Suspends(t)
    /\ UNCHANGED <<pcalls, slipped, traces>>

DependsOn(q, p) == \E i \in DOMAIN Deps[q] : Deps[q][i] = p

\* The plugins whose being live keeps p from being unloaded.
DependentsEnabled(p) == {q \in PluginNames \ {p} : State(q) = "enabled" /\ DependsOn(q, p)}
Dependents(p) == {q \in PluginNames \ {p} : State(q) \in Live /\ DependsOn(q, p)}

\* Task u is between the halves of an enable of q.
Enabling(u, q) == ptask[u].op = "enable" /\ ptask[u].on = q /\ ptask[u].at = "again"

\* unload: an enabled plugin is first disabled, by a nested call.
Unload(t) ==
    LET p == ptask[t].on IN
    /\ Holds(t, "unload", "asked")
    /\ \/ /\ State(p) = "enabled"
          /\ AsksAgain(t)
          /\ UNCHANGED <<instances, slipped>>
       \/ /\ State(p) # "enabled" /\ Dependents(p) # {}
          /\ Ends(t)
          /\ UNCHANGED <<instances, slipped>>
       \/ /\ State(p) # "enabled" /\ Dependents(p) = {}
          /\ Put(p, "unloaded", FALSE)
          /\ slipped' = slipped \cup {q \in PluginNames :
                           /\ q = p \/ DependsOn(q, p)
                           /\ \E u \in PTasks : Enabling(u, q)}
          /\ Ends(t)
    /\ UNCHANGED <<pcalls, traces>>

\* update: disable if enabled, else forget the object and load: a nested
\* call in either case.
Update(t) ==
    LET p == ptask[t].on IN
    /\ Holds(t, "update", "asked")
    /\ \/ ~Exists(p) /\ UNCHANGED instances /\ Ends(t)
       \/ State(p) = "enabled" /\ UNCHANGED instances /\ AsksAgain(t)
       \/ /\ Exists(p) /\ State(p) # "enabled"
          /\ Put(p, "updating", FALSE)
          /\ AsksAgain(t)
    /\ UNCHANGED <<pcalls, slipped, traces>>

----------------------------------------------------------------------------
(* TraceCollector (plugins/core/trace.py): synchronous, no lock.           *)

StartTrace(i) ==
    /\ traces[i].state = "new"
    /\ traces' = [traces EXCEPT ![i].state = "active"]

\* A step points at the step before it; a finished trace takes none.
AddStep(i) ==
    /\ traces[i].state = "active"
    /\ Len(traces[i].parents) < MaxSteps
    /\ traces' = [traces EXCEPT ![i].parents = Append(@, Len(@))]

FinishTrace(i) ==
    /\ traces[i].state = "active"
    /\ traces' = [traces EXCEPT ![i].state = "completed"]

\* get and list_traces serve the completed ones only.
ListTraces == {i \in TraceIds : traces[i].state = "completed"}

ManagerNext ==
    \E t \in PTasks :
       \/ CallManager(t) \/ Register(t) \/ Load(t) \/ EnableLoads(t) \/ EnableStarts(t)
       \/ HookEnds(t) \/ Disable(t) \/ Unload(t) \/ Update(t)

TraceNext ==
    /\ \E i \in TraceIds : StartTrace(i) \/ AddStep(i) \/ FinishTrace(i)
    /\ UNCHANGED <<instances, lockQueue, ptask, pcalls, slipped>>

----------------------------------------------------------------------------
Seized == \E t \in PTasks : ptask[t].at = "nested"

(* What the checks of load and unload are for, in any interleaving: a live *)
(* plugin has its object and so has every plugin it depends on.  Three     *)
(* ways to lose it are in the code: an unload, of the plugin or of one it  *)
(* depends on, that gets the lock between the halves of an enable (after   *)
(* which the plugin is ENABLED and empty, or without its dependency), an   *)
(* update, which forgets the object whoever depends on it, and the nested  *)
(* calls, which seize the lock for good.                                   *)
LiveIsWhole ==
    \A p \in PluginNames :
       State(p) \in Live /\ p \notin slipped =>
          /\ instances[p].object
          /\ \A i \in DOMAIN Deps[p] :
                LET d == Deps[p][i] IN instances[d].object \/ d \in slipped \/ Seized

\* The lock is released: nobody waits unless its holder is suspended in a
\* hook, about to run, or waiting behind itself.
LockIsPassedOn ==
    lockQueue # <<>> =>
       /\ ptask[Head(lockQueue)].at # "idle"
       /\ \A t \in PTasks : ptask[t].at # "idle" => \E i \in DOMAIN lockQueue : lockQueue[i] = t

\* Every listed trace is a chain: each step's parent is the step before it.
TracesAreChains == \A i \in ListTraces : \A k \in DOMAIN traces[i].parents : traces[i].parents[k] = k - 1

(* The registry and the lock of the plugin manager, however the calls      *)
(* interleave (manager.py:125-262).                                        *)
PluginsInv == LiveIsWhole /\ LockIsPassedOn /\ TracesAreChains

=============================================================================
