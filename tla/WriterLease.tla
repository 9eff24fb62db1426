---------------------------- MODULE WriterLease ----------------------------
(***************************************************************************)
(* The writer lease of the operations tools (src/deploy/ops/lease.py): one *)
(* lease file and one marker file per session, all written under a flock.  *)
(* A command replaces the lease first and the marker second, so a process  *)
(* that dies between the two leaves them apart.                            *)
(*                                                                         *)
(* Time is kept as ages, in units of which ttl_min is TTL; an age stops at *)
(* TTL + 1, where lease and marker are both stale.  The lease is live up   *)
(* to and including TTL, a marker is fresh only below it: the rounding of  *)
(* heartbeat_age_min gives the marker that much slack.                     *)
(***************************************************************************)
EXTENDS Integers

CONSTANTS
    Sessions,    \* instance_ids
    Nobody,
    TTL,         \* ttl_min
    Hold,        \* bound: how long a command may hold the flock
    MaxToken,    \* bound: captures
    MaxSpoiled   \* bound: times the files are damaged from outside

ASSUME LeaseAssumption ==
    /\ Nobody \notin Sessions
    /\ TTL \in Nat \ {0}
    /\ Hold \in {0, 1}
    /\ MaxToken \in Nat /\ MaxSpoiled \in Nat

VARIABLES
    lease,     \* .writer_lease.json: is it readable, whose is it, token, heartbeat age
    marker,    \* age of last_seen of each session's marker; a missing one is old
    due,       \* whose marker the command in the flock has yet to write, or Nobody
    held,      \* how long the flock has been held
    spoiled

vars == <<lease, marker, due, held, spoiled>>

Ages == 0..(TTL + 1)

TypeOK ==
    /\ lease \in [file : {"absent", "ok", "torn", "bad_heartbeat"},
                  holder : Sessions \cup {Nobody}, token : Nat, age : Ages]
    /\ marker \in [Sessions -> Ages]
    /\ due \in Sessions \cup {Nobody}
    /\ held \in 0..Hold
    /\ spoiled \in 0..MaxSpoiled

Init ==
    /\ lease = [file |-> "absent", holder |-> Nobody, token |-> 0, age |-> TTL + 1]
    /\ marker = [s \in Sessions |-> TTL + 1]
    /\ due = Nobody
    /\ held = 0
    /\ spoiled = 0

-----------------------------------------------------------------------------
(* Faulty variant: the age of a stale file keeps growing.                  *)
OlderUncapped(age) == age + 1

Older(age) == IF age <= TTL THEN age + 1 ELSE age

(* Time passes; a command leaves the flock before the slack is used up.    *)
Tick ==
    /\ due = Nobody \/ held < Hold
    /\ held' = IF due = Nobody THEN 0 ELSE held + 1
    /\ lease' = [lease EXCEPT !.age = Older(@)]
    /\ marker' = [s \in Sessions |-> Older(marker[s])]
    /\ UNCHANGED <<due, spoiled>>

(* fresh_markers.                                                          *)
Fresh == {s \in Sessions : marker[s] < TTL}

(* Faulty variants: a live lease may be taken over; a heartbeat takes a    *)
(* new token.                                                              *)
CaptureAllowedLive(s) ==
    \/ lease.file = "absent"
    \/ /\ lease.file = "ok"
       /\ Fresh \subseteq {lease.holder, s}

(* read_state_strict, parse_heartbeat_at and _assert_capture_allowed: the  *)
(* first capture; the holder's own live lease; or a stale lease.  A file   *)
(* that cannot be read, a heartbeat that cannot be parsed and a fresh      *)
(* marker of a third session refuse.                                       *)
CaptureAllowed(s) ==
    \/ lease.file = "absent"
    \/ /\ lease.file = "ok"
       /\ lease.age <= TTL => s = lease.holder
       /\ Fresh \subseteq {lease.holder, s}

(* Lease.capture, up to the replacement of the lease file.                 *)
Capture(s) ==
    /\ due = Nobody
    /\ lease.token < MaxToken
    /\ CaptureAllowed(s)
    /\ lease' = [file |-> "ok", holder |-> s, token |-> lease.token + 1, age |-> 0]
    /\ due' = s
    /\ held' = 0
    /\ UNCHANGED <<marker, spoiled>>

HeartbeatToken ==
    /\ due = Nobody
    /\ lease.file \in {"ok", "bad_heartbeat"}
    /\ Fresh \subseteq {lease.holder}
    /\ lease.token < MaxToken
    /\ lease' = [lease EXCEPT !.file = "ok", !.age = 0, !.token = @ + 1]
    /\ due' = lease.holder
    /\ held' = 0
    /\ UNCHANGED <<marker, spoiled>>

(* Lease.heartbeat, up to the replacement of the lease file.  It takes the *)
(* instance_id from the file, so whichever session runs it, it acts for    *)
(* the holder; the guard counts fresh markers other than the holder's.     *)
Heartbeat ==
    /\ due = Nobody
    /\ lease.file \in {"ok", "bad_heartbeat"}
    /\ Fresh \subseteq {lease.holder}
    /\ lease' = [lease EXCEPT !.file = "ok", !.age = 0]
    /\ due' = lease.holder
    /\ held' = 0
    /\ UNCHANGED <<marker, spoiled>>

(* write_marker, the last statement under the flock of both commands.      *)
WriteMarker ==
    /\ due # Nobody
    /\ marker' = [marker EXCEPT ![due] = 0]
    /\ due' = Nobody
    /\ held' = 0
    /\ UNCHANGED <<lease, spoiled>>

(* The command dies between the two files; the kernel drops the flock.     *)
Die ==
    /\ due # Nobody
    /\ due' = Nobody
    /\ held' = 0
    /\ UNCHANGED <<lease, marker, spoiled>>

(* Damage from outside that the readers must survive: a lease file that is *)
(* no JSON, a heartbeat_at that does not parse, a marker that is lost.     *)
Spoil ==
    /\ spoiled < MaxSpoiled
    /\ spoiled' = spoiled + 1
    /\ \/ /\ lease.file # "absent"
          /\ \E file \in {"torn", "bad_heartbeat"} : lease' = [lease EXCEPT !.file = file]
          /\ UNCHANGED marker
       \/ /\ \E s \in Sessions : marker' = [marker EXCEPT ![s] = TTL + 1]
          /\ UNCHANGED lease
    /\ UNCHANGED <<due, held>>

Next ==
    \/ Tick \/ Heartbeat \/ WriteMarker \/ Die \/ Spoil
    \/ \E s \in Sessions : Capture(s)

Spec == Init /\ [][Next]_vars

-----------------------------------------------------------------------------
(* At most one session looks alive, and it is the one named in the lease:  *)
(* the marker of a session that lost the lease is stale by then, deaths    *)
(* between the two writes and lost files included.  The collision guard    *)
(* has nothing to report as long as every session uses these commands.     *)
OneFreshMarker == Fresh \subseteq {lease.holder}

(* Only an expired heartbeat gives the right to take the lease over, every *)
(* take-over raises the fencing token, and nothing but a capture does: a   *)
(* session that keeps its heartbeat within the TTL is never displaced.     *)
TakenOnlyWhenStale ==
    [][/\ lease'.holder # lease.holder /\ lease.holder # Nobody => lease.age > TTL
       /\ lease'.holder # lease.holder => lease'.token > lease.token
       /\ lease'.token # lease.token =>
             lease'.token = lease.token + 1 /\ \E s \in Sessions : Capture(s)]_vars

-----------------------------------------------------------------------------
(* The inductive invariant behind OneFreshMarker: the holder's marker is   *)
(* at most one unit younger than the lease.                                *)
LeaseInv ==
    /\ TypeOK
    /\ OneFreshMarker
    /\ lease.holder = Nobody <=> lease.file = "absent"
    /\ lease.file = "absent" => due = Nobody /\ Fresh = {}
    /\ \A s \in Sessions : s = lease.holder => marker[s] >= lease.age - 1
    /\ due # Nobody => due = lease.holder /\ lease.age <= held
=============================================================================
