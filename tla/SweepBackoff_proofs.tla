------------------------- MODULE SweepBackoff_proofs -------------------------
(***************************************************************************)
(* The pauses of the billing_pending sweeper, for any number of jobs, any  *)
(* batch and any length of the pause.                                      *)
(***************************************************************************)
EXTENDS SweepBackoff, TLAPS

(* _no_funds_next_try holds nothing but jobs that are still parked, so it  *)
(* cannot grow with the jobs that were ever unpaid; an entry that was not  *)
(* purged ends exactly Retry passes after the answer that made it, so no   *)
(* failing pass prolongs it; and a settled job is not parked again.        *)
PausesBacked ==
    /\ pending \cap billed = {}
    /\ \A j \in Jobs : pause[j] > 0 => j \in pending /\ pause[j] + since[j] = Retry

SweepInv == TypeOK /\ PausesBacked

(* The pauses after a pass that was told no_funds for unpaid and dropped   *)
(* the entries of dropped.                                                 *)
PausedFor(unpaid, dropped) ==
    [j \in Jobs |-> IF j \in dropped THEN 0 ELSE Answered(unpaid)[j]]

-----------------------------------------------------------------------------
(* The jobs a pass tries are parked and not paused.                        *)
LEMMA ListedIsDue == Listed \subseteq {j \in pending : Left[j] = 0}
  BY DEF Listed, Oldest

LEMMA LeftTypes ==
    ASSUME TypeOK
    PROVE  Left \in [Jobs -> 0..Retry]
  BY BackoffAssumption DEF TypeOK, Left

(* What every pass does to the pauses: a job it could not bill is paused   *)
(* for Retry passes, the others have one pass less or no entry at all.     *)
LEMMA TriedKeepsInv ==
    ASSUME SweepInv,
           NEW tried \in SUBSET Listed, NEW paid \in SUBSET tried,
           NEW unpaid \in SUBSET tried, paid \cap unpaid = {},
           Tried(paid, unpaid), faults' \in 0..MaxFaults,
           NEW dropped \in SUBSET (Jobs \ tried),
           pause' = PausedFor(unpaid, dropped)
    PROVE  SweepInv'
  <1>1. tried \subseteq pending /\ pending \subseteq Jobs /\ billed \subseteq Jobs
    BY ListedIsDue DEF SweepInv, TypeOK
  <1>2. Left \in [Jobs -> 0..Retry] /\ \A j \in tried : Left[j] = 0
    BY LeftTypes, ListedIsDue DEF SweepInv
  <1>3. \A j \in Jobs : pause'[j] = IF j \in dropped THEN 0
                                    ELSE IF j \in unpaid THEN Retry ELSE Left[j]
    BY DEF PausedFor, Answered, PauseOf
  <1>4. \A j \in Jobs : since'[j] = IF j \in unpaid THEN 0
                                    ELSE IF since[j] < Retry THEN since[j] + 1 ELSE Retry
    BY DEF Tried
  <1>5. TypeOK'
    <2>1. pending' \subseteq Jobs /\ billed' \subseteq Jobs /\ poor' \subseteq Jobs
      BY <1>1 DEF Tried, SweepInv, TypeOK
    <2>2. pause' \in [Jobs -> 0..Retry]
      BY <1>2, BackoffAssumption DEF PausedFor, Answered, PauseOf
    <2>3. since' \in [Jobs -> 0..Retry]
      BY BackoffAssumption DEF Tried, SweepInv, TypeOK
    <2> QED BY <2>1, <2>2, <2>3 DEF TypeOK
  <1>6. (pending \cap billed = {})'
    BY <1>1 DEF Tried, SweepInv, PausesBacked
  <1>7. ASSUME NEW j \in Jobs, pause'[j] > 0
        PROVE  j \in pending' /\ pause'[j] + since'[j] = Retry
    <2>1. j \notin dropped
      BY <1>3, <1>7
    <2>2. CASE j \in unpaid
      <3>1. pause'[j] = Retry /\ since'[j] = 0
        BY <1>3, <1>4, <2>1, <2>2
      <3>2. j \in pending'
        BY <1>1, <2>2 DEF Tried
      <3> QED BY <3>1, <3>2, BackoffAssumption
    <2>3. CASE j \notin unpaid
      <3>1. pause'[j] = Left[j]
        BY <1>3, <2>1, <2>3
      <3>2. pause[j] \in 0..Retry /\ since[j] \in 0..Retry
        BY DEF SweepInv, TypeOK
      <3>3. pause[j] > 0 /\ Left[j] = pause[j] - 1
        BY <1>7, <3>1, <3>2 DEF Left
      <3>4. j \in pending /\ pause[j] + since[j] = Retry
        BY <3>3 DEF SweepInv, PausesBacked
      <3>5. since'[j] = since[j] + 1
        BY <1>4, <2>3, <3>2, <3>3, <3>4, BackoffAssumption
      <3>6. j \notin tried
        BY <1>2, <1>7, <3>1
      <3>7. j \in pending'
        BY <3>4, <3>6 DEF Tried
      <3> QED BY <3>1, <3>2, <3>3, <3>4, <3>5, <3>7, BackoffAssumption
    <2> QED BY <2>2, <2>3
  <1> QED BY <1>5, <1>6, <1>7 DEF SweepInv, PausesBacked

LEMMA PassKeepsInv ==
    ASSUME SweepInv, NEW bad \in Jobs \cup {0}, NEW broken \in SUBSET Jobs,
           Pass(bad, broken)
    PROVE  SweepInv'
  <1> DEFINE tried == {j \in Listed : bad = 0 \/ j < bad}
             unpaid == (tried \cap poor) \ broken
             paid == tried \ (poor \cup broken)
             dropped == IF Cardinality(Listed) < Batch THEN Jobs \ Listed ELSE {}
  <1>1. faults' \in 0..MaxFaults
    BY BackoffAssumption DEF Pass, Fault, SweepInv, TypeOK
  <1>2. Tried(paid, unpaid)
    BY DEF Pass
  <1>3. pause' = PausedFor(unpaid, dropped)
    <2>1. pause' = [j \in Jobs |->
                       IF Cardinality(Listed) < Batch /\ j \notin Listed THEN 0
                       ELSE Answered(unpaid)[j]]
      BY DEF Pass
    <2>2. \A j \in Jobs :
             j \in dropped <=> Cardinality(Listed) < Batch /\ j \notin Listed
      OBVIOUS
    <2> HIDE DEF dropped, unpaid
    <2> QED BY <2>1, <2>2 DEF PausedFor
  <1>4. /\ tried \in SUBSET Listed /\ paid \in SUBSET tried
        /\ unpaid \in SUBSET tried /\ paid \cap unpaid = {}
        /\ dropped \in SUBSET (Jobs \ tried)
    OBVIOUS
  <1> HIDE DEF tried, unpaid, paid, dropped
  <1> QED BY <1>1, <1>2, <1>3, <1>4, TriedKeepsInv

LEMMA PassRaisesKeepsInv ==
    ASSUME SweepInv, NEW bad \in Jobs \cup {0}, PassRaises(bad)
    PROVE  SweepInv'
  <1> DEFINE tried == {j \in Listed : j <= bad}
             unpaid == tried \cap poor
             paid == tried \ poor
             dropped == {}
  <1>1. faults' \in 0..MaxFaults
    BY BackoffAssumption DEF PassRaises, Fault, SweepInv, TypeOK
  <1>2. Tried(paid, unpaid)
    BY DEF PassRaises
  <1>3. pause' = PausedFor(unpaid, dropped)
    BY DEF PassRaises, PausedFor, Answered
  <1>4. /\ tried \in SUBSET Listed /\ paid \in SUBSET tried
        /\ unpaid \in SUBSET tried /\ paid \cap unpaid = {}
        /\ dropped \in SUBSET (Jobs \ tried)
    OBVIOUS
  <1> HIDE DEF tried, unpaid, paid, dropped
  <1> QED BY <1>1, <1>2, <1>3, <1>4, TriedKeepsInv

(* Parking, topping up and restarting; a restart forgets every pause.      *)
LEMMA OthersKeepInv ==
    ASSUME SweepInv,
           (\E j \in Jobs : Park(j) \/ TopUp(j)) \/ Restart \/ UNCHANGED vars
    PROVE  SweepInv'
  <1>1. ASSUME NEW j \in Jobs, Park(j)
        PROVE  SweepInv'
    BY <1>1 DEF Park, SweepInv, TypeOK, PausesBacked
  <1>2. ASSUME NEW j \in Jobs, TopUp(j)
        PROVE  SweepInv'
    BY <1>2 DEF TopUp, SweepInv, TypeOK, PausesBacked
  <1>3. CASE Restart
    BY <1>3, BackoffAssumption DEF Restart, Fault, SweepInv, TypeOK, PausesBacked
  <1>4. CASE UNCHANGED vars
    BY <1>4 DEF vars, SweepInv, TypeOK, PausesBacked
  <1> QED BY <1>1, <1>2, <1>3, <1>4

-----------------------------------------------------------------------------
(* Both invariants together are inductive.                                 *)
LEMMA SweepInvariant == Spec => []SweepInv
  <1>1. Init => SweepInv
    BY BackoffAssumption DEF Init, SweepInv, TypeOK, PausesBacked
  <1>2. SweepInv /\ [Next]_vars => SweepInv'
    BY PassKeepsInv, PassRaisesKeepsInv, OthersKeepInv DEF Next
  <1> QED BY <1>1, <1>2, PTL DEF Spec

(* The dictionary of pauses holds parked jobs only and each of its entries *)
(* runs out Retry passes after the answer it records, whatever fails.      *)
THEOREM PausesRunOut == Spec => []PausesBacked
  <1>1. SweepInv => PausesBacked
    BY DEF SweepInv
  <1> QED BY <1>1, SweepInvariant, PTL

(* The variables of the sweeper keep their types: a pause stays within     *)
(* BILLING_PENDING_NO_FUNDS_RETRY_S.                                       *)
THEOREM SweeperTypes == Spec => []TypeOK
  <1>1. SweepInv => TypeOK
    BY DEF SweepInv
  <1> QED BY <1>1, SweepInvariant, PTL
=============================================================================
