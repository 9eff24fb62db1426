---------------------------- MODULE MCJobBilling ----------------------------
(* Instances of JobBilling for TLC: one tenant, durations 0, 1 and 2, of   *)
(* which the first is too short to cost anything.                          *)
EXTENDS JobBilling, TLC

CONSTANTS t1

MCDurations == 0..2
MCCostOf == [d \in MCDurations |-> d]
MCTenantOf == [j \in Jobs |-> t1]

(* Jobs are interchangeable, and so are the slots of a kind.               *)
MCSymmetry == Permutations(Jobs) \cup Permutations(Tasks)
=============================================================================
