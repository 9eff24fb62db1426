------------------------------ MODULE MCSubmit ------------------------------
(* An instance of Submit for TLC: four requests with one key, three of     *)
(* them of the same tenant, and one request without a key.                 *)
EXTENDS Submit, TLC

CONSTANTS r1, r2, r3, r4, r5, t1, t2, k1

MCTenantOf == [r \in Requests |-> IF r = r4 THEN t2 ELSE t1]
MCKeyOf == [r \in Requests |-> IF r = r5 THEN NoKey ELSE k1]
=============================================================================
