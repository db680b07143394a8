------------------------------ MODULE MCEndpoint ------------------------------
EXTENDS Endpoint

CONSTANTS t1, t2, small, large, huge

MCOps == [k \in Keys |-> CASE k = small -> 1 [] k = large -> 3 [] k = huge -> 4]

\* All the assertions share the one slot.
MCSlotOf == [k \in Keys |-> 1]

===============================================================================
