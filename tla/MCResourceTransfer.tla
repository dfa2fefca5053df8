-------------------------- MODULE MCResourceTransfer --------------------------
(* Small instances of ResourceTransfer for TLC.                              *)
EXTENDS ResourceTransfer

CONSTANTS r1, r2, r3

\* r1 has four hashmap pages when a page holds two, the last half full.
\* r3 is over the limit MAX_PARTS = 7 of the runs.
PartCounts == [r \in Resources |-> CASE r = r1 -> 7 [] r = r2 -> 3 [] OTHER -> 8]

\* No two parts of a resource share a map-hash.
Distinct == [r \in Resources |-> [i \in 0 .. N[r] - 1 |-> i]]
\* The parts 0 and 1 of r2 share a map-hash.
Colliding == [r \in Resources |->
                [i \in 0 .. N[r] - 1 |-> IF r = r2 /\ i = 1 THEN 0 ELSE i]]
=============================================================================
