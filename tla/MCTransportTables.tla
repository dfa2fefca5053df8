-------------------------- MODULE MCTransportTables --------------------------
(* Instances of TransportTables for TLC.                                   *)
EXTENDS TransportTables, TLC
IdSymmetry ==
    Permutations(Dests) \cup Permutations(Ifaces) \cup Permutations(InIds)
    \cup Permutations(OutIds) \cup Permutations(Packets)

\* Retain is the library's filter, on the queues the instance can hold.
ASSUME RetainFilters ==
    \A n \in 0..4 : \A queue \in [1..n -> 1..3] : \A ks \in SUBSET (1..3) :
       Retain(queue, ks) = SelectSeq(queue, LAMBDA k : k \notin ks)
=============================================================================
