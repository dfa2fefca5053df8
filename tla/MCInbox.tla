------------------------------- MODULE MCInbox -------------------------------
(* Instances of Inbox for TLC: message 1 from a, the others from b.        *)
EXTENDS Inbox
CONSTANTS a, b
FromAB == [m \in Msgs |-> IF m = 1 THEN a ELSE b]
ReaderSymmetry == Permutations(Readers)
=============================================================================
