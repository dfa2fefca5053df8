------------------------------ MODULE MCOutbox ------------------------------
(* Instances of Outbox for TLC: who the messages are for.                  *)
EXTENDS Outbox

CONSTANTS p, q

AllToP == [m \in Msgs |-> p]
AnyKeys == SUBSET Targets
AllKeys == {Targets}
OneEach == [m \in Msgs |-> IF m = 1 THEN p ELSE q]

=============================================================================
