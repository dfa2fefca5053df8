---------------------------- MODULE LargeDelivery ----------------------------
(***************************************************************************)
(* What a Resource transfer promises the two applications that use it: the *)
(* payload the receiver hands on is one that was offered, it is handed on  *)
(* once, and the sender is told "delivered" only about a payload the       *)
(* receiver holds complete.  Nothing is promised about when, or whether.   *)
(***************************************************************************)
EXTENDS Naturals

CONSTANT Resources

VARIABLES offered, accepted, handed, confirmed

absVars == <<offered, accepted, handed, confirmed>>

Init ==
  /\ offered = {}
  /\ accepted = {}
  /\ handed = {}
  /\ confirmed = {}

\* The sender puts a new resource on the link.
Offer(r) ==
  /\ r \notin offered
  /\ offered' = offered \cup {r}
  /\ UNCHANGED <<accepted, handed, confirmed>>

\* The receiver holds the whole verified payload.
Accept(r) ==
  /\ r \in offered \ accepted
  /\ accepted' = accepted \cup {r}
  /\ UNCHANGED <<offered, handed, confirmed>>

\* The payload goes to the receiving application.
HandOver(r) ==
  /\ r \in accepted \ handed
  /\ handed' = handed \cup {r}
  /\ UNCHANGED <<offered, accepted, confirmed>>

\* The sending application is told.
Confirm(r) ==
  /\ r \in accepted \ confirmed
  /\ confirmed' = confirmed \cup {r}
  /\ UNCHANGED <<offered, accepted, handed>>

Next == \E r \in Resources : Offer(r) \/ Accept(r) \/ HandOver(r) \/ Confirm(r)

Spec == Init /\ [][Next]_absVars
=============================================================================
