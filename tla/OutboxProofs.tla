---------------------------- MODULE OutboxProofs ----------------------------
(***************************************************************************)
(* What TLAPS proves of the delivery engine, for any messages, peers,      *)
(* readers, limits and timeouts: the types and delivery budgets (TypeOK),  *)
(* that no message is lost or judged twice (OneFate), that the marks tell  *)
(* the truth (MarkIsTrue), that mining overwrites nothing newer            *)
(* (SnapshotIsFresh), that a first direct send carries the stamp the peer  *)
(* asks for but in two windows (StampBeforeSend) and that the node is      *)
(* tried before a message is given up (NodeBeforeFailure).                 *)
(*                                                                         *)
(* One inductive invariant carries all of them.  Its parts:                *)
(*   Entries    what the fields of one entry owe each other;               *)
(*   Armed      an unsent entry, and the draft, know of the peer's cost;   *)
(*   Passing    who makes a pass handles no packet meanwhile;              *)
(*   MineFresh  the entry being mined is untouched, or was cleared;        *)
(*   Fates      a message is in the outbox, or one verdict is on its way;  *)
(*   NetTrue    a proof on its way, or being handled, is of an arrival;    *)
(*   MarksTrue  every verdict, shown, held or on its way, is true.         *)
(***************************************************************************)
EXTENDS Outbox, WellFoundedInduction, FiniteSetTheorems, TLAPS

\* The fields of one entry: a message that was sent to the node is on the
\* propagation path, a packet in flight is its own, a direct message with
\* nothing in flight has a try left, one that awaits a stamp was never sent,
\* a direct one that was never tried has nothing in flight, and a ticket's
\* stamp is in the bytes.
Entry(m, x) ==
    /\ x.tried_pn => x.via_pn
    /\ x.in_flight # NoFlight => x.in_flight.m = m
    /\ x.in_flight.via = "pn" => x.via_pn
    /\ ~x.via_pn /\ x.in_flight = NoFlight => x.attempts < MAX_ATTEMPTS
    /\ x.needs_stamp # 0 => x.attempts = 0 /\ x.in_flight = NoFlight
    /\ ~x.via_pn /\ x.attempts = 0 => x.in_flight = NoFlight
    /\ x.stamped => x.packed = "stamped"

Entries == \A m \in Msgs : Entry(m, msg[m])

\* A direct message that was never tried, to a peer that asks for a stamp, has
\* one or awaits one, unless the announce that asked has yet to sweep the
\* outbox or overtook it; so has the message in post's hands.
ArmedEntries ==
    \A m \in outbox :
      /\ ~msg[m].via_pn /\ msg[m].attempts = 0 /\ costs[PeerOf[m]] # 0
      => \/ msg[m].packed = "stamped" \/ msg[m].needs_stamp # 0
         \/ msg[m].overtaken \/ Sweeping(PeerOf[m])
ArmedDraft ==
    draft # NoDraft /\ ~draft.ticket /\ costs[PeerOf[draft.m]] # 0
      => draft.cost # 0 \/ draft.overtaken
Armed == ArmedEntries /\ ArmedDraft

\* A reader that holds the outbox lock in a pass is at no other work.
Passing == \A r \in Readers : pass.by = r => task[r].do = "want"

\* What the pump thread mines on: the entry as it was copied, or one that the
\* user has cleared meanwhile.  Nothing else can take it out of the outbox.
MineFresh ==
    LET j == task["pump"] IN
    j.do = "mine" =>
      \/ /\ j.m \in outbox
         /\ msg[j.m].needs_stamp = j.cost /\ msg[j.m].packed = j.packed
      \/ j.m \notin outbox /\ bubble[j.m] = "cleared"

\* A verdict on m is on its way in thread th; a verdict is held.
Coming(th, m, s) == <<m, s>> \in verdict[th]
Held(m, s) == <<m, s>> \in held

\* A tracked message, and the one in post's hands, is pending and has no
\* verdict; one that is pending and neither has a verdict, and only one.
Fates ==
    /\ draft.m \notin outbox
    /\ \A m \in Msgs : m = draft.m =>
         /\ bubble[m] = "pending"
         /\ \A s \in Verdicts : ~Held(m, s) /\ \A th \in Threads : ~Coming(th, m, s)
    /\ \A m \in outbox :
         /\ bubble[m] = "pending"
         /\ \A s \in Verdicts : ~Held(m, s) /\ \A th \in Threads : ~Coming(th, m, s)
    /\ \A m \in Msgs, s \in Verdicts :
         /\ Held(m, s) => bubble[m] \in {"pending", "cleared"}
         /\ \A th \in Threads : Coming(th, m, s) => bubble[m] \in {"pending", "cleared"}
    /\ \A m \in Msgs \ outbox : bubble[m] = "pending" /\ m # draft.m =>
         \E s \in Verdicts : Held(m, s) \/ \E th \in Threads : Coming(th, m, s)
    /\ \A m \in Msgs, s, z \in Verdicts : bubble[m] = "pending" =>
         /\ Held(m, s) /\ Held(m, z) => s = z
         /\ \A th \in Threads : ~(Held(m, s) /\ Coming(th, m, z))
         /\ \A th, tz \in Threads :
              Coming(th, m, s) /\ Coming(tz, m, z) => th = tz /\ s = z

\* The packet k has arrived where its link leads.
Arrived(k) == IF k.via = "pn" THEN "node" \in reached[k.m]
                              ELSE "peer" \in reached[k.m]

NetTrue ==
    /\ \A k \in proofs : Arrived(k)
    /\ \A r \in Readers : task[r].do = "delivered" =>
          task[r].packet # NoFlight /\ Arrived(task[r].packet)

\* Saying s of m would be true.
IsTrue(m, s) == /\ s = "delivered" => "peer" \in reached[m]
                /\ s = "queued" => reached[m] # {}

MarksTrue ==
    /\ \A m \in Msgs : IsTrue(m, bubble[m])
    /\ \A m \in Msgs, s \in Verdicts :
          Held(m, s) \/ (\E th \in Threads : Coming(th, m, s)) => IsTrue(m, s)

Inv == /\ TypeOK /\ Entries /\ Armed /\ Passing
       /\ MineFresh /\ Fates /\ NetTrue /\ MarksTrue

-----------------------------------------------------------------------------
(* Entries of the Vec.                                                     *)

\* An entry does not come back from the propagation path, and only a direct
\* send counts as a try.
Tried(m) == \E th : PassDirectSend(th, m)
Nearer(m, x, y) == /\ x.via_pn => y.via_pn
                   /\ y.attempts = x.attempts \/ (Tried(m) /\ y.attempts # 0)

\* A pass leaves the stamp and the bytes of every entry alone.
Kept == /\ msg' \in [Msgs -> OutboundMsg] /\ Entries'
        /\ \A m \in Msgs : /\ msg'[m].needs_stamp = msg[m].needs_stamp
                           /\ msg'[m].packed = msg[m].packed
                           /\ msg'[m].overtaken = msg[m].overtaken
                           /\ Nearer(m, msg[m], msg'[m])

\* What enqueue_outbound pushes, and the blank left by an entry that is gone,
\* are entries as they should be.
LEMMA NewMsgOK ==
  ASSUME NEW cost \in 0..2, NEW ticket \in BOOLEAN, NEW over \in BOOLEAN, NEW m
  PROVE  /\ NewMsg(cost, ticket, over) \in OutboundMsg
         /\ Entry(m, NewMsg(cost, ticket, over))
<1>1. NoFlight \in Flights  BY DEF Flights
<1>2. NewMsg(cost, ticket, over) \in OutboundMsg
  BY <1>1, TimesAssumption, LimitsAssumption DEF NewMsg, OutboundMsg
<1>3. Entry(m, NewMsg(cost, ticket, over))
  BY LimitsAssumption DEF NewMsg, Entry, NoFlight
<1>. QED  BY <1>2, <1>3

LEMMA NoMsgOK == NoMsg \in OutboundMsg /\ \A m : Entry(m, NoMsg)
<1>1. 0 \in 0..2 /\ FALSE \in BOOLEAN  OBVIOUS
<1>2. ASSUME NEW m
      PROVE  /\ NewMsg(0, FALSE, FALSE) \in OutboundMsg
             /\ Entry(m, NewMsg(0, FALSE, FALSE))
  BY <1>1, NewMsgOK
<1>. QED  BY <1>2 DEF NoMsg

\* One entry is replaced.
LEMMA OneEntry ==
  ASSUME TypeOK, Entries, NEW m \in Msgs, NEW y \in OutboundMsg, Entry(m, y),
         msg' = [msg EXCEPT ![m] = y]
  PROVE  /\ msg' \in [Msgs -> OutboundMsg] /\ Entries'
         /\ msg'[m] = y
         /\ \A x \in Msgs : x # m => msg'[x] = msg[x]
  BY DEF TypeOK, Entries, Entry

LEMMA OneKept ==
  ASSUME TypeOK, Entries, NEW m \in Msgs, NEW y \in OutboundMsg, Entry(m, y),
         msg' = [msg EXCEPT ![m] = y],
         y.needs_stamp = msg[m].needs_stamp, y.packed = msg[m].packed,
         y.overtaken = msg[m].overtaken, Nearer(m, msg[m], y)
  PROVE  Kept
  BY OneEntry DEF Kept, Nearer

LEMMA NoneChanged ==
  ASSUME TypeOK, Entries, msg' = msg
  PROVE  Kept
  BY DEF TypeOK, Entries, Entry, Kept, Nearer

\* Entries leave the Vec.
LEMMA Dropped ==
  ASSUME TypeOK, Entries, NEW S, Drop(S)
  PROVE  msg' \in [Msgs -> OutboundMsg] /\ Entries'
  BY NoMsgOK DEF TypeOK, Entries, Drop


\* Only the pacing of an entry changes: its waits, budgets and retry counts.
Paced(x, y) ==
    /\ y.needs_stamp = x.needs_stamp /\ y.packed = x.packed
    /\ y.stamped = x.stamped /\ y.overtaken = x.overtaken
    /\ y.via_pn = x.via_pn /\ y.tried_pn = x.tried_pn
    /\ y.in_flight = x.in_flight /\ y.attempts = x.attempts

\* The entry of m is only paced anew.
Repaced(m) == \E y \in OutboundMsg : Paced(msg[m], y) /\ msg' = [msg EXCEPT ![m] = y]

LEMMA RepacedKept ==
  ASSUME TypeOK, Entries, NEW m \in Msgs, Repaced(m)
  PROVE  Kept
<1>1. PICK y \in OutboundMsg : Paced(msg[m], y) /\ msg' = [msg EXCEPT ![m] = y]
  BY DEF Repaced
<1>2. Entry(m, msg[m])  BY DEF Entries
<1>3. Entry(m, y)  BY <1>1, <1>2 DEF Entry, Paced
<1>. QED  BY <1>1, <1>3, OneKept DEF Paced, Nearer

LEMMA BackoffKept ==
  ASSUME TypeOK, Entries, NEW m \in Msgs, NEW secs \in Nat, Backoff(m, secs)
  PROVE  Kept
<1>. DEFINE x == msg[m]
            y == [x EXCEPT !.wait = secs]
<1>1. x \in OutboundMsg  BY DEF TypeOK
<1>2. y \in OutboundMsg /\ Paced(x, y)  BY <1>1 DEF OutboundMsg, Paced
<1>3. msg' = [msg EXCEPT ![m] = y]  BY DEF Backoff
<1>. QED  BY <1>2, <1>3, RepacedKept DEF Repaced

\* A message is handed to the propagation branch.
LEMMA EscalateKept ==
  ASSUME TypeOK, Entries, NEW m \in Msgs, EscalateNow(m)
  PROVE  Kept
<1>. DEFINE x == msg[m]
            y == [x EXCEPT !.via_pn = TRUE, !.left = PROP_DEADLINE, !.wait = 0]
<1>1. x \in OutboundMsg /\ Entry(m, x)  BY DEF TypeOK, Entries
<1>2. y \in OutboundMsg /\ Entry(m, y)
  BY <1>1, TimesAssumption DEF OutboundMsg, Entry
<1>3. msg' = [msg EXCEPT ![m] = y]  BY DEF EscalateNow
<1>4. /\ y.needs_stamp = x.needs_stamp /\ y.packed = x.packed
      /\ y.overtaken = x.overtaken /\ Nearer(m, x, y)
  BY <1>1 DEF OutboundMsg, Nearer
<1>. QED  BY <1>2, <1>3, <1>4, OneKept

\* Nothing is in flight any more; a direct message then has a try left.
LEMMA ClearedKept ==
  ASSUME TypeOK, Entries, NEW m \in Msgs, msg[m].via_pn \/ MayRetry(m),
         msg' = [msg EXCEPT ![m].in_flight = NoFlight]
  PROVE  Kept
<1>. DEFINE x == msg[m]
            y == [x EXCEPT !.in_flight = NoFlight]
<1>1. x \in OutboundMsg /\ Entry(m, x)  BY DEF TypeOK, Entries
<1>2. y \in OutboundMsg /\ Entry(m, y)
  BY <1>1 DEF OutboundMsg, Entry, MayRetry, Flights, NoFlight
<1>3. msg' = [msg EXCEPT ![m] = y]  OBVIOUS
<1>4. /\ y.needs_stamp = x.needs_stamp /\ y.packed = x.packed
      /\ y.overtaken = x.overtaken /\ Nearer(m, x, y)
  BY <1>1 DEF OutboundMsg, Nearer
<1>. QED  BY <1>2, <1>3, <1>4, OneKept

-----------------------------------------------------------------------------
(* What a step of a pass does to the outbox: it keeps every message, or    *)
(* gives one up that is stamped and, with a node, on the propagation path. *)

GiveUp(th, m) ==
    Fail(th, m) /\ msg[m].needs_stamp = 0 /\ (hasNode => msg[m].via_pn)
Work == Kept /\ UNCHANGED <<outbox, verdict>>

LEMMA DeadlineDoes ==
  ASSUME TypeOK, Entries, NEW th, NEW m \in Msgs, PassDeadline(th, m)
  PROVE  Work \/ GiveUp(th, m)
<1>0. Entry(m, msg[m])  BY DEF Entries
<1>1. CASE Backstop(m)
  <2>1. EscalateNow(m) /\ UNCHANGED <<outbox, verdict>>
    BY <1>1 DEF PassDeadline, EscalateNow
  <2>. QED  BY <2>1, EscalateKept DEF Work
<1>2. CASE ~Backstop(m)
  BY <1>0, <1>2 DEF PassDeadline, GiveUp, Backstop, CanEscalate, Entry
<1>. QED  BY <1>1, <1>2

LEMMA ProofTimeoutDoes ==
  ASSUME TypeOK, Entries, NEW th, NEW m \in Msgs, PassProofTimeout(th, m)
  PROVE  Work \/ GiveUp(th, m)
<1>. DEFINE cleared == [msg EXCEPT ![m].in_flight = NoFlight]
<1>0. Entry(m, msg[m]) /\ msg[m] \in OutboundMsg /\ msg[m].needs_stamp = 0
  BY DEF Entries, PassProofTimeout, Due, TypeOK
<1>1. CASE msg[m].via_pn \/ MayRetry(m)
  <2>1. msg' = cleared /\ UNCHANGED <<outbox, verdict>>
    BY <1>1 DEF PassProofTimeout
  <2>. QED  BY <1>1, <2>1, ClearedKept DEF Work
<1>2. CASE ~msg[m].via_pn /\ ~MayRetry(m) /\ CanEscalate(m)
  <2>1. /\ msg' = [cleared EXCEPT ![m].via_pn = TRUE, ![m].left = PROP_DEADLINE]
        /\ UNCHANGED <<outbox, verdict>>
    BY <1>2 DEF PassProofTimeout
  <2>. DEFINE x == msg[m]
              y == [x EXCEPT !.in_flight = NoFlight, !.via_pn = TRUE,
                             !.left = PROP_DEADLINE]
  <2>2. NoFlight \in Flights /\ NoFlight.via # "pn" /\ PROP_DEADLINE \in Nat
    BY TimesAssumption DEF Flights, NoFlight
  <2>3. y \in OutboundMsg  BY <1>0, <2>2 DEF OutboundMsg
  <2>5. /\ y.needs_stamp = x.needs_stamp /\ y.packed = x.packed
        /\ y.stamped = x.stamped /\ y.overtaken = x.overtaken
        /\ y.via_pn = TRUE /\ y.in_flight = NoFlight /\ y.attempts = x.attempts
    BY <1>0 DEF OutboundMsg
  <2>6. Entry(m, y)  BY <1>0, <2>2, <2>5 DEF Entry
  <2>4. msg' = [msg EXCEPT ![m] = y]  BY <1>0, <2>1 DEF TypeOK, OutboundMsg
  <2>. QED  BY <2>1, <2>3, <2>4, <2>5, <2>6, OneKept DEF Work, Nearer
<1>3. CASE ~msg[m].via_pn /\ ~MayRetry(m) /\ ~CanEscalate(m)
  <2>1. Fail(th, m)  BY <1>3 DEF PassProofTimeout
  <2>2. ~hasNode  BY <1>0, <1>3 DEF CanEscalate, Entry
  <2>. QED  BY <1>0, <2>1, <2>2 DEF GiveUp
<1>. QED  BY <1>1, <1>2, <1>3

LEMMA PnSendDoes ==
  ASSUME TypeOK, Entries, NEW th, NEW m \in Msgs, PassPnSend(th, m)
  PROVE  Work
<1>. DEFINE x == msg[m]
            k == [m |-> m, n |-> msg[m].sends + 1, via |-> "pn"]
            w == IF m \in Large THEN RESOURCE_RETRY ELSE PROOF_TIMEOUT
            y == [x EXCEPT !.in_flight = k, !.sends = x.sends + 1,
                           !.tried_pn = TRUE, !.wait = w]
<1>1. /\ x \in OutboundMsg /\ Entry(m, x) /\ x.needs_stamp = 0 /\ x.via_pn
      /\ UNCHANGED <<outbox, verdict>>
  BY DEF TypeOK, Entries, PassPnSend, PnLinked, ReadyPn, Ready, Due
<1>2. msg' = [msg EXCEPT ![m] = y]  BY <1>1 DEF PassPnSend
<1>3. w \in Nat  BY TimesAssumption
<1>4. x.sends \in Nat  BY <1>1 DEF OutboundMsg
<1>5. k \in Flights /\ k # NoFlight /\ k.m = m /\ k.via = "pn"
  BY <1>4, MsgsAssumption DEF Flights, NoFlight
<1>. HIDE DEF k, w
<1>6. y \in OutboundMsg
  <2>. DEFINE n == x.sends + 1
              z == [x EXCEPT !.in_flight = k, !.sends = n]
  <2>0. n \in Nat  BY <1>4
  <2>. HIDE DEF n
  <2>1. z \in OutboundMsg  BY <1>1, <1>5, <2>0 DEF OutboundMsg
  <2>2. y = [z EXCEPT !.tried_pn = TRUE, !.wait = w]
    BY <1>1 DEF OutboundMsg, n
  <2>. HIDE DEF z
  <2>. QED  BY <1>3, <2>1, <2>2 DEF OutboundMsg
<1>7. /\ y.in_flight = k /\ y.tried_pn = TRUE /\ y.via_pn = x.via_pn
      /\ y.needs_stamp = x.needs_stamp /\ y.packed = x.packed
      /\ y.stamped = x.stamped /\ y.overtaken = x.overtaken
      /\ y.attempts = x.attempts
  BY <1>1 DEF OutboundMsg
<1>8. Entry(m, y)  BY <1>1, <1>5, <1>7 DEF Entry
<1>. QED  BY <1>1, <1>2, <1>6, <1>7, <1>8, OneKept DEF Work, Nearer

LEMMA DirectSendDoes ==
  ASSUME TypeOK, Entries, NEW th, NEW m \in Msgs, PassDirectSend(th, m)
  PROVE  Work
<1>. DEFINE x == msg[m]
            via == IF PeerOf[m] \in link THEN "out" ELSE "back"
            k == [m |-> m, n |-> msg[m].sends + 1, via |-> via]
            w == IF m \in Large THEN RESOURCE_RETRY ELSE DELIVERY_RETRY
            y == [x EXCEPT !.in_flight = k, !.sends = x.sends + 1,
                           !.attempts = x.attempts + 1, !.wait = w]
<1>1. /\ x \in OutboundMsg /\ Entry(m, x) /\ x.needs_stamp = 0 /\ ~x.via_pn
      /\ x.in_flight = NoFlight
      /\ UNCHANGED <<outbox, verdict>>
  BY DEF TypeOK, Entries, PassDirectSend, ReadyDirect, Ready, Due
<1>2. msg' = [msg EXCEPT ![m] = y]  BY <1>1 DEF PassDirectSend
<1>3. w \in Nat  BY TimesAssumption
<1>4. x.sends \in Nat /\ x.attempts + 1 \in 0..MAX_ATTEMPTS
  BY <1>1, LimitsAssumption DEF OutboundMsg, Entry
<1>5. k \in Flights /\ k # NoFlight /\ k.m = m /\ k.via # "pn"
  BY <1>4, MsgsAssumption DEF Flights, NoFlight
<1>. HIDE DEF k, w
<1>6. y \in OutboundMsg
  <2>. DEFINE n == x.sends + 1
              z == [x EXCEPT !.in_flight = k, !.sends = n]
  <2>0. n \in Nat  BY <1>4
  <2>. HIDE DEF n
  <2>1. z \in OutboundMsg  BY <1>1, <1>5, <2>0 DEF OutboundMsg
  <2>2. y = [z EXCEPT !.attempts = x.attempts + 1, !.wait = w]
    BY <1>1 DEF OutboundMsg, n
  <2>. HIDE DEF z
  <2>. QED  BY <1>3, <1>4, <2>1, <2>2 DEF OutboundMsg
<1>7. /\ y.in_flight = k /\ y.tried_pn = x.tried_pn /\ y.via_pn = x.via_pn
      /\ y.needs_stamp = x.needs_stamp /\ y.packed = x.packed
      /\ y.stamped = x.stamped /\ y.overtaken = x.overtaken
      /\ y.attempts # 0
  BY <1>1 DEF OutboundMsg
<1>8. Entry(m, y)  BY <1>1, <1>5, <1>7 DEF Entry
<1>. QED  BY <1>1, <1>2, <1>6, <1>7, <1>8, OneKept DEF Work, Nearer, Tried

LEMMA NoRouteDoes ==
  ASSUME TypeOK, Entries, NEW th, NEW m \in Msgs, PassNoRoute(th, m)
  PROVE  Work
<1>0. UNCHANGED <<outbox, verdict>>  BY DEF PassNoRoute
<1>1. CASE EscalateNow(m)  BY <1>0, <1>1, EscalateKept DEF Work
<1>2. ASSUME NEW written \in BOOLEAN,
             msg' = [msg EXCEPT ![m].wait = KEY_RETRY,
                       ![m].route_tries = IF written THEN @ + 1 ELSE @]
      PROVE  Work
  <2>. DEFINE x == msg[m]
              n == IF written THEN x.route_tries + 1 ELSE x.route_tries
              y == [x EXCEPT !.wait = KEY_RETRY, !.route_tries = n]
  <2>1. x \in OutboundMsg  BY DEF TypeOK
  <2>2. msg' = [msg EXCEPT ![m] = y]  BY <1>2
  <2>3. n \in Nat /\ KEY_RETRY \in Nat  BY <2>1, TimesAssumption DEF OutboundMsg
  <2>. HIDE DEF n
  <2>4. y \in OutboundMsg /\ Paced(x, y)  BY <2>1, <2>3 DEF OutboundMsg, Paced
  <2>. QED  BY <1>0, <2>2, <2>4, RepacedKept DEF Work, Repaced
<1>. QED  BY <1>1, <1>2 DEF PassNoRoute

LEMMA LinkFailedDoes ==
  ASSUME TypeOK, Entries, NEW th, NEW m \in Msgs, PassLinkFailed(th, m)
  PROVE  Work
<1>. DEFINE x == msg[m]
<1>0. x \in OutboundMsg /\ UNCHANGED <<outbox, verdict>>
  BY DEF PassLinkFailed, TypeOK
<1>1. CASE EscalateNow(m)  BY <1>0, <1>1, EscalateKept DEF Work
<1>2. CASE /\ x.direct_rounds < MAX_DIRECT_ROUNDS
           /\ msg' = [msg EXCEPT ![m].direct_rounds = @ + 1, ![m].wait = 1,
                                 ![m].link_tries = 0, ![m].route_tries = 0]
  <2>. DEFINE n == x.direct_rounds + 1
              y == [x EXCEPT !.direct_rounds = n, !.wait = 1,
                             !.link_tries = 0, !.route_tries = 0]
  <2>1. msg' = [msg EXCEPT ![m] = y]  BY <1>2
  <2>2. n \in 0..MAX_DIRECT_ROUNDS  BY <1>0, <1>2, LimitsAssumption DEF OutboundMsg
  <2>. HIDE DEF n
  <2>3. y \in OutboundMsg
    <3>. DEFINE z == [x EXCEPT !.direct_rounds = n, !.wait = 1]
    <3>1. z \in OutboundMsg  BY <1>0, <2>2 DEF OutboundMsg
    <3>2. y = [z EXCEPT !.link_tries = 0, !.route_tries = 0]
      BY <1>0 DEF OutboundMsg
    <3>. HIDE DEF z
    <3>3. 0 \in 0..MAX_LINK_TRIES /\ 0 \in Nat  BY LimitsAssumption
    <3>. QED  BY <3>1, <3>2, <3>3 DEF OutboundMsg
  <2>4. Paced(x, y)  BY <1>0 DEF OutboundMsg, Paced
  <2>. QED  BY <1>0, <2>1, <2>3, <2>4, RepacedKept DEF Work, Repaced
<1>3. CASE msg' = [msg EXCEPT ![m] = StartOver(@)]
  <2>1. msg' = [msg EXCEPT ![m] = StartOver(x)]  BY <1>3
  <2>2. StartOver(x) \in OutboundMsg /\ Paced(x, StartOver(x))
    <3>1. 0 \in 0..MAX_LINK_TRIES  BY LimitsAssumption
    <3>. QED  BY <1>0, <3>1 DEF OutboundMsg, Paced, StartOver
  <2>. QED  BY <1>0, <2>1, <2>2, RepacedKept DEF Work, Repaced
<1>. QED  BY <1>1, <1>2, <1>3 DEF PassLinkFailed

LEMMA LinkDoes ==
  ASSUME TypeOK, Entries, NEW th, NEW m \in Msgs, PassLink(th, m)
  PROVE  Work
<1>. DEFINE x == msg[m]
            idle == Pruned[PeerOf[m]] = 0
<1>0. x \in OutboundMsg /\ UNCHANGED <<outbox, verdict>>
  BY DEF PassLink, TypeOK
<1>1. ASSUME NEW written \in BOOLEAN,
             msg' = [msg EXCEPT ![m].wait = 2,
               ![m].link_tries = IF idle /\ written THEN @ + 1 ELSE @]
      PROVE  Work
  <2>. DEFINE n == IF idle /\ written THEN x.link_tries + 1 ELSE x.link_tries
              y == [x EXCEPT !.wait = 2, !.link_tries = n]
  <2>1. msg' = [msg EXCEPT ![m] = y]  BY <1>1
  <2>2. n \in 0..MAX_LINK_TRIES
    BY <1>0, LimitsAssumption DEF OutboundMsg, PassLink
  <2>. HIDE DEF n
  <2>3. y \in OutboundMsg /\ Paced(x, y)  BY <1>0, <2>2 DEF OutboundMsg, Paced
  <2>. QED  BY <1>0, <2>1, <2>3, RepacedKept DEF Work, Repaced
<1>. QED  BY <1>1 DEF PassLink

LEMMA PassDoes ==
  ASSUME TypeOK, Entries, NEW th, PassStep(th)
  PROVE  Work \/ \E m \in outbox : GiveUp(th, m)
<1>. SUFFICES ASSUME NEW m \in outbox,
                     \/ PassSkip(th, m) \/ PassDeadline(th, m)
                     \/ PassProofTimeout(th, m) \/ PassPnAsk(th, m)
                     \/ PassPnLink(th, m) \/ PassPnNoBlob(th, m)
                     \/ PassPnSend(th, m) \/ PassPnVanished(th, m)
                     \/ PassDirectSend(th, m) \/ PassDirectVanished(th, m)
                     \/ PassBackGone(th, m) \/ PassAskKey(th, m)
                     \/ PassNoRoute(th, m) \/ PassLinkFailed(th, m)
                     \/ PassLink(th, m)
              PROVE  Work \/ GiveUp(th, m)
  BY DEF PassStep
<1>0. m \in Msgs  BY DEF TypeOK
<1>1. CASE PassSkip(th, m) \/ PassBackGone(th, m)
  BY <1>1, NoneChanged DEF Work, PassSkip, PassBackGone
<1>2. CASE \/ PassPnAsk(th, m) \/ PassPnLink(th, m) \/ PassPnNoBlob(th, m)
           \/ PassPnVanished(th, m) \/ PassDirectVanished(th, m)
           \/ PassAskKey(th, m)
  <2>1. /\ \E secs \in {KEY_RETRY, LINK_RETRY, 1, 2} : Backoff(m, secs)
        /\ UNCHANGED <<outbox, verdict>>
    BY <1>2 DEF PassPnAsk, PassPnLink, PassPnNoBlob, PassPnVanished,
                PassDirectVanished, PassAskKey
  <2>2. {KEY_RETRY, LINK_RETRY, 1, 2} \subseteq Nat  BY TimesAssumption
  <2>. QED  BY <1>0, <2>1, <2>2, BackoffKept DEF Work
<1>3. CASE PassDeadline(th, m)  BY <1>0, <1>3, DeadlineDoes
<1>4. CASE PassProofTimeout(th, m)  BY <1>0, <1>4, ProofTimeoutDoes
<1>5. CASE PassPnSend(th, m)  BY <1>0, <1>5, PnSendDoes
<1>6. CASE PassDirectSend(th, m)  BY <1>0, <1>6, DirectSendDoes
<1>7. CASE PassNoRoute(th, m)  BY <1>0, <1>7, NoRouteDoes
<1>8. CASE PassLinkFailed(th, m)  BY <1>0, <1>8, LinkFailedDoes
<1>9. CASE PassLink(th, m)  BY <1>0, <1>9, LinkDoes
<1>. QED  BY <1>1, <1>2, <1>3, <1>4, <1>5, <1>6, <1>7, <1>8, <1>9

-----------------------------------------------------------------------------
(* What the other steps do to the entries.                                 *)

LEMMA EnqueueDraft ==
  ASSUME TypeOK, enqueue_outbound
  PROVE  /\ draft.m \in Msgs /\ draft.cost \in 0..2
         /\ draft.ticket \in BOOLEAN /\ draft.overtaken \in BOOLEAN
  BY DEF TypeOK, Drafts, enqueue_outbound

LEMMA EnqueueEntries ==
  ASSUME TypeOK, Entries, enqueue_outbound
  PROVE  /\ draft.m \in Msgs
         /\ msg' \in [Msgs -> OutboundMsg] /\ Entries'
         /\ msg'[draft.m] = NewMsg(draft.cost, draft.ticket, draft.overtaken)
         /\ \A x \in Msgs : x # draft.m => msg'[x] = msg[x]
<1>. DEFINE d == draft
            y == NewMsg(d.cost, d.ticket, d.overtaken)
<1>1. /\ d.m \in Msgs /\ d.cost \in 0..2
      /\ d.ticket \in BOOLEAN /\ d.overtaken \in BOOLEAN
  BY EnqueueDraft
<1>2. y \in OutboundMsg /\ Entry(d.m, y)  BY <1>1, NewMsgOK
<1>3. msg' = [msg EXCEPT ![d.m] = y]  BY DEF enqueue_outbound
<1>. HIDE DEF y
<1>. QED  BY <1>1, <1>2, <1>3, OneEntry DEF y

LEMMA TickKept ==
  ASSUME TypeOK, Entries, Tick
  PROVE  Kept
<1>. DEFINE w(x) == IF x.wait = 0 THEN 0 ELSE x.wait - 1
            l(x) == IF x.left < 0 THEN x.left ELSE x.left - 1
            y(x) == [x EXCEPT !.wait = w(x), !.left = l(x)]
<1>1. msg' = [m \in Msgs |-> IF m \notin outbox THEN msg[m] ELSE y(msg[m])]
  BY DEF Tick
<1>2. ASSUME NEW m \in Msgs
      PROVE  /\ y(msg[m]) \in OutboundMsg /\ Entry(m, y(msg[m]))
             /\ y(msg[m]).needs_stamp = msg[m].needs_stamp
             /\ y(msg[m]).packed = msg[m].packed
             /\ y(msg[m]).overtaken = msg[m].overtaken
             /\ Nearer(m, msg[m], y(msg[m]))
  <2>. DEFINE x == msg[m]
  <2>1. x \in OutboundMsg /\ Entry(m, x)  BY DEF TypeOK, Entries
  <2>2. w(x) \in Nat /\ l(x) \in Nat \cup {-1}  BY <2>1 DEF OutboundMsg
  <2>. HIDE DEF w, l
  <2>3. y(x) \in OutboundMsg /\ Paced(x, y(x))
    BY <2>1, <2>2 DEF OutboundMsg, Paced
  <2>. QED  BY <2>1, <2>3 DEF Entry, Paced, Nearer
<1>3. ASSUME NEW m \in Msgs PROVE Nearer(m, msg[m], msg[m])  BY DEF Nearer
<1>. HIDE DEF y
<1>. QED  BY <1>1, <1>2, <1>3 DEF Kept, TypeOK, Entries

LEMMA BlobKept ==
  ASSUME TypeOK, Entries, BlobDone
  PROVE  Kept
<1>. DEFINE j == task["pump"]
            x == msg[j.m]
            y == [x EXCEPT !.pn_blob = j.packed]
<1>1. j.m \in Msgs /\ j.packed \in {"bare", "stamped"}
  BY DEF TypeOK, BlobDone, At, Threads, Tasks, Jobs
<1>2. x \in OutboundMsg /\ Entry(j.m, x)  BY <1>1 DEF TypeOK, Entries
<1>3. y \in OutboundMsg /\ Paced(x, y)  BY <1>1, <1>2 DEF OutboundMsg, Paced
<1>4. CASE j.m \in outbox
  <2>1. msg' = [msg EXCEPT ![j.m] = y]  BY <1>4 DEF BlobDone
  <2>. QED  BY <1>1, <1>3, <2>1, RepacedKept DEF Repaced
<1>5. CASE j.m \notin outbox  BY <1>5, NoneChanged DEF BlobDone
<1>. QED  BY <1>4, <1>5

\* The stamped bytes are stored in an entry that was never sent, whichever
\* entry it is.
LEMMA StampEntries ==
  ASSUME TypeOK, Entries, StampDone
  PROVE  msg' \in [Msgs -> OutboundMsg] /\ Entries'
<1>. DEFINE j == task["pump"]
            x == msg[j.m]
<1>1. j.m \in Msgs  BY DEF TypeOK, StampDone, At, Threads, Tasks, Jobs
<1>2. x \in OutboundMsg /\ Entry(j.m, x)  BY <1>1 DEF TypeOK, Entries
<1>3. Stamped(x) \in OutboundMsg /\ Entry(j.m, Stamped(x))
  <2>1. DIRECT_DEADLINE \in Nat  BY TimesAssumption
  <2>2. Stamped(x) \in OutboundMsg
    <3>. DEFINE z == [x EXCEPT !.packed = "stamped", !.needs_stamp = 0]
    <3>0. "stamped" \in {"bare", "stamped"} /\ 0 \in 0..2  OBVIOUS
    <3>1. z \in OutboundMsg  BY <1>2, <3>0 DEF OutboundMsg
    <3>2. Stamped(x) = [z EXCEPT !.left = DIRECT_DEADLINE]
      BY <1>2 DEF Stamped, OutboundMsg
    <3>. HIDE DEF z
    <3>. QED  BY <2>1, <3>1, <3>2 DEF OutboundMsg
  <2>. DEFINE y == Stamped(x)
  <2>3. /\ y.needs_stamp = 0 /\ y.packed = "stamped"
        /\ y.via_pn = x.via_pn /\ y.tried_pn = x.tried_pn
        /\ y.in_flight = x.in_flight /\ y.attempts = x.attempts
        /\ y.stamped = x.stamped
    BY <1>2 DEF OutboundMsg, Stamped
  <2>. QED  BY <1>2, <2>2, <2>3 DEF Entry
<1>4. CASE CannotStamp(j)
  <2>1. Drop({j.m})  BY <1>4 DEF StampDone
  <2>. QED  BY <2>1, Dropped
<1>5. CASE ~CannotStamp(j) /\ j.m \in outbox
  <2>1. msg' = [msg EXCEPT ![j.m] = Stamped(x)]  BY <1>5 DEF StampDone
  <2>. QED  BY <1>1, <1>3, <2>1, OneEntry
<1>6. CASE ~CannotStamp(j) /\ j.m \notin outbox
  BY <1>6, NoneChanged DEF StampDone, Kept
<1>. QED  BY <1>4, <1>5, <1>6

\* An announce asks stamps only of entries that await none, and of every one
\* that was never sent.
LEMMA AnnounceEntries ==
  ASSUME TypeOK, Entries, NEW r \in Readers, OutboxOnAnnounce(r)
  PROVE  /\ msg' \in [Msgs -> OutboundMsg] /\ Entries'
         /\ task[r].peer \in Peers /\ task[r].cost \in 0..2
         /\ \A m \in Msgs :
              /\ msg'[m].packed = msg[m].packed
              /\ msg'[m].via_pn = msg[m].via_pn
              /\ msg'[m].attempts = msg[m].attempts
              /\ msg[m].needs_stamp # 0 => msg'[m].needs_stamp = msg[m].needs_stamp
              /\ \/ m \notin NeverSent(task[r].peer) \/ task[r].cost = 0
                 \/ msg'[m].needs_stamp # 0 \/ msg'[m].packed = "stamped"
              /\ m \notin NeverSent(task[r].peer) \/ task[r].cost = 0
                   => msg'[m].overtaken = msg[m].overtaken
<1>. DEFINE peer == task[r].peer
            cost == task[r].cost
            waiting == NeverSent(peer)
            over(x) == x.overtaken /\ cost = 0
            need(x) == IF cost # 0 /\ ~x.stamped /\ x.needs_stamp = 0
                       THEN cost ELSE x.needs_stamp
            y(x) == [x EXCEPT !.wait = 0, !.overtaken = over(x), !.needs_stamp = need(x)]
<1>1. msg' = [m \in Msgs |-> IF m \in waiting THEN y(msg[m]) ELSE msg[m]]
  BY DEF OutboxOnAnnounce, Swept
<1>2. peer \in Peers /\ cost \in 0..2
  <2>1. task[r].do = "sweep" /\ task[r] \in Tasks(r) /\ r # "pump"
    BY ThreadsAssumption DEF OutboxOnAnnounce, At, TypeOK, Threads
  <2>. QED  BY <2>1 DEF Tasks
<1>3. ASSUME NEW m \in Msgs, m \in waiting
      PROVE  /\ y(msg[m]) \in OutboundMsg /\ Entry(m, y(msg[m]))
             /\ y(msg[m]).packed = msg[m].packed
             /\ y(msg[m]).via_pn = msg[m].via_pn
             /\ y(msg[m]).attempts = msg[m].attempts
             /\ msg[m].needs_stamp # 0 => y(msg[m]).needs_stamp = msg[m].needs_stamp
             /\ cost = 0 \/ y(msg[m]).needs_stamp # 0 \/ msg[m].packed = "stamped"
             /\ cost = 0 => y(msg[m]).overtaken = msg[m].overtaken
  <2>. DEFINE x == msg[m]
  <2>1. /\ x \in OutboundMsg /\ Entry(m, x) /\ x.attempts = 0
        /\ x.in_flight = NoFlight
    BY <1>3 DEF TypeOK, Entries, NeverSent
  <2>2. need(x) \in 0..2 /\ over(x) \in BOOLEAN
    BY <1>2, <2>1 DEF OutboundMsg
  <2>3. /\ x.needs_stamp # 0 => need(x) = x.needs_stamp
        /\ cost = 0 \/ need(x) # 0 \/ x.packed = "stamped"
        /\ cost = 0 => over(x) = x.overtaken
    BY <2>1 DEF Entry, OutboundMsg
  <2>. HIDE DEF need, over
  <2>4. y(x) \in OutboundMsg  BY <2>1, <2>2 DEF OutboundMsg
  <2>5. /\ y(x).needs_stamp = need(x) /\ y(x).overtaken = over(x)
        /\ y(x).packed = x.packed /\ y(x).via_pn = x.via_pn
        /\ y(x).tried_pn = x.tried_pn /\ y(x).in_flight = x.in_flight
        /\ y(x).attempts = x.attempts /\ y(x).stamped = x.stamped
    BY <2>1 DEF OutboundMsg
  <2>. HIDE DEF y
  <2>6. Entry(m, y(x))  BY <2>1, <2>3, <2>5 DEF Entry
  <2>. QED  BY <2>3, <2>4, <2>5, <2>6
<1>. HIDE DEF y
<1>. QED  BY <1>1, <1>2, <1>3 DEF TypeOK, Entries

\* The Vec's first entry of a kind is of that kind.
LEMMA FirstIn ==
  ASSUME NEW S, S \subseteq Nat, S # {}
  PROVE  First(S) \in S
<1>1. \E R, N : /\ IsWellFoundedOn(R, N) /\ N = Nat
                /\ \A x, y \in Nat : <<x, y>> \in R <=> x < y
  <2>1. \A x, y \in Nat : <<x, y>> \in OpToRel(<, Nat) <=> x < y  BY DEF OpToRel
  <2>. QED  BY <2>1, NatLessThanWellFounded
<1>2. PICK R, N : /\ IsWellFoundedOn(R, N) /\ N = Nat
                  /\ \A x, y \in Nat : <<x, y>> \in R <=> x < y
  BY <1>1
<1>3. S \subseteq N /\ S # {} /\ IsWellFoundedOn(R, N)  BY <1>2
<1>4. PICK m \in S : \A x \in S : ~(<<x, m>> \in R)  BY ONLY <1>3, WFMin
<1>5. ASSUME NEW x \in S PROVE m <= x
  <2>1. x \in Nat /\ m \in Nat  OBVIOUS
  <2>2. ~(<<x, m>> \in R)  BY <1>4
  <2>3. ~(x < m)  BY <1>2, <2>1, <2>2
  <2>. QED  BY <2>1, <2>3
<1>. QED  BY <1>5 DEF First

-----------------------------------------------------------------------------
(* Types, by the parts of the state that a step may touch.                 *)

EntriesTyped == msg \in [Msgs -> OutboundMsg]
UiTyped == /\ bubble \in [Msgs -> {"none", "pending", "cleared"} \cup Verdicts]
           /\ active \in Peers /\ draft \in Drafts /\ held \subseteq Msgs \X Verdicts
TaskTyped == DOMAIN task = Threads /\ \A th \in Threads : task[th] \in Tasks(th)
OutTyped == /\ outbox \subseteq Msgs
            /\ verdict \in [Threads -> SUBSET (Msgs \X Verdicts)]
PassTyped == pass \in [by : Threads \cup {"none"}, at : Msgs \cup {0}]
TpTyped == /\ known \subseteq Targets /\ path \subseteq Targets
           /\ link \subseteq Targets /\ back \subseteq Peers
           /\ asked \subseteq Targets /\ pend \in [Targets -> Nat]
           /\ events \in 0..MaxEvents
CostsTyped == costs \in [Peers -> 0..2]
NetTyped == /\ proofs \subseteq Flights \ {NoFlight}
            /\ reached \in [Msgs -> SUBSET {"peer", "node"}]

LEMMA TypeParts ==
  TypeOK <=> /\ EntriesTyped /\ UiTyped /\ TaskTyped /\ OutTyped /\ PassTyped
             /\ TpTyped /\ CostsTyped /\ NetTyped
  BY DEF TypeOK, EntriesTyped, UiTyped, TaskTyped, OutTyped, PassTyped, TpTyped,
         CostsTyped, NetTyped

LEMMA TypePartsNext ==
  /\ EntriesTyped' /\ UiTyped' /\ TaskTyped' /\ OutTyped' /\ PassTyped'
  /\ TpTyped' /\ CostsTyped' /\ NetTyped'
  => TypeOK'
  BY DEF TypeOK, EntriesTyped, UiTyped, TaskTyped, OutTyped, PassTyped, TpTyped,
         CostsTyped, NetTyped

\* Each part is kept by a step that leaves its variables alone.
LEMMA TypesUnchanged ==
  ASSUME TypeOK
  PROVE  /\ UNCHANGED msg => EntriesTyped'
         /\ UNCHANGED uiVars => UiTyped'
         /\ UNCHANGED task => TaskTyped'
         /\ UNCHANGED <<outbox, verdict>> => OutTyped'
         /\ UNCHANGED pass => PassTyped'
         /\ UNCHANGED tpVars => TpTyped'
         /\ UNCHANGED costs => CostsTyped'
         /\ UNCHANGED netVars => NetTyped'
  BY DEF TypeOK, EntriesTyped, UiTyped, TaskTyped, OutTyped, PassTyped, TpTyped,
         CostsTyped, NetTyped, uiVars, tpVars, netVars

\* A thread goes on to a step that it has.
LEMMA GoTyped ==
  ASSUME TypeOK, NEW th \in Threads, NEW s, Go(th, s),
         IF th = "pump" THEN s \in {"sleep", "awake", "stamp", "blob", "want"}
                        ELSE s \in {"idle", "want"}
  PROVE  TaskTyped' /\ task'[th].do = s /\ \A x \in Threads : x # th => task'[x] = task[x]
<1>1. [do |-> s] \in Tasks(th)  BY DEF Tasks
<1>2. TaskTyped  BY TypeParts
<1>. QED  BY <1>1, <1>2 DEF TaskTyped, Go

\* A thread takes up a job, an announce or a proof.
LEMMA JobTyped ==
  ASSUME TypeOK, NEW th \in Threads, NEW j \in Tasks(th),
         task' = [task EXCEPT ![th] = j]
  PROVE  TaskTyped' /\ task'[th] = j /\ \A x \in Threads : x # th => task'[x] = task[x]
<1>1. TaskTyped  BY TypeParts
<1>. QED  BY <1>1 DEF TaskTyped

LEMMA OnwardTyped ==
  ASSUME TypeOK, NEW m \in Msgs, Onward(m)
  PROVE  PassTyped' /\ pass'.by = pass.by
<1>1. PassTyped  BY TypeParts
<1>. QED  BY <1>1 DEF PassTyped, Onward

\* A failure leaves the outbox and becomes a verdict.
LEMMA FailTyped ==
  ASSUME TypeOK, NEW th \in Threads, NEW m \in Msgs, Fail(th, m)
  PROVE  OutTyped'
<1>1. OutTyped  BY TypeParts
<1>2. <<m, "failed">> \in Msgs \X Verdicts  BY DEF Verdicts
<1>. QED  BY <1>1, <1>2 DEF OutTyped, Fail, Drop

\* Proofs only go when a link does.
LEMMA WithoutLinkTyped == ASSUME NEW t PROVE WithoutLink(t) \subseteq proofs
  BY DEF WithoutLink

\* A packet goes out: its proof may come back.
LEMMA TransmitTyped ==
  ASSUME TypeOK, NEW m \in Msgs, NEW via \in {"out", "back", "pn"},
         NEW who \in {"peer", "node"}, NEW got \in BOOLEAN,
         Transmit(m, via, who, got)
  PROVE  NetTyped'
<1>. DEFINE k == [m |-> m, n |-> msg[m].sends + 1, via |-> via]
<1>1. NetTyped /\ msg[m].sends \in Nat
  BY TypeParts DEF EntriesTyped, OutboundMsg
<1>2. k \in Flights \ {NoFlight}
  BY <1>1, MsgsAssumption DEF Flights, NoFlight
<1>3. proofs' \subseteq proofs \cup {k}  BY DEF Transmit
<1>4. reached' = [reached EXCEPT ![m] = @ \cup IF got THEN {who} ELSE {}]
  BY DEF Transmit
<1>. QED  BY <1>1, <1>2, <1>3, <1>4 DEF NetTyped

LEMMA EventTyped ==
  ASSUME TypeOK, Event \/ UNCHANGED events
  PROVE  events' \in 0..MaxEvents
  BY EnvironmentAssumption DEF TypeOK, Event

LEMMA PrunedTyped == ASSUME TypeOK PROVE Pruned \in [Targets -> Nat]
  BY DEF TypeOK, Pruned

LEMMA RequestTyped ==
  ASSUME TypeOK, NEW t \in Targets, NEW written \in BOOLEAN, Request(t, written)
  PROVE  events' \in 0..MaxEvents /\ asked' \subseteq Targets
<1>1. events' \in 0..MaxEvents  BY EventTyped DEF Request, Written
<1>. QED  BY <1>1 DEF TypeOK, Request

LEMMA LinkRequestTyped ==
  ASSUME TypeOK, NEW t \in Targets, NEW written \in BOOLEAN,
         send_link_request(t, written)
  PROVE  events' \in 0..MaxEvents /\ pend' \in [Targets -> Nat]
<1>1. events' \in 0..MaxEvents  BY EventTyped DEF send_link_request, Written
<1>2. Pruned \in [Targets -> Nat]  BY PrunedTyped
<1>3. PENDING_LINK_EXPIRY + 2 \in Nat  BY TimesAssumption
<1>. QED  BY <1>1, <1>2, <1>3 DEF send_link_request

-----------------------------------------------------------------------------
(* A step of a pass keeps the types of everything but the entries, which   *)
(* PassDoes is about.                                                      *)

PassTypes == TpTyped' /\ PassTyped' /\ NetTyped'
PassLeaves == UNCHANGED <<task, costs, hasNode, uiVars>>

\* Steps that pace the entry and go on.
LEMMA PaceTypes ==
  ASSUME TypeOK, NEW th, NEW m \in Msgs,
         \/ PassSkip(th, m) \/ PassPnNoBlob(th, m) \/ PassBackGone(th, m)
         \/ PassPnVanished(th, m) \/ PassDirectVanished(th, m)
  PROVE  PassTypes /\ PassLeaves
<1>0. TpTyped /\ PassTyped /\ NetTyped  BY TypeParts
<1>1. CASE PassSkip(th, m) \/ PassPnNoBlob(th, m)
  <2>1. Onward(m) /\ UNCHANGED <<task, costs, hasNode, uiVars, tpVars, netVars>>
    BY <1>1 DEF PassSkip, PassPnNoBlob
  <2>. QED  BY <2>1, OnwardTyped, TypesUnchanged DEF PassTypes, PassLeaves
<1>2. CASE PassBackGone(th, m)
  <2>1. /\ Event /\ back' \subseteq back
        /\ UNCHANGED <<task, costs, hasNode, uiVars, pass, netVars, known, path,
                       link, pend, asked>>
    BY <1>2 DEF PassBackGone
  <2>2. events' \in 0..MaxEvents  BY <2>1, EventTyped
  <2>3. TpTyped'  BY <1>0, <2>1, <2>2 DEF TpTyped
  <2>. QED  BY <2>1, <2>3, TypesUnchanged DEF PassTypes, PassLeaves
<1>3. CASE PassPnVanished(th, m) \/ PassDirectVanished(th, m)
  <2>1. /\ Event /\ link' \subseteq link /\ proofs' \subseteq proofs /\ Onward(m)
        /\ UNCHANGED <<task, costs, hasNode, uiVars, known, path, pend, back,
                       asked, reached>>
    BY <1>3, WithoutLinkTyped DEF PassPnVanished, PassDirectVanished
  <2>2. events' \in 0..MaxEvents  BY <2>1, EventTyped
  <2>3. TpTyped' /\ NetTyped'  BY <1>0, <2>1, <2>2 DEF TpTyped, NetTyped
  <2>. QED  BY <2>1, <2>3, OnwardTyped DEF PassTypes, PassLeaves
<1>. QED  BY <1>1, <1>2, <1>3

\* Steps that ask the network for a key, a route or a link.
LEMMA AskTypes ==
  ASSUME TypeOK, NEW th, NEW m \in Msgs,
         \/ PassPnAsk(th, m) \/ PassPnLink(th, m) \/ PassAskKey(th, m)
         \/ PassNoRoute(th, m) \/ PassLinkFailed(th, m) \/ PassLink(th, m)
  PROVE  PassTypes /\ PassLeaves
<1>0. TpTyped /\ PassTyped /\ NetTyped  BY TypeParts
<1>1. Node \in Targets /\ PeerOf[m] \in Targets
  BY PeersAssumption DEF Targets
<1>2. /\ Onward(m) \/ UNCHANGED pass
      /\ UNCHANGED <<task, costs, hasNode, uiVars, netVars>>
  BY DEF PassPnAsk, PassPnLink, PassAskKey, PassNoRoute, PassLinkFailed, PassLink
<1>3. PassTyped' /\ NetTyped'  BY <1>2, OnwardTyped, TypesUnchanged
<1>4. CASE PassPnAsk(th, m) \/ PassAskKey(th, m)
  <2>1. /\ \E t \in Targets, written \in BOOLEAN : Request(t, written)
        /\ UNCHANGED <<known, path, link, pend, back>>
    BY <1>1, <1>4 DEF PassPnAsk, PassAskKey
  <2>2. events' \in 0..MaxEvents /\ asked' \subseteq Targets
    BY <2>1, RequestTyped
  <2>. QED  BY <1>0, <1>2, <1>3, <2>1, <2>2 DEF TpTyped, PassTypes, PassLeaves
<1>5. CASE PassNoRoute(th, m)
  <2>1. /\ \/ UNCHANGED <<asked, events>>
           \/ \E t \in Targets, written \in BOOLEAN : Request(t, written)
        /\ UNCHANGED <<known, path, link, pend, back>>
    BY <1>1, <1>5 DEF PassNoRoute
  <2>2. events' \in 0..MaxEvents /\ asked' \subseteq Targets
    BY <1>0, <2>1, RequestTyped DEF TpTyped
  <2>. QED  BY <1>0, <1>2, <1>3, <2>1, <2>2 DEF TpTyped, PassTypes, PassLeaves
<1>6. CASE PassPnLink(th, m) \/ PassLink(th, m)
  <2>1. /\ \E t \in Targets, written \in BOOLEAN : send_link_request(t, written)
        /\ UNCHANGED <<known, path, link, back, asked>>
    BY <1>1, <1>6 DEF PassPnLink, PassLink
  <2>2. events' \in 0..MaxEvents /\ pend' \in [Targets -> Nat]
    BY <2>1, LinkRequestTyped
  <2>. QED  BY <1>0, <1>2, <1>3, <2>1, <2>2 DEF TpTyped, PassTypes, PassLeaves
<1>7. CASE PassLinkFailed(th, m)
  <2>1. /\ pend' = Pruned /\ path' \subseteq path
        /\ UNCHANGED <<known, link, back, events, asked>>
    BY <1>7 DEF PassLinkFailed
  <2>2. Pruned \in [Targets -> Nat]  BY PrunedTyped
  <2>. QED  BY <1>0, <1>2, <1>3, <2>1, <2>2 DEF TpTyped, PassTypes, PassLeaves
<1>. QED  BY <1>4, <1>5, <1>6, <1>7

\* Steps that send, and steps that find the time is up.
LEMMA SendTypes ==
  ASSUME TypeOK, NEW th, NEW m \in Msgs,
         PassPnSend(th, m) \/ PassDirectSend(th, m)
  PROVE  PassTypes /\ PassLeaves
<1>0. TpTyped  BY TypeParts
<1>1. /\ Onward(m)
      /\ UNCHANGED <<task, costs, hasNode, uiVars, known, path, link, pend, back,
                     asked>>
  BY DEF PassPnSend, PassDirectSend
<1>2. \E t \in Targets, got \in BOOLEAN, via \in {"out", "back", "pn"},
         who \in {"peer", "node"} : Arrives(t, got) /\ Transmit(m, via, who, got)
  <2>1. CASE PassPnSend(th, m)  BY <2>1 DEF PassPnSend, Targets
  <2>2. CASE PassDirectSend(th, m)
    BY <2>2, PeersAssumption DEF PassDirectSend, Targets
  <2>. QED  BY <2>1, <2>2
<1>3. NetTyped'  BY <1>2, TransmitTyped
<1>4. Event \/ UNCHANGED events  BY <1>2 DEF Arrives, Written
<1>5. events' \in 0..MaxEvents  BY <1>4, EventTyped
<1>6. TpTyped'  BY <1>0, <1>1, <1>5 DEF TpTyped
<1>. QED  BY <1>1, <1>3, <1>6, OnwardTyped DEF PassTypes, PassLeaves

LEMMA TimeUpTypes ==
  ASSUME TypeOK, NEW th, NEW m \in Msgs,
         PassDeadline(th, m) \/ PassProofTimeout(th, m)
  PROVE  PassTypes /\ PassLeaves
<1>0. TpTyped /\ NetTyped  BY TypeParts
<1>1. CASE PassDeadline(th, m)
  <2>1. /\ path' \subseteq path /\ (Onward(m) \/ UNCHANGED pass)
        /\ UNCHANGED <<task, costs, hasNode, uiVars, known, link, pend, back,
                       events, asked, netVars>>
    BY <1>1 DEF PassDeadline
  <2>2. TpTyped'  BY <1>0, <2>1 DEF TpTyped
  <2>. QED  BY <2>1, <2>2, OnwardTyped, TypesUnchanged DEF PassTypes, PassLeaves
<1>2. CASE PassProofTimeout(th, m)
  <2>1. /\ link' \subseteq link /\ back' \subseteq back /\ proofs' \subseteq proofs
        /\ UNCHANGED <<task, costs, hasNode, uiVars, pass, known, path, pend,
                       events, asked, reached>>
    BY <1>2, WithoutLinkTyped DEF PassProofTimeout
  <2>2. TpTyped' /\ NetTyped'  BY <1>0, <2>1 DEF TpTyped, NetTyped
  <2>. QED  BY <2>1, <2>2, TypesUnchanged DEF PassTypes, PassLeaves
<1>. QED  BY <1>1, <1>2

LEMMA PassStepTypes ==
  ASSUME TypeOK, NEW th, PassStep(th)
  PROVE  PassTypes /\ PassLeaves
<1>1. outbox \subseteq Msgs  BY DEF TypeOK
<1>. QED  BY <1>1, PaceTypes, AskTypes, SendTypes, TimeUpTypes DEF PassStep

-----------------------------------------------------------------------------
(* Every step keeps the types and the entries.                             *)

TypeEntries == TypeOK /\ Entries

LEMMA UiTypes ==
  ASSUME TypeEntries,
         \/ UiStep
         \/ \E th \in Threads : update_mark(th)
  PROVE  TypeEntries'
<1>. USE DEF TypeEntries
<1>0. UiTyped /\ OutTyped  BY TypeParts
<1>1. ASSUME NEW m \in Msgs, Post(m)  PROVE TypeEntries'
  <2>1. /\ UNCHANGED <<outbox, msg, task, pass, costs, tpVars, netVars, active,
                       held, verdict>>
        /\ bubble' = [bubble EXCEPT ![m] = "pending"]
    BY <1>1 DEF Post
  <2>2. draft' \in Drafts
    <3>1. PICK ticket \in Tickets :
            draft' = [m |-> m, cost |-> IF ticket THEN 0 ELSE costs[active],
                      ticket |-> ticket, overtaken |-> FALSE]
      BY <1>1 DEF Post
    <3>2. ticket \in BOOLEAN /\ costs[active] \in 0..2
      BY EnvironmentAssumption DEF TypeOK
    <3>. QED  BY <3>1, <3>2 DEF Drafts
  <2>3. UiTyped'  BY <1>0, <2>1, <2>2 DEF UiTyped
  <2>. QED  BY <2>1, <2>3, TypesUnchanged, TypePartsNext, NoneChanged DEF Kept
<1>5. CASE enqueue_outbound
  <2>1. EntriesTyped' /\ Entries' /\ draft.m \in Msgs
    BY <1>5, EnqueueEntries DEF EntriesTyped
  <2>2. /\ UNCHANGED <<task, pass, costs, tpVars, netVars, bubble, active, held, verdict>>
        /\ outbox' = outbox \cup {draft.m} /\ draft' = NoDraft
    BY <1>5 DEF enqueue_outbound
  <2>3. UiTyped' /\ OutTyped'  BY <1>0, <2>1, <2>2 DEF UiTyped, OutTyped, Drafts
  <2>. QED  BY <2>1, <2>2, <2>3, TypesUnchanged, TypePartsNext
<1>2. ASSUME NEW p \in Peers, activate_peer(p)  PROVE TypeEntries'
  <2>1. UNCHANGED <<msg, outbox, task, verdict, pass, costs, tpVars, netVars>>
    BY <1>2 DEF activate_peer
  <2>2. active' \in Peers /\ held' \subseteq held /\ draft' = draft
    BY <1>2 DEF activate_peer
  <2>3. ASSUME NEW m \in Msgs, \E s \in Verdicts : <<m, s>> \in held
        PROVE  (CHOOSE s \in Verdicts : <<m, s>> \in held) \in Verdicts
    BY <2>3
  <2>4. bubble' \in [Msgs -> {"none", "pending", "cleared"} \cup Verdicts]
    BY <1>0, <1>2, <2>3 DEF UiTyped, activate_peer
  <2>5. UiTyped'  BY <1>0, <2>2, <2>4 DEF UiTyped
  <2>. QED  BY <2>1, <2>5, TypesUnchanged, TypePartsNext, NoneChanged DEF Kept
<1>3. ASSUME NEW p \in Peers, clear_history(p)  PROVE TypeEntries'
  <2>1. /\ UNCHANGED <<active, draft, task, verdict, pass, costs, tpVars, netVars>>
        /\ Drop(To(p)) /\ held' \subseteq held
        /\ bubble' = [m \in Msgs |-> IF PeerOf[m] = p /\ bubble[m] # "none"
                                     THEN "cleared" ELSE bubble[m]]
    BY <1>3 DEF clear_history
  <2>2. EntriesTyped' /\ Entries'  BY <2>1, Dropped DEF EntriesTyped
  <2>3. UiTyped' /\ OutTyped'  BY <1>0, <2>1 DEF UiTyped, OutTyped, Drop
  <2>. QED  BY <2>1, <2>2, <2>3, TypesUnchanged, TypePartsNext
<1>4. ASSUME NEW th \in Threads, update_mark(th)  PROVE TypeEntries'
  <2>1. UNCHANGED <<msg, outbox, active, draft, task, pass, costs, tpVars, netVars>>
    BY <1>4 DEF update_mark
  <2>2. PICK v \in verdict[th] :
         /\ verdict' = [verdict EXCEPT ![th] = @ \ {v}]
         /\ IF PeerOf[v[1]] = active /\ bubble[v[1]] # "cleared"
            THEN bubble' = [bubble EXCEPT ![v[1]] = v[2]] /\ held' = held
            ELSE held' = held \cup {v} /\ bubble' = bubble
    BY <1>4 DEF update_mark
  <2>3. v \in Msgs \X Verdicts  BY <1>0 DEF OutTyped
  <2>4. UiTyped' /\ OutTyped'  BY <1>0, <2>1, <2>2, <2>3 DEF UiTyped, OutTyped
  <2>. QED  BY <2>1, <2>4, TypesUnchanged, TypePartsNext, NoneChanged DEF Kept
<1>. QED  BY <1>1, <1>2, <1>3, <1>4, <1>5 DEF UiStep

LEMMA PumpTypes ==
  ASSUME TypeEntries, PumpStep
  PROVE  TypeEntries'
<1>. USE DEF TypeEntries
<1>. DEFINE j == task["pump"]
<1>0. OutTyped /\ EntriesTyped /\ TaskTyped /\ "pump" \in Threads
  BY TypeParts DEF Threads
<1>1. UNCHANGED <<pass, costs, uiVars, tpVars, netVars>>
  BY DEF PumpStep, PumpWake, StampSnapshot, StampDone, BlobSnapshot, BlobDone
<1>2. ASSUME NEW S \in SUBSET outbox, S # {}  PROVE First(S) \in S /\ First(S) \in Msgs
  BY <1>0, <1>2, FirstIn, MsgsAssumption DEF OutTyped
<1>3. CASE PumpWake
  <2>1. TaskTyped'
    <3>1. \E s \in {"sleep", "stamp"} : Go("pump", s)  BY <1>3 DEF PumpWake
    <3>. QED  BY <1>0, <3>1, GoTyped
  <2>. QED  BY <1>1, <1>3, <2>1, TypesUnchanged, TypePartsNext, NoneChanged
            DEF Kept, PumpWake
<1>4. CASE StampSnapshot
  <2>. DEFINE need == {m \in outbox : msg[m].needs_stamp # 0}
  <2>1. TaskTyped'
    <3>1. CASE need = {}
      <4>1. Go("pump", "blob")  BY <1>4, <3>1 DEF StampSnapshot
      <4>. QED  BY <1>0, <4>1, GoTyped
    <3>2. CASE need # {}
      <4>. DEFINE m == First(need)
                  k == [do |-> "mine", m |-> m, packed |-> msg[m].packed,
                        cost |-> msg[m].needs_stamp]
      <4>1. m \in need /\ m \in Msgs  BY <1>2, <3>2
      <4>2. msg[m].needs_stamp \in 1..2 /\ msg[m].packed \in {"bare", "stamped"}
        BY <1>0, <4>1 DEF EntriesTyped, OutboundMsg
      <4>3. task' = [task EXCEPT !["pump"] = k]  BY <1>4, <3>2 DEF StampSnapshot
      <4>. HIDE DEF m
      <4>4. k \in Tasks("pump")  BY <4>1, <4>2 DEF Tasks, Jobs
      <4>. QED  BY <1>0, <4>3, <4>4, JobTyped
    <3>. QED  BY <3>1, <3>2
  <2>. QED  BY <1>1, <1>4, <2>1, TypesUnchanged, TypePartsNext, NoneChanged
            DEF Kept, StampSnapshot
<1>5. CASE StampDone
  <2>1. EntriesTyped' /\ Entries'  BY <1>5, StampEntries DEF EntriesTyped
  <2>2. TaskTyped'
    <3>1. Go("pump", "blob")  BY <1>5 DEF StampDone
    <3>. QED  BY <1>0, <3>1, GoTyped
  <2>3. OutTyped'
    <3>1. j.m \in Msgs  BY <1>0, <1>5 DEF StampDone, At, TaskTyped, Tasks, Jobs
    <3>2. <<j.m, "failed">> \in Msgs \X Verdicts  BY <3>1 DEF Verdicts
    <3>3. CASE CannotStamp(j)
      <4>1. /\ Drop({j.m})
            /\ verdict' = [verdict EXCEPT !["pump"] = {<<j.m, "failed">>}]
        BY <1>5, <3>3 DEF StampDone
      <4>. QED  BY <1>0, <3>2, <4>1 DEF OutTyped, Drop
    <3>4. CASE ~CannotStamp(j)
      BY <1>5, <3>4, TypesUnchanged DEF StampDone
    <3>. QED  BY <3>3, <3>4
  <2>. QED  BY <1>1, <2>1, <2>2, <2>3, TypesUnchanged, TypePartsNext
<1>6. CASE BlobSnapshot
  <2>. DEFINE need == {m \in outbox : msg[m].via_pn /\ msg[m].pn_blob = "none"}
              m == First(need)
              k == [do |-> "seal", m |-> m, packed |-> msg[m].packed]
  <2>1. TaskTyped'
    <3>1. CASE Go("pump", "want")  BY <1>0, <3>1, GoTyped
    <3>2. CASE need # {} /\ task' = [task EXCEPT !["pump"] = k]
      <4>1. m \in Msgs  BY <1>2, <3>2
      <4>2. msg[m].packed \in {"bare", "stamped"}
        BY <1>0, <4>1 DEF EntriesTyped, OutboundMsg
      <4>. HIDE DEF m
      <4>3. k \in Tasks("pump")  BY <4>1, <4>2 DEF Tasks, Jobs
      <4>. QED  BY <1>0, <3>2, <4>3, JobTyped
    <3>. QED  BY <1>6, <3>1, <3>2 DEF BlobSnapshot
  <2>. QED  BY <1>1, <1>6, <2>1, TypesUnchanged, TypePartsNext, NoneChanged
            DEF Kept, BlobSnapshot
<1>7. CASE BlobDone
  <2>1. EntriesTyped' /\ Entries'  BY <1>7, BlobKept DEF EntriesTyped, Kept
  <2>2. Go("pump", "want") /\ UNCHANGED <<outbox, verdict>>  BY <1>7 DEF BlobDone
  <2>3. TaskTyped'  BY <1>0, <2>2, GoTyped
  <2>. QED  BY <1>1, <2>1, <2>2, <2>3, TypesUnchanged, TypePartsNext
<1>. QED  BY <1>3, <1>4, <1>5, <1>6, <1>7 DEF PumpStep

LEMMA PassStepsType ==
  ASSUME TypeEntries, NEW th \in Threads,
         StartPass(th) \/ PassStep(th) \/ EndPass(th)
  PROVE  TypeEntries'
<1>. USE DEF TypeEntries
<1>1. CASE StartPass(th)
  <2>1. UNCHANGED <<outbox, msg, task, verdict, costs, uiVars, tpVars, netVars>>
    BY <1>1 DEF StartPass
  <2>2. PassTyped'  BY <1>1 DEF StartPass, PassTyped
  <2>. QED  BY <2>1, <2>2, TypesUnchanged, TypePartsNext, NoneChanged DEF Kept
<1>2. CASE EndPass(th)
  <2>1. UNCHANGED <<outbox, msg, verdict, costs, uiVars, tpVars, netVars>>
    BY <1>2 DEF EndPass
  <2>2. PassTyped'  BY <1>2 DEF EndPass, PassTyped
  <2>3. TaskTyped'  BY <1>2, GoTyped DEF EndPass
  <2>. QED  BY <2>1, <2>2, <2>3, TypesUnchanged, TypePartsNext, NoneChanged DEF Kept
<1>3. CASE PassStep(th)
  <2>1. PassTypes /\ PassLeaves  BY <1>3, PassStepTypes
  <2>2. TpTyped' /\ PassTyped' /\ NetTyped' /\ UiTyped' /\ TaskTyped' /\ CostsTyped'
    BY <2>1, TypesUnchanged DEF PassTypes, PassLeaves
  <2>3. CASE Work
    BY <2>2, <2>3, TypesUnchanged, TypePartsNext DEF Work, Kept, EntriesTyped
  <2>4. ASSUME NEW m \in outbox, GiveUp(th, m)  PROVE TypeEntries'
    <3>1. m \in Msgs /\ Fail(th, m)  BY <2>4 DEF TypeOK, GiveUp
    <3>2. OutTyped'  BY <3>1, FailTyped
    <3>3. EntriesTyped' /\ Entries'  BY <3>1, Dropped DEF Fail, EntriesTyped
    <3>. QED  BY <2>2, <3>2, <3>3, TypePartsNext
  <2>. QED  BY <1>3, <2>3, <2>4, PassDoes
<1>. QED  BY <1>1, <1>2, <1>3

LEMMA ReaderTypes ==
  ASSUME TypeEntries, NEW r \in Readers, ReaderStep(r)
  PROVE  TypeEntries'
<1>. USE DEF TypeEntries
<1>0. /\ OutTyped /\ TaskTyped /\ TpTyped /\ NetTyped /\ CostsTyped /\ UiTyped
      /\ r \in Threads /\ r # "pump"
  BY TypeParts, ThreadsAssumption DEF Threads
<1>1. ASSUME NEW t \in Targets, Announce(r, t)  PROVE TypeEntries'
  <2>1. /\ UNCHANGED <<outbox, msg, verdict, pass, bubble, active, held, netVars,
                       link, pend, back>>
        /\ Event \/ UNCHANGED events
        /\ draft' = draft \/ draft' = [draft EXCEPT !.overtaken = TRUE]
        /\ known' = known \cup {t} /\ path' = path \cup {t} /\ asked' = asked \ {t}
    BY <1>1 DEF Announce
  <2>2. events' \in 0..MaxEvents  BY <2>1, EventTyped
  <2>3. TpTyped'  BY <1>0, <2>1, <2>2 DEF TpTyped
  <2>6. UiTyped'
    <3>1. CASE draft' = draft  BY <1>0, <2>1, <3>1 DEF UiTyped
    <3>2. CASE draft # NoDraft /\ draft' = [draft EXCEPT !.overtaken = TRUE]
      BY <1>0, <2>1, <3>2 DEF UiTyped, Drafts
    <3>. QED  BY <1>1, <3>1, <3>2 DEF Announce
  <2>4. CASE t = Node
    BY <1>1, <2>1, <2>3, <2>4, <2>6, TypesUnchanged, TypePartsNext, NoneChanged
    DEF Kept, Announce
  <2>5. CASE t # Node
    <3>1. t \in Peers  BY <2>5 DEF Targets
    <3>2. /\ \E c \in Costs : costs' = [costs EXCEPT ![t] = c]
          /\ task' = [task EXCEPT ![r] = [do |-> "announce", peer |-> t]]
      BY <1>1, <2>5 DEF Announce
    <3>3. CostsTyped'  BY <1>0, <3>2, EnvironmentAssumption DEF CostsTyped
    <3>4. [do |-> "announce", peer |-> t] \in Tasks(r)  BY <1>0, <3>1 DEF Tasks
    <3>5. TaskTyped'  BY <1>0, <3>2, <3>4, JobTyped
    <3>. QED  BY <2>1, <2>3, <2>6, <3>3, <3>5, TypesUnchanged, TypePartsNext, NoneChanged
              DEF Kept
  <2>. QED  BY <2>4, <2>5
<1>2. ASSUME NEW t \in Targets, OutboundLinkUp(r, t)  PROVE TypeEntries'
  <2>1. /\ UNCHANGED <<outbox, msg, verdict, pass, costs, uiVars, netVars, known,
                       path, back, events, asked>>
        /\ pend' = [pend EXCEPT ![t] = 0] /\ link' = link \cup {t} /\ Go(r, "want")
    BY <1>2 DEF OutboundLinkUp
  <2>2. TpTyped'  BY <1>0, <2>1 DEF TpTyped
  <2>3. TaskTyped'  BY <1>0, <2>1, GoTyped
  <2>. QED  BY <2>1, <2>2, <2>3, TypesUnchanged, TypePartsNext, NoneChanged DEF Kept
<1>3. ASSUME NEW p \in Peers, LinkIdentified(r, p)  PROVE TypeEntries'
  <2>1. /\ UNCHANGED <<outbox, msg, verdict, pass, costs, uiVars, netVars, path,
                       link, pend, asked>>
        /\ Event /\ known' = known \cup {p} /\ back' = back \cup {p} /\ Go(r, "want")
    BY <1>3 DEF LinkIdentified
  <2>2. events' \in 0..MaxEvents  BY <2>1, EventTyped
  <2>3. TpTyped'  BY <1>0, <2>1, <2>2 DEF TpTyped, Targets
  <2>4. TaskTyped'  BY <1>0, <2>1, GoTyped
  <2>. QED  BY <2>1, <2>3, <2>4, TypesUnchanged, TypePartsNext, NoneChanged DEF Kept
<1>4. ASSUME NEW k \in proofs, ProofArrives(r, k)  PROVE TypeEntries'
  <2>1. /\ UNCHANGED <<outbox, msg, verdict, pass, costs, reached, uiVars, tpVars>>
        /\ proofs' \subseteq proofs
        /\ task' = [task EXCEPT ![r] = [do |-> "delivered", packet |-> k]]
    BY <1>4 DEF ProofArrives
  <2>2. NetTyped' /\ k \in Flights  BY <1>0, <2>1 DEF NetTyped
  <2>3. [do |-> "delivered", packet |-> k] \in Tasks(r)  BY <1>0, <2>2 DEF Tasks
  <2>4. TaskTyped'  BY <1>0, <2>1, <2>3, JobTyped
  <2>. QED  BY <2>1, <2>2, <2>4, TypesUnchanged, TypePartsNext, NoneChanged DEF Kept
<1>7. CASE LookUpCost(r)
  <2>. DEFINE j == [do |-> "sweep", peer |-> task[r].peer, cost |-> costs[task[r].peer]]
  <2>1. /\ UNCHANGED <<outbox, msg, verdict, pass, costs, uiVars, tpVars, netVars>>
        /\ task' = [task EXCEPT ![r] = j] /\ task[r].do = "announce"
    BY <1>7 DEF LookUpCost, At
  <2>2. task[r].peer \in Peers
    BY <1>0, <2>1 DEF TaskTyped, Tasks
  <2>3. j \in Tasks(r)  BY <1>0, <2>2 DEF Tasks, CostsTyped
  <2>4. TaskTyped'  BY <1>0, <2>1, <2>3, JobTyped
  <2>. QED  BY <2>1, <2>4, TypesUnchanged, TypePartsNext, NoneChanged DEF Kept
<1>5. CASE OutboxOnAnnounce(r)
  <2>1. EntriesTyped' /\ Entries'  BY <1>5, AnnounceEntries DEF EntriesTyped
  <2>2. /\ UNCHANGED <<outbox, verdict, pass, costs, uiVars, tpVars, netVars>>
        /\ \E s \in {"want", "idle"} : Go(r, s)
    BY <1>5 DEF OutboxOnAnnounce
  <2>3. TaskTyped'  BY <1>0, <2>2, GoTyped
  <2>. QED  BY <2>1, <2>2, <2>3, TypesUnchanged, TypePartsNext
<1>6. CASE mark_delivered(r)
  <2>. DEFINE done == ProvenBy(task[r].packet)
  <2>1. /\ UNCHANGED <<pass, costs, uiVars, tpVars, netVars>> /\ Drop(done)
        /\ verdict' = [verdict EXCEPT ![r] = {<<m, StatusOf(m)>> : m \in done}]
        /\ Go(r, "idle")
    BY <1>6 DEF mark_delivered
  <2>2. EntriesTyped' /\ Entries'  BY <2>1, Dropped DEF EntriesTyped
  <2>3. TaskTyped'  BY <1>0, <2>1, GoTyped
  <2>4. {<<m, StatusOf(m)>> : m \in done} \subseteq Msgs \X Verdicts
    BY <1>0 DEF ProvenBy, StatusOf, Verdicts, OutTyped
  <2>5. OutTyped'  BY <1>0, <2>1, <2>4 DEF OutTyped, Drop
  <2>. QED  BY <2>1, <2>2, <2>3, <2>5, TypesUnchanged, TypePartsNext
<1>. QED  BY <1>1, <1>2, <1>3, <1>4, <1>5, <1>6, <1>7 DEF ReaderStep

LEMMA LossTypes ==
  ASSUME TypeEntries, Loss
  PROVE  TypeEntries'
<1>. USE DEF TypeEntries
<1>0. TpTyped /\ NetTyped  BY TypeParts
<1>1. /\ UNCHANGED <<outbox, msg, task, verdict, pass, costs, uiVars, reached,
                     known, path, asked>>
      /\ Event /\ link' \subseteq link /\ back' \subseteq back
      /\ proofs' \subseteq proofs
      /\ pend' = pend \/ pend' = [t \in Targets |-> 0]
  BY WithoutLinkTyped DEF Loss, LinkLost, InLinkClosed, connection_reset
<1>2. events' \in 0..MaxEvents  BY <1>1, EventTyped
<1>3. TpTyped' /\ NetTyped'  BY <1>0, <1>1, <1>2 DEF TpTyped, NetTyped
<1>. QED  BY <1>1, <1>3, TypesUnchanged, TypePartsNext, NoneChanged DEF Kept

\* A second passes: a sleeping pump thread wakes, a mining one mines on.
LEMMA TickTask ==
  ASSUME TypeOK, Tick
  PROVE  /\ TaskTyped'
         /\ \A th \in Threads : th # "pump" => task'[th] = task[th]
         /\ IF task["pump"].do = "sleep" THEN task'["pump"] = [do |-> "awake"]
                                        ELSE task'["pump"] = task["pump"]
<1>. DEFINE x == task["pump"]
            s == IF x.do = "sleep" THEN "awake" ELSE x.do
            j == [x EXCEPT !.do = s]
<1>1. "pump" \in Threads /\ TaskTyped  BY TypeParts DEF Threads
<1>2. x \in Tasks("pump") /\ x.do \in {"sleep", "mine", "seal"}
  BY <1>1 DEF TaskTyped, Tick, Settled
<1>3. task' = [task EXCEPT !["pump"] = j]  BY DEF Tick
<1>4. IF x.do = "sleep" THEN j = [do |-> "awake"] ELSE j = x
  <2>1. CASE x.do = "sleep"
    <3>1. x = [do |-> "sleep"]  BY <1>2, <2>1 DEF Tasks, Jobs
    <3>. QED  BY <3>1
  <2>2. CASE x.do = "mine"
    <3>1. x \in [do : {"mine"}, m : Msgs, packed : {"bare", "stamped"}, cost : 1..2]
      BY <1>2, <2>2 DEF Tasks, Jobs
    <3>. QED  BY <2>2, <3>1
  <2>3. CASE x.do = "seal"
    <3>1. x \in [do : {"seal"}, m : Msgs, packed : {"bare", "stamped"}]
      BY <1>2, <2>3 DEF Tasks, Jobs
    <3>. QED  BY <2>3, <3>1
  <2>. QED  BY <1>2, <2>1, <2>2, <2>3
<1>5. [do |-> "awake"] \in Tasks("pump")  BY DEF Tasks
<1>. HIDE DEF j
<1>. QED  BY <1>1, <1>2, <1>3, <1>4, <1>5, JobTyped

LEMMA TickTypes ==
  ASSUME TypeEntries, Tick
  PROVE  TypeEntries'
<1>. USE DEF TypeEntries
<1>0. TpTyped  BY TypeParts
<1>1. EntriesTyped' /\ Entries'  BY TickKept DEF Kept, EntriesTyped
<1>2. /\ UNCHANGED <<outbox, verdict, pass, costs, uiVars, netVars, known, path,
                     link, back, events, asked>>
      /\ pend' = [t \in Targets |-> IF pend[t] <= 1 THEN pend[t] ELSE pend[t] - 1]
  BY DEF Tick
<1>3. TpTyped'  BY <1>0, <1>2 DEF TpTyped
<1>. QED  BY <1>1, <1>2, <1>3, TickTask, TypesUnchanged, TypePartsNext

LEMMA StutterTypes ==
  ASSUME TypeEntries, UNCHANGED vars
  PROVE  TypeEntries'
<1>1. UNCHANGED <<outbox, msg, task, verdict, pass, costs, uiVars, tpVars, netVars>>
  BY DEF vars, uiVars, tpVars, netVars
<1>. QED  BY <1>1, TypesUnchanged, TypePartsNext, NoneChanged DEF Kept, TypeEntries

LEMMA TypeStep ==
  ASSUME TypeEntries, [Next]_vars
  PROVE  TypeEntries'
  BY UiTypes, PumpTypes, PassStepsType, ReaderTypes, LossTypes, TickTypes,
     StutterTypes DEF Next

LEMMA TypeInit == Init => TypeEntries
<1>. SUFFICES ASSUME Init PROVE TypeEntries  OBVIOUS
<1>1. EntriesTyped /\ Entries  BY NoMsgOK DEF Init, EntriesTyped, Entries
<1>2. UiTyped /\ OutTyped /\ PassTyped /\ CostsTyped /\ NetTyped
  BY DEF Init, UiTyped, OutTyped, PassTyped, CostsTyped, NetTyped, Verdicts, Drafts
<1>3. TpTyped  BY EnvironmentAssumption DEF Init, TpTyped, Targets
<1>4. TaskTyped  BY DEF Init, TaskTyped, Tasks
<1>. QED  BY <1>1, <1>2, <1>3, <1>4, TypeParts DEF TypeEntries

\* Every field keeps its type and the delivery budgets hold, however passes,
\* proofs, announces and the user interleave (pump_outbox).
THEOREM TypeCorrect == Spec => []TypeOK
<1>1. Spec => []TypeEntries  BY TypeInit, TypeStep, PTL DEF Spec
<1>. QED  BY <1>1, PTL DEF TypeEntries

-----------------------------------------------------------------------------
(* Stamps.  What a step owes the entries and the draft, by what it does to *)
(* the costs and to the handlers that have yet to sweep.                   *)

\* Nobody stores a cost or stops sweeping.
Quiet == /\ costs' = costs
         /\ \A p \in Peers : Sweeping(p) => Sweeping(p)'

\* The entries of a step that owes them nothing: no entry that is still
\* unsent is stripped of its stamp, of its demand or of its excuse.
KeepsArms ==
    \A m \in outbox' :
      /\ m \in outbox
      /\ ~msg'[m].via_pn /\ msg'[m].attempts = 0
         => /\ ~msg[m].via_pn /\ msg[m].attempts = 0
            /\ \/ msg'[m].packed = "stamped"
               \/ /\ msg[m].packed = "stamped" => msg'[m].packed = "stamped"
                  /\ msg[m].needs_stamp # 0 => msg'[m].needs_stamp # 0
                  /\ msg[m].overtaken => msg'[m].overtaken

LEMMA ArmsStay ==
  ASSUME TypeOK, TypeOK', Armed, Quiet, KeepsArms, draft' = draft
  PROVE  Armed'
<1>1. ArmedEntries'
  <2>. SUFFICES ASSUME NEW m \in outbox', ~msg'[m].via_pn, msg'[m].attempts = 0,
                       costs[PeerOf[m]] # 0
                PROVE  \/ msg'[m].packed = "stamped" \/ msg'[m].needs_stamp # 0
                       \/ msg'[m].overtaken \/ Sweeping(PeerOf[m])'
    BY DEF ArmedEntries, Quiet
  <2>1. PeerOf[m] \in Peers  BY PeersAssumption DEF TypeOK
  <2>. QED  BY <2>1 DEF KeepsArms, Quiet, Armed, ArmedEntries
<1>2. ArmedDraft'  BY DEF Armed, ArmedDraft, Quiet
<1>. QED  BY <1>1, <1>2 DEF Armed

\* A step that leaves the readers' tasks alone stops no sweep.
LEMMA QuietStep ==
  ASSUME TypeOK, costs' = costs, \A r \in Readers : task'[r] = task[r]
  PROVE  Quiet
  BY DEF Quiet, Sweeping

\* A reader that is neither handling an announce nor about to sweep stops none.
LEMMA QuietReader ==
  ASSUME TypeOK, costs' = costs, NEW r \in Readers,
         task[r].do \notin {"announce", "sweep"},
         \A x \in Readers : x # r => task'[x] = task[x]
  PROVE  Quiet
  BY DEF Quiet, Sweeping

LEMMA KeptArms ==
  ASSUME TypeOK, Kept, outbox' = outbox
  PROVE  KeepsArms
<1>. SUFFICES ASSUME NEW m \in outbox, ~msg'[m].via_pn, msg'[m].attempts = 0
              PROVE  /\ ~msg[m].via_pn /\ msg[m].attempts = 0
                     /\ msg'[m].packed = msg[m].packed
                     /\ msg'[m].needs_stamp = msg[m].needs_stamp
                     /\ msg'[m].overtaken = msg[m].overtaken
  BY DEF KeepsArms
<1>1. m \in Msgs  BY DEF TypeOK
<1>. QED  BY <1>1 DEF Kept, Nearer

LEMMA DroppedArms ==
  ASSUME TypeOK, NEW S, Drop(S)
  PROVE  KeepsArms
  BY DEF Drop, KeepsArms, TypeOK

LEMMA ArmedUi ==
  ASSUME TypeOK, TypeOK', Entries, Fates, Armed,
         \/ UiStep
         \/ \E th \in Threads : update_mark(th)
  PROVE  Armed'
<1>0. task' = task /\ costs' = costs
  BY DEF UiStep, Post, enqueue_outbound, activate_peer, clear_history, update_mark
<1>1. Quiet  BY <1>0, QuietStep
<1>2. ASSUME NEW m \in Msgs, Post(m)  PROVE Armed'
  <2>1. UNCHANGED <<outbox, msg>>  BY <1>2 DEF Post
  <2>2. ArmedEntries'
    <3>1. \A x \in outbox : PeerOf[x] \in Peers  BY PeersAssumption DEF TypeOK
    <3>. QED  BY <1>1, <2>1, <3>1 DEF Armed, ArmedEntries, Quiet
  <2>3. ArmedDraft'
    <3>1. PICK ticket \in Tickets :
            draft' = [m |-> m, cost |-> IF ticket THEN 0 ELSE costs[active],
                      ticket |-> ticket, overtaken |-> FALSE]
      BY <1>2 DEF Post
    <3>2. PeerOf[m] = active  BY <1>2 DEF Post
    <3>. QED  BY <1>0, <3>1, <3>2 DEF ArmedDraft
  <2>. QED  BY <2>2, <2>3 DEF Armed
<1>3. CASE enqueue_outbound
  <2>. DEFINE d == draft
  <2>1. /\ outbox' = outbox \cup {d.m} /\ draft' = NoDraft /\ d # NoDraft
        /\ d.m \in Msgs /\ d.m \notin outbox /\ d.ticket \in BOOLEAN
        /\ msg'[d.m] = NewMsg(d.cost, d.ticket, d.overtaken)
        /\ \A x \in Msgs : x # d.m => msg'[x] = msg[x]
    BY <1>3, EnqueueEntries, EnqueueDraft DEF enqueue_outbound, Fates
  <2>2. ASSUME NEW m \in outbox', ~msg'[m].via_pn, msg'[m].attempts = 0,
               costs[PeerOf[m]] # 0
        PROVE  \/ msg'[m].packed = "stamped" \/ msg'[m].needs_stamp # 0
               \/ msg'[m].overtaken \/ Sweeping(PeerOf[m])'
    <3>1. CASE m = d.m
      <4>1. /\ msg'[m].needs_stamp = d.cost /\ msg'[m].overtaken = d.overtaken
            /\ d.ticket => msg'[m].packed = "stamped"
        BY <2>1, <3>1 DEF NewMsg
      <4>. QED  BY <2>1, <2>2, <3>1, <4>1 DEF Armed, ArmedDraft
    <3>2. CASE m # d.m
      <4>1. m \in outbox /\ m \in Msgs /\ PeerOf[m] \in Peers
        BY <2>1, <3>2, PeersAssumption DEF TypeOK
      <4>2. msg'[m] = msg[m]  BY <2>1, <3>2, <4>1
      <4>. QED  BY <1>1, <2>2, <4>1, <4>2 DEF Armed, ArmedEntries, Quiet
    <3>. QED  BY <3>1, <3>2
  <2>. QED  BY <1>0, <2>1, <2>2 DEF Armed, ArmedEntries, ArmedDraft
<1>4. ASSUME NEW p \in Peers, clear_history(p)  PROVE Armed'
  BY <1>1, <1>4, DroppedArms, ArmsStay DEF clear_history
<1>5. ASSUME UNCHANGED <<outbox, msg, draft>>  PROVE Armed'
  BY <1>1, <1>5, NoneChanged, KeptArms, ArmsStay
<1>. QED  BY <1>2, <1>3, <1>4, <1>5 DEF UiStep, activate_peer, update_mark

LEMMA ArmedPump ==
  ASSUME TypeOK, TypeOK', Entries, Armed, PumpStep
  PROVE  Armed'
<1>0. /\ costs' = costs /\ draft' = draft
      /\ \A r \in Readers : task'[r] = task[r]
  BY ThreadsAssumption DEF PumpStep, PumpWake, StampSnapshot, StampDone,
     BlobSnapshot, BlobDone, Go, TypeOK, Threads, uiVars
<1>1. Quiet  BY <1>0, QuietStep
<1>2. CASE StampDone
  <2>. DEFINE j == task["pump"]
  <2>1. CASE CannotStamp(j)
    <3>1. Drop({j.m})  BY <1>2, <2>1 DEF StampDone
    <3>. QED  BY <1>0, <1>1, <3>1, DroppedArms, ArmsStay
  <2>2. CASE ~CannotStamp(j) /\ j.m \notin outbox
    <3>1. UNCHANGED <<outbox, msg>>  BY <1>2, <2>2 DEF StampDone
    <3>. QED  BY <1>0, <1>1, <3>1, NoneChanged, KeptArms, ArmsStay
  <2>3. CASE ~CannotStamp(j) /\ j.m \in outbox
    <3>1. /\ outbox' = outbox /\ j.m \in Msgs
          /\ msg' = [msg EXCEPT ![j.m] = Stamped(msg[j.m])]
      BY <1>2, <2>3 DEF StampDone, TypeOK
    <3>2. /\ msg'[j.m] = Stamped(msg[j.m]) /\ msg[j.m] \in OutboundMsg
          /\ \A m \in Msgs : m # j.m => msg'[m] = msg[m]
      BY <3>1 DEF TypeOK
    <3>3. /\ msg'[j.m].packed = "stamped" /\ msg'[j.m].via_pn = msg[j.m].via_pn
          /\ msg'[j.m].attempts = msg[j.m].attempts
      BY <3>2 DEF Stamped, OutboundMsg
    <3>. HIDE DEF j
    <3>4. KeepsArms  BY <3>1, <3>2, <3>3 DEF KeepsArms, TypeOK
    <3>. QED  BY <1>0, <1>1, <3>4, ArmsStay
  <2>. QED  BY <2>1, <2>2, <2>3
<1>3. CASE BlobDone
  <2>1. outbox' = outbox  BY <1>3 DEF BlobDone
  <2>. QED  BY <1>0, <1>1, <1>3, <2>1, BlobKept, KeptArms, ArmsStay
<1>4. CASE PumpWake \/ StampSnapshot \/ BlobSnapshot
  <2>1. UNCHANGED <<outbox, msg>>
    BY <1>4 DEF PumpWake, StampSnapshot, BlobSnapshot
  <2>. QED  BY <1>0, <1>1, <2>1, NoneChanged, KeptArms, ArmsStay
<1>. QED  BY <1>2, <1>3, <1>4 DEF PumpStep

LEMMA ArmedPass ==
  ASSUME TypeOK, TypeOK', Entries, Armed, Passing, NEW th \in Threads,
         StartPass(th) \/ PassStep(th) \/ EndPass(th)
  PROVE  Armed'
<1>1. CASE StartPass(th)
  <2>1. UNCHANGED <<outbox, msg, costs, draft, task>>  BY <1>1 DEF StartPass, uiVars
  <2>. QED  BY <2>1, QuietStep, NoneChanged, KeptArms, ArmsStay
<1>2. CASE EndPass(th)
  <2>1. /\ UNCHANGED <<outbox, msg, costs, draft>> /\ pass.by = th
        /\ \E s : Go(th, s)
    BY <1>2 DEF EndPass, uiVars
  <2>2. ASSUME NEW x \in Readers, x # th  PROVE task'[x] = task[x]
    BY <2>1, <2>2 DEF Go, TypeOK, Threads
  <2>3. th \in Readers => task[th].do = "want"  BY <2>1 DEF Passing
  <2>4. Quiet
    <3>1. CASE th \in Readers  BY <2>1, <2>2, <2>3, <3>1, QuietReader
    <3>2. CASE th \notin Readers  BY <2>1, <2>2, <3>2, QuietStep
    <3>. QED  BY <3>1, <3>2
  <2>. QED  BY <2>1, <2>4, NoneChanged, KeptArms, ArmsStay
<1>3. CASE PassStep(th)
  <2>1. UNCHANGED <<task, costs, draft>>
    BY <1>3, PassStepTypes DEF PassLeaves, uiVars
  <2>2. Quiet  BY <2>1, QuietStep
  <2>3. CASE Work  BY <2>1, <2>2, <2>3, KeptArms, ArmsStay DEF Work
  <2>4. ASSUME NEW m \in outbox, GiveUp(th, m)  PROVE Armed'
    <3>1. Drop({m})  BY <2>4 DEF GiveUp, Fail
    <3>. QED  BY <2>1, <2>2, <3>1, DroppedArms, ArmsStay
  <2>. QED  BY <1>3, <2>3, <2>4, PassDoes
<1>. QED  BY <1>1, <1>2, <1>3

LEMMA ArmedReader ==
  ASSUME TypeOK, TypeOK', Entries, Armed, NetTrue, NEW r \in Readers, ReaderStep(r)
  PROVE  Armed'
<1>0. r \in Threads  BY DEF Threads
<1>1. ASSUME NEW t \in Targets, Announce(r, t)  PROVE Armed'
  <2>1. UNCHANGED <<outbox, msg>>  BY <1>1 DEF Announce
  <2>2. CASE t = Node
    <3>1. UNCHANGED <<costs, task, draft>>  BY <1>1, <2>2 DEF Announce
    <3>. QED  BY <2>1, <3>1, QuietStep, NoneChanged, KeptArms, ArmsStay
  <2>3. CASE t # Node
    <3>1. /\ \A p \in Peers : p # t => costs'[p] = costs[p]
          /\ task' = [task EXCEPT ![r] = [do |-> "announce", peer |-> t]]
          /\ draft' = IF draft # NoDraft /\ PeerOf[draft.m] = t
                      THEN [draft EXCEPT !.overtaken = TRUE] ELSE draft
          /\ task[r].do = "idle"
      BY <1>1, <2>3 DEF Announce, TypeOK, At
    <3>2. Sweeping(t)'  BY <1>0, <3>1 DEF Sweeping, TypeOK
    <3>3. \A p : Sweeping(p) => Sweeping(p)'
      BY <1>0, <3>1 DEF Sweeping, TypeOK, Threads
    <3>4. ArmedEntries'
      <4>1. \A m \in outbox : PeerOf[m] \in Peers  BY PeersAssumption DEF TypeOK
      <4>. QED  BY <2>1, <3>1, <3>2, <3>3, <4>1 DEF Armed, ArmedEntries
    <3>5. ArmedDraft'
      <4>1. CASE draft # NoDraft /\ PeerOf[draft.m] = t
        <5>1. draft'.overtaken  BY <3>1, <4>1 DEF TypeOK, Drafts
        <5>. QED  BY <5>1 DEF ArmedDraft
      <4>2. CASE draft # NoDraft /\ PeerOf[draft.m] # t
        <5>1. draft' = draft /\ PeerOf[draft.m] \in Peers
          BY <3>1, <4>2, PeersAssumption DEF TypeOK, Drafts
        <5>. QED  BY <3>1, <4>2, <5>1 DEF Armed, ArmedDraft
      <4>3. CASE draft = NoDraft  BY <3>1, <4>3 DEF ArmedDraft
      <4>. QED  BY <4>1, <4>2, <4>3
    <3>. QED  BY <3>4, <3>5 DEF Armed
  <2>. QED  BY <2>2, <2>3
<1>2. CASE LookUpCost(r)
  <2>. DEFINE p == task[r].peer
              j == [do |-> "sweep", peer |-> p, cost |-> costs[p]]
  <2>1. UNCHANGED <<outbox, msg, costs, draft>> /\ task' = [task EXCEPT ![r] = j]
    BY <1>2 DEF LookUpCost, uiVars
  <2>2. task'[r] = j /\ \A x \in Readers : x # r => task'[x] = task[x]
    BY <1>0, <2>1 DEF TypeOK, Threads
  <2>3. ASSUME NEW q, Sweeping(q), costs[q] # 0  PROVE Sweeping(q)'
    <3>1. PICK x \in Readers :
             \/ task[x].do = "announce" /\ task[x].peer = q
             \/ task[x].do = "sweep" /\ task[x].peer = q /\ task[x].cost # 0
      BY <2>3 DEF Sweeping
    <3>2. CASE x = r
      <4>1. p = q  BY <3>1, <3>2
      <4>. QED  BY <2>2, <2>3, <4>1 DEF Sweeping
    <3>3. CASE x # r  BY <2>2, <3>1, <3>3 DEF Sweeping
    <3>. QED  BY <3>2, <3>3
  <2>. QED  BY <2>1, <2>3 DEF Armed, ArmedEntries, ArmedDraft
<1>3. CASE OutboxOnAnnounce(r)
  <2>. DEFINE p == task[r].peer
              c == task[r].cost
  <2>1. /\ UNCHANGED <<outbox, costs, draft>> /\ \E s : Go(r, s)
        /\ task[r].do = "sweep"
    BY <1>3 DEF OutboxOnAnnounce, uiVars, At
  <2>2. \A x \in Readers : x # r => task'[x] = task[x]
    BY <1>0, <2>1 DEF TypeOK, Threads, Go
  <2>3. ASSUME NEW q, Sweeping(q), q # p \/ c = 0  PROVE Sweeping(q)'
    BY <2>1, <2>2, <2>3 DEF Sweeping
  <2>4. ASSUME NEW m \in outbox, ~msg'[m].via_pn, msg'[m].attempts = 0,
               costs[PeerOf[m]] # 0
        PROVE  \/ msg'[m].packed = "stamped" \/ msg'[m].needs_stamp # 0
               \/ msg'[m].overtaken \/ Sweeping(PeerOf[m])'
    <3>1. m \in Msgs  BY DEF TypeOK
    <3>2. /\ msg'[m].packed = msg[m].packed /\ msg'[m].via_pn = msg[m].via_pn
          /\ msg'[m].attempts = msg[m].attempts
          /\ msg[m].needs_stamp # 0 => msg'[m].needs_stamp = msg[m].needs_stamp
          /\ \/ m \notin NeverSent(p) \/ c = 0
             \/ msg'[m].needs_stamp # 0 \/ msg'[m].packed = "stamped"
          /\ m \notin NeverSent(p) \/ c = 0 => msg'[m].overtaken = msg[m].overtaken
      BY <1>3, <3>1, AnnounceEntries
    <3>3. msg[m].in_flight = NoFlight
      BY <2>4, <3>1, <3>2 DEF Entries, Entry
    <3>4. CASE PeerOf[m] = p /\ c # 0
      <4>1. m \in NeverSent(p)  BY <2>4, <3>2, <3>3, <3>4 DEF NeverSent, To
      <4>. QED  BY <3>2, <3>4, <4>1
    <3>5. CASE PeerOf[m] # p \/ c = 0
      <4>1. m \notin NeverSent(p) \/ c = 0  BY <3>5 DEF NeverSent, To
      <4>. QED  BY <2>3, <2>4, <3>2, <3>5, <4>1 DEF Armed, ArmedEntries
    <3>. QED  BY <3>4, <3>5
  <2>. QED  BY <2>1, <2>4 DEF Armed, ArmedEntries, ArmedDraft
<1>4. CASE mark_delivered(r)
  <2>1. /\ costs' = costs /\ draft' = draft /\ task[r].do = "delivered"
        /\ Drop(ProvenBy(task[r].packet)) /\ Go(r, "idle")
    BY <1>4 DEF mark_delivered, uiVars, At
  <2>2. Quiet  BY <1>0, <2>1, QuietReader DEF Go, TypeOK, Threads
  <2>. QED  BY <2>1, <2>2, DroppedArms, ArmsStay
<1>5. ASSUME \/ \E t \in Targets : OutboundLinkUp(r, t)
             \/ \E p \in Peers : LinkIdentified(r, p)
             \/ \E k \in proofs : ProofArrives(r, k)
      PROVE  Armed'
  <2>1. /\ UNCHANGED <<outbox, msg, costs, draft>> /\ task[r].do = "idle"
        /\ \E j : task' = [task EXCEPT ![r] = j]
    BY <1>5 DEF OutboundLinkUp, LinkIdentified, ProofArrives, At, Go, uiVars
  <2>2. Quiet  BY <1>0, <2>1, QuietReader DEF TypeOK, Threads
  <2>. QED  BY <2>1, <2>2, NoneChanged, KeptArms, ArmsStay
<1>. QED  BY <1>1, <1>2, <1>3, <1>4, <1>5 DEF ReaderStep

LEMMA ArmedStep ==
  ASSUME TypeOK, TypeOK', Entries, Fates, NetTrue, Armed, Passing, [Next]_vars
  PROVE  Armed'
<1>1. CASE Loss \/ UNCHANGED vars
  <2>1. UNCHANGED <<outbox, msg, task, costs, draft>>
    BY <1>1 DEF Loss, LinkLost, InLinkClosed, connection_reset, vars, uiVars
  <2>. QED  BY <2>1, QuietStep, NoneChanged, KeptArms, ArmsStay
<1>2. CASE Tick
  <2>1. UNCHANGED <<outbox, costs, draft>>  BY <1>2 DEF Tick, uiVars
  <2>2. \A r \in Readers : task'[r] = task[r]
    BY <1>2, TickTask, ThreadsAssumption DEF Threads
  <2>. QED  BY <1>2, <2>1, <2>2, QuietStep, TickKept, KeptArms, ArmsStay
<1>. QED  BY <1>1, <1>2, ArmedUi, ArmedPump, ArmedPass, ArmedReader DEF Next

LEMMA PassingStep ==
  ASSUME TypeOK, Passing, [Next]_vars
  PROVE  Passing'
<1>. SUFFICES ASSUME NEW r \in Readers, pass'.by = r
              PROVE  task'[r].do = "want"
  BY DEF Passing
<1>0. r \in Threads /\ r # "pump" /\ r # "none"
  BY ThreadsAssumption DEF Threads
<1>1. ASSUME NEW x \in Readers, ReaderStep(x)  PROVE task'[r].do = "want"
  <2>1. /\ pass' = pass /\ task[x].do # "want"
        /\ \/ task' = task
           \/ \E j : task' = [task EXCEPT ![x] = j]
    BY <1>1 DEF ReaderStep, Announce, OutboundLinkUp, LinkIdentified, ProofArrives,
       LookUpCost, OutboxOnAnnounce, mark_delivered, At, Go
  <2>. QED  BY <1>0, <2>1 DEF Passing, TypeOK, Threads
<1>2. ASSUME NEW th \in Threads, EndPass(th)  PROVE FALSE
  BY <1>0, <1>2 DEF EndPass
<1>3. ASSUME NEW th \in Threads, StartPass(th)  PROVE task'[r].do = "want"
  BY <1>0, <1>3 DEF StartPass, At
<1>4. ASSUME NEW th \in Threads, update_mark(th)  PROVE task'[r].do = "want"
  BY <1>4 DEF update_mark, Passing
<1>5. ASSUME NEW th \in Threads, PassStep(th)  PROVE task'[r].do = "want"
  <2>1. task' = task  BY <1>5, PassStepTypes DEF PassLeaves
  <2>2. pass'.by = pass.by
    <3>1. ASSUME NEW m \in Msgs, Onward(m)  PROVE pass'.by = pass.by
      BY <3>1, OnwardTyped
    <3>2. UNCHANGED pass \/ \E m \in outbox : Onward(m)
      BY <1>5 DEF PassStep, PassSkip, PassDeadline, PassProofTimeout, PassPnAsk,
         PassPnLink, PassPnNoBlob, PassPnSend, PassPnVanished, PassDirectSend,
         PassDirectVanished, PassBackGone, PassAskKey, PassNoRoute,
         PassLinkFailed, PassLink
    <3>. QED  BY <3>1, <3>2 DEF TypeOK
  <2>. QED  BY <2>1, <2>2 DEF Passing
<1>6. CASE PumpStep
  <2>1. pass' = pass /\ task'[r] = task[r]
    BY <1>0, <1>6 DEF PumpStep, PumpWake, StampSnapshot, StampDone, BlobSnapshot,
       BlobDone, Go, TypeOK
  <2>. QED  BY <2>1 DEF Passing
<1>7. CASE Tick
  BY <1>0, <1>7, TickTask DEF Tick, Passing
<1>8. CASE UiStep \/ Loss \/ UNCHANGED vars
  BY <1>8 DEF UiStep, Post, enqueue_outbound, activate_peer, clear_history, Loss,
     LinkLost, InLinkClosed, connection_reset, vars, Passing
<1>. QED  BY <1>1, <1>2, <1>3, <1>4, <1>5, <1>6, <1>7, <1>8 DEF Next

\* A first try is a direct send.
LEMMA FirstTry ==
  ASSUME TypeOK, Entries, Next, NEW m \in outbox, m \in outbox',
         msg[m].attempts = 0, msg'[m].attempts = 1
  PROVE  Tried(m)
<1>0. m \in Msgs  BY DEF TypeOK
<1>1. CASE Kept  BY <1>0, <1>1 DEF Kept, Nearer
<1>2. ASSUME NEW S, Drop(S)  PROVE FALSE
  BY <1>0, <1>2 DEF Drop
<1>3. CASE msg' = msg  BY <1>3
<1>4. CASE enqueue_outbound
  BY <1>0, <1>4, EnqueueEntries DEF NewMsg
<1>5. CASE UiStep
  BY <1>2, <1>3, <1>4, <1>5 DEF UiStep, Post, activate_peer, clear_history
<1>6. CASE StampDone
  <2>. DEFINE j == task["pump"]
  <2>1. CASE msg' = [msg EXCEPT ![j.m] = Stamped(@)]
    <3>1. msg[m] \in OutboundMsg  BY <1>0 DEF TypeOK
    <3>2. msg'[m] = IF m = j.m THEN Stamped(msg[m]) ELSE msg[m]
      BY <1>0, <2>1 DEF TypeOK
    <3>3. Stamped(msg[m]).attempts = msg[m].attempts
      BY <3>1 DEF Stamped, OutboundMsg
    <3>. QED  BY <3>2, <3>3
  <2>. QED  BY <1>2, <1>3, <1>6, <2>1 DEF StampDone
<1>7. CASE PumpStep
  BY <1>1, <1>3, <1>6, <1>7, BlobKept
  DEF PumpStep, PumpWake, StampSnapshot, BlobSnapshot
<1>8. ASSUME NEW r \in Readers, ReaderStep(r)  PROVE Tried(m)
  <2>1. CASE OutboxOnAnnounce(r)  BY <1>0, <2>1, AnnounceEntries
  <2>2. CASE mark_delivered(r)  BY <1>2, <2>2 DEF mark_delivered
  <2>. QED  BY <1>3, <1>8, <2>1, <2>2 DEF ReaderStep, Announce, OutboundLinkUp,
            LinkIdentified, ProofArrives, LookUpCost
<1>9. ASSUME NEW th \in Threads, PassStep(th)  PROVE Tried(m)
  BY <1>1, <1>2, <1>9, PassDoes DEF Work, GiveUp, Fail
<1>10. ASSUME NEW th \in Threads, update_mark(th) \/ StartPass(th) \/ EndPass(th)
       PROVE  Tried(m)
  BY <1>3, <1>10 DEF update_mark, StartPass, EndPass
<1>11. CASE Loss \/ Tick
  BY <1>1, <1>3, <1>11, TickKept DEF Loss, LinkLost, InLinkClosed, connection_reset
<1>. QED  BY <1>5, <1>7, <1>8, <1>9, <1>10, <1>11 DEF Next

-----------------------------------------------------------------------------
(* The entry being mined.  A step that goes on mining must leave an entry  *)
(* that awaits its stamp as it is, or clear it, and never bring a cleared  *)
(* message back.                                                           *)

StampKept ==
    /\ \A m \in outbox : msg[m].needs_stamp # 0 =>
         \/ /\ m \in outbox' /\ msg'[m].needs_stamp = msg[m].needs_stamp
            /\ msg'[m].packed = msg[m].packed
         \/ m \notin outbox' /\ bubble'[m] = "cleared"
    /\ \A m \in Msgs : m \notin outbox /\ bubble[m] = "cleared" =>
         m \notin outbox' /\ bubble'[m] = "cleared"

LEMMA MineTyped ==
  ASSUME TypeOK, task["pump"].do = "mine"
  PROVE  task["pump"].m \in Msgs /\ task["pump"].cost \in 1..2
<1>1. task["pump"] \in Tasks("pump")  BY DEF TypeOK, Threads
<1>. QED  BY <1>1 DEF Tasks, Jobs

LEMMA MineStays ==
  ASSUME TypeOK, MineFresh, task'["pump"] = task["pump"], StampKept
  PROVE  MineFresh'
<1>. SUFFICES ASSUME task["pump"].do = "mine"
              PROVE  MineFresh'
  BY DEF MineFresh
<1>1. task["pump"].m \in Msgs /\ task["pump"].cost \in 1..2  BY MineTyped
<1>. QED  BY <1>1 DEF MineFresh, StampKept

LEMMA KeptStamps ==
  ASSUME TypeOK, Kept, UNCHANGED <<outbox, bubble>>
  PROVE  StampKept
  BY DEF TypeOK, Kept, StampKept

LEMMA MineUi ==
  ASSUME TypeOK, Entries, Fates, MineFresh,
         \/ UiStep
         \/ \E th \in Threads : update_mark(th)
  PROVE  MineFresh'
<1>0. task' = task
  BY DEF UiStep, Post, enqueue_outbound, activate_peer, clear_history, update_mark
<1>1. ASSUME NEW m \in Msgs, Post(m)  PROVE StampKept
  <2>1. /\ UNCHANGED <<outbox, msg>> /\ bubble[m] = "none"
        /\ bubble' = [bubble EXCEPT ![m] = "pending"]
    BY <1>1 DEF Post
  <2>. QED  BY <2>1 DEF StampKept, TypeOK
<1>5. ASSUME enqueue_outbound  PROVE StampKept
  <2>1. /\ draft.m \in Msgs /\ draft.m \notin outbox /\ bubble[draft.m] = "pending"
        /\ \A x \in Msgs : x # draft.m => msg'[x] = msg[x]
    BY <1>5, EnqueueEntries DEF Fates
  <2>2. outbox' = outbox \cup {draft.m} /\ bubble' = bubble
    BY <1>5 DEF enqueue_outbound
  <2>. QED  BY <2>1, <2>2 DEF StampKept, TypeOK
<1>2. ASSUME NEW p \in Peers, activate_peer(p)  PROVE StampKept
  BY <1>2 DEF activate_peer, StampKept, TypeOK
<1>3. ASSUME NEW p \in Peers, clear_history(p)  PROVE StampKept
  <2>1. /\ outbox' = outbox \ To(p)
        /\ \A m \in Msgs \ To(p) : msg'[m] = msg[m]
        /\ bubble' = [m \in Msgs |-> IF PeerOf[m] = p /\ bubble[m] # "none"
                                     THEN "cleared" ELSE bubble[m]]
    BY <1>3 DEF clear_history, Drop
  <2>. QED  BY <2>1 DEF StampKept, TypeOK, To, Fates
<1>4. ASSUME NEW th \in Threads, update_mark(th)  PROVE StampKept
  BY <1>4 DEF update_mark, StampKept, TypeOK
<1>. QED  BY <1>0, <1>1, <1>2, <1>3, <1>4, <1>5, MineStays DEF UiStep

LEMMA MinePump ==
  ASSUME TypeOK, Entries, MineFresh, PumpStep
  PROVE  MineFresh'
<1>0. "pump" \in Threads  BY DEF Threads
<1>1. CASE StampSnapshot
  <2>. DEFINE need == {m \in outbox : msg[m].needs_stamp # 0}
              m == First(need)
  <2>1. CASE need = {}
    <3>1. Go("pump", "blob")  BY <1>1, <2>1 DEF StampSnapshot
    <3>2. task'["pump"].do = "blob"  BY <1>0, <3>1, GoTyped
    <3>. QED  BY <3>2 DEF MineFresh
  <2>2. CASE need # {}
    <3>1. m \in need
      <4>1. need \subseteq Nat  BY MsgsAssumption DEF TypeOK
      <4>. HIDE DEF need
      <4>. QED  BY <2>2, <4>1, FirstIn
    <3>. DEFINE j == [do |-> "mine", m |-> m, packed |-> msg[m].packed,
                      cost |-> msg[m].needs_stamp]
    <3>2. task' = [task EXCEPT !["pump"] = j] /\ UNCHANGED <<outbox, msg, bubble>>
      BY <1>1, <2>2 DEF StampSnapshot, uiVars
    <3>3. task'["pump"] = j  BY <1>0, <3>2 DEF TypeOK
    <3>. HIDE DEF m
    <3>. QED  BY <3>1, <3>2, <3>3 DEF MineFresh
  <2>. QED  BY <2>1, <2>2
<1>2. CASE BlobSnapshot
  <2>. DEFINE need == {m \in outbox : msg[m].via_pn /\ msg[m].pn_blob = "none"}
              j == [do |-> "seal", m |-> First(need),
                    packed |-> msg[First(need)].packed]
  <2>1. Go("pump", "want") \/ task' = [task EXCEPT !["pump"] = j]
    BY <1>2 DEF BlobSnapshot
  <2>2. task'["pump"].do # "mine"  BY <1>0, <2>1 DEF TypeOK, Go
  <2>. QED  BY <2>2 DEF MineFresh
<1>3. CASE PumpWake \/ StampDone \/ BlobDone
  <2>1. \E s \in {"sleep", "stamp", "blob", "want"} : Go("pump", s)
    BY <1>3 DEF PumpWake, StampDone, BlobDone
  <2>2. task'["pump"].do # "mine"  BY <1>0, <2>1 DEF TypeOK, Go
  <2>. QED  BY <2>2 DEF MineFresh
<1>. QED  BY <1>1, <1>2, <1>3 DEF PumpStep

LEMMA MinePass ==
  ASSUME TypeOK, Entries, MineFresh, NEW th \in Threads,
         StartPass(th) \/ PassStep(th) \/ EndPass(th)
  PROVE  MineFresh'
<1>0. "pump" \in Threads  BY DEF Threads
<1>1. CASE StartPass(th)
  <2>1. UNCHANGED <<msg, outbox, bubble, task>>  BY <1>1 DEF StartPass, uiVars
  <2>. QED  BY <2>1, NoneChanged, KeptStamps, MineStays
<1>2. CASE EndPass(th)
  <2>1. /\ UNCHANGED <<msg, outbox, bubble>>
        /\ \E s \in {"sleep", "idle"} : Go(th, s)
    BY <1>2 DEF EndPass, uiVars
  <2>2. CASE th = "pump"
    <3>1. task'["pump"].do # "mine"  BY <1>0, <2>1, <2>2 DEF TypeOK, Go
    <3>. QED  BY <3>1 DEF MineFresh
  <2>3. CASE th # "pump"
    <3>1. task'["pump"] = task["pump"]  BY <1>0, <2>1, <2>3 DEF TypeOK, Go
    <3>. QED  BY <2>1, <3>1, NoneChanged, KeptStamps, MineStays
  <2>. QED  BY <2>2, <2>3
<1>3. CASE PassStep(th)
  <2>0. UNCHANGED <<task, bubble>>
    BY <1>3, PassStepTypes DEF PassLeaves, uiVars
  <2>1. CASE Work  BY <2>0, <2>1, KeptStamps, MineStays DEF Work
  <2>2. ASSUME NEW m \in outbox, GiveUp(th, m)  PROVE MineFresh'
    <3>1. /\ outbox' = outbox \ {m} /\ msg[m].needs_stamp = 0
          /\ msg' = [x \in Msgs |-> IF x \in {m} THEN NoMsg ELSE msg[x]]
      BY <2>2 DEF GiveUp, Fail, Drop
    <3>2. StampKept  BY <2>0, <3>1 DEF StampKept, TypeOK
    <3>. QED  BY <2>0, <3>2, MineStays
  <2>. QED  BY <1>3, <2>1, <2>2, PassDoes
<1>. QED  BY <1>1, <1>2, <1>3

LEMMA MineReader ==
  ASSUME TypeOK, Entries, MineFresh, NetTrue, NEW r \in Readers, ReaderStep(r)
  PROVE  MineFresh'
<1>0. r \in Threads /\ r # "pump" /\ "pump" \in Threads
  BY ThreadsAssumption DEF Threads
<1>1. task'["pump"] = task["pump"] /\ bubble' = bubble
  BY <1>0 DEF ReaderStep, Announce, OutboundLinkUp, LinkIdentified, ProofArrives,
              LookUpCost, OutboxOnAnnounce, mark_delivered, Go, TypeOK, uiVars
<1>2. CASE OutboxOnAnnounce(r)
  <2>1. outbox' = outbox  BY <1>2 DEF OutboxOnAnnounce
  <2>2. \A m \in Msgs : /\ msg'[m].packed = msg[m].packed
                        /\ msg[m].needs_stamp # 0 =>
                             msg'[m].needs_stamp = msg[m].needs_stamp
    BY <1>2, AnnounceEntries
  <2>3. StampKept  BY <1>1, <2>1, <2>2 DEF StampKept, TypeOK
  <2>. QED  BY <1>1, <2>3, MineStays
<1>3. CASE mark_delivered(r)
  <2>. DEFINE done == ProvenBy(task[r].packet)
  <2>1. /\ outbox' = outbox \ done
        /\ msg' = [m \in Msgs |-> IF m \in done THEN NoMsg ELSE msg[m]]
        /\ task[r].packet # NoFlight
    BY <1>3 DEF mark_delivered, Drop, At, NetTrue
  <2>2. \A m \in done : msg[m].needs_stamp = 0
    BY <2>1 DEF ProvenBy, Entries, Entry, TypeOK
  <2>. HIDE DEF done
  <2>3. StampKept  BY <1>1, <2>1, <2>2 DEF StampKept, TypeOK
  <2>. QED  BY <1>1, <2>3, MineStays
<1>4. CASE ~OutboxOnAnnounce(r) /\ ~mark_delivered(r)
  <2>1. UNCHANGED <<outbox, msg>>
    BY <1>4 DEF ReaderStep, Announce, OutboundLinkUp, LinkIdentified, ProofArrives,
                LookUpCost
  <2>. QED  BY <1>1, <2>1, NoneChanged, KeptStamps, MineStays
<1>. QED  BY <1>2, <1>3, <1>4

LEMMA MineStep ==
  ASSUME TypeOK, Entries, Fates, MineFresh, NetTrue, [Next]_vars
  PROVE  MineFresh'
<1>1. CASE Loss \/ UNCHANGED vars
  <2>1. UNCHANGED <<outbox, msg, task, bubble>>
    BY <1>1 DEF Loss, LinkLost, InLinkClosed, connection_reset, vars, uiVars
  <2>. QED  BY <2>1, NoneChanged, KeptStamps, MineStays
<1>2. CASE Tick
  <2>1. UNCHANGED <<outbox, bubble>>  BY <1>2 DEF Tick, uiVars
  <2>2. StampKept  BY <1>2, <2>1, TickKept, KeptStamps
  <2>3. CASE task["pump"].do = "sleep"
    <3>1. task'["pump"] = [do |-> "awake"]  BY <1>2, <2>3, TickTask
    <3>. QED  BY <3>1 DEF MineFresh
  <2>4. CASE task["pump"].do # "sleep"
    <3>1. task'["pump"] = task["pump"]  BY <1>2, <2>4, TickTask
    <3>. QED  BY <2>2, <3>1, MineStays
  <2>. QED  BY <2>3, <2>4
<1>. QED  BY <1>1, <1>2, MineUi, MinePump, MinePass, MineReader DEF Next

-----------------------------------------------------------------------------
(* A message's fate.                                                       *)

LEMMA SameFates ==
  ASSUME Fates, UNCHANGED <<outbox, bubble, held, verdict>>, draft'.m = draft.m
  PROVE  Fates'
  BY DEF Fates, Held, Coming

\* Thread th takes the messages S out of the outbox and judges each once.
LEMMA Judged ==
  ASSUME TypeOK, Fates, NEW th \in Threads, NEW S \in SUBSET outbox,
         NEW f \in [S -> Verdicts], outbox' = outbox \ S,
         verdict' = [verdict EXCEPT ![th] = @ \cup {<<m, f[m]>> : m \in S}],
         UNCHANGED <<bubble, draft, held>>
  PROVE  Fates'
<1>1. ASSUME NEW x \in Threads, NEW m \in Msgs, NEW s \in Verdicts
      PROVE  Coming(x, m, s)' <=> Coming(x, m, s) \/ (x = th /\ m \in S /\ s = f[m])
  BY DEF TypeOK, Coming
<1>2. ASSUME NEW m \in Msgs, NEW s \in Verdicts  PROVE Held(m, s)' <=> Held(m, s)
  BY DEF Held
<1>3. \A m \in S : m \in Msgs /\ f[m] \in Verdicts  BY DEF TypeOK
<1>4. \A m \in outbox' :
         /\ bubble'[m] = "pending"
         /\ \A s \in Verdicts : ~Held(m, s)' /\ \A x \in Threads : ~Coming(x, m, s)'
  BY <1>1, <1>2 DEF Fates, TypeOK
<1>5. \A m \in Msgs, s \in Verdicts :
         /\ Held(m, s)' => bubble'[m] \in {"pending", "cleared"}
         /\ \A x \in Threads : Coming(x, m, s)' => bubble'[m] \in {"pending", "cleared"}
  BY <1>1, <1>2 DEF Fates
<1>8. /\ draft'.m \notin outbox'
      /\ \A m \in Msgs : m = draft'.m =>
           /\ bubble'[m] = "pending"
           /\ \A s \in Verdicts : ~Held(m, s)' /\ \A x \in Threads : ~Coming(x, m, s)'
  BY <1>1, <1>2 DEF Fates
<1>6. \A m \in Msgs \ outbox' : bubble'[m] = "pending" /\ m # draft'.m =>
         \E s \in Verdicts : Held(m, s)' \/ \E x \in Threads : Coming(x, m, s)'
  BY <1>1, <1>2, <1>3 DEF Fates
<1>7. ASSUME NEW m \in Msgs, NEW s \in Verdicts, NEW z \in Verdicts,
             bubble'[m] = "pending"
      PROVE  /\ Held(m, s)' /\ Held(m, z)' => s = z
             /\ \A x \in Threads : ~(Held(m, s)' /\ Coming(x, m, z)')
             /\ \A x, y \in Threads :
                  Coming(x, m, s)' /\ Coming(y, m, z)' => x = y /\ s = z
  BY <1>1, <1>2, <1>7 DEF Fates
<1>. QED  BY <1>4, <1>5, <1>6, <1>7, <1>8 DEF Fates

LEMMA FatesUi ==
  ASSUME TypeOK, Fates,
         \/ UiStep
         \/ \E th \in Threads : update_mark(th)
  PROVE  Fates'
<1>1. ASSUME NEW m \in Msgs, Post(m)  PROVE Fates'
  <2>1. /\ bubble[m] = "none" /\ draft = NoDraft /\ draft'.m = m
        /\ bubble' = [bubble EXCEPT ![m] = "pending"]
        /\ UNCHANGED <<outbox, held, verdict>>
    BY <1>1 DEF Post
  <2>2. m \notin outbox /\ \A s \in Verdicts :
           ~Held(m, s) /\ \A th \in Threads : ~Coming(th, m, s)
    BY <2>1 DEF Fates
  <2>3. \A x \in Msgs : bubble'[x] = IF x = m THEN "pending" ELSE bubble[x]
    BY <2>1 DEF TypeOK
  <2>4. \A x, s, th : (Held(x, s)' <=> Held(x, s)) /\ (Coming(th, x, s)' <=> Coming(th, x, s))
    BY <2>1 DEF Held, Coming
  <2>5. \A x \in Msgs : x # draft.m  BY <2>1, MsgsAssumption DEF NoDraft
  <2>. QED  BY <2>1, <2>2, <2>3, <2>4, <2>5 DEF Fates, TypeOK
<1>5. ASSUME enqueue_outbound  PROVE Fates'
  <2>1. /\ outbox' = outbox \cup {draft.m} /\ draft' = NoDraft
        /\ UNCHANGED <<bubble, held, verdict>>
    BY <1>5 DEF enqueue_outbound
  <2>2. draft.m \in Msgs  BY <1>5, EnqueueDraft
  <2>3. \A x, s, th : (Held(x, s)' <=> Held(x, s)) /\ (Coming(th, x, s)' <=> Coming(th, x, s))
    BY <2>1 DEF Held, Coming
  <2>4. draft'.m \notin Msgs  BY <2>1, MsgsAssumption DEF NoDraft
  <2>. QED  BY <2>1, <2>2, <2>3, <2>4 DEF Fates, TypeOK
<1>2. ASSUME NEW p \in Peers, activate_peer(p)  PROVE Fates'
  <2>. DEFINE due(m) == /\ PeerOf[m] = p /\ bubble[m] # "cleared"
                        /\ \E s \in Verdicts : Held(m, s)
  <2>1. UNCHANGED <<outbox, draft, verdict>>  BY <1>2 DEF activate_peer
  <2>2. ASSUME NEW m \in Msgs
        PROVE  /\ due(m) => bubble'[m] \in Verdicts
               /\ ~due(m) => bubble'[m] = bubble[m]
    <3>1. bubble'[m] = IF due(m) THEN CHOOSE s \in Verdicts : Held(m, s)
                                 ELSE bubble[m]
      BY <1>2 DEF activate_peer, Held
    <3>2. due(m) => (CHOOSE s \in Verdicts : Held(m, s)) \in Verdicts
      OBVIOUS
    <3>. QED  BY <3>1, <3>2
  <2>3. ASSUME NEW m \in Msgs, NEW s \in Verdicts
        PROVE  Held(m, s)' <=> Held(m, s) /\ PeerOf[m] # p
    BY <1>2 DEF activate_peer, Held
  <2>4. ASSUME NEW m \in Msgs, NEW s \in Verdicts, NEW th \in Threads
        PROVE  Coming(th, m, s)' <=> Coming(th, m, s)
    BY <2>1 DEF Coming
  <2>5. ASSUME NEW m \in Msgs, due(m)
        PROVE  /\ m \notin outbox
               /\ \A th \in Threads, s \in Verdicts : ~Coming(th, m, s)
    BY <2>5 DEF Fates
  <2>6. \A m \in Msgs : due(m) => bubble'[m] \notin {"pending", "cleared"}
    BY <2>2 DEF Verdicts
  <2>7. \A m \in Msgs : due(m) => \A s \in Verdicts : ~Held(m, s)'
    BY <2>3
  <2>8. ASSUME NEW m \in Msgs, ~due(m), bubble[m] = "pending", NEW s \in Verdicts
        PROVE  Held(m, s)' <=> Held(m, s)
    BY <2>3, <2>8
  <2>14. \A m \in Msgs : m = draft.m => ~due(m)  BY DEF Fates
  <2>. HIDE DEF due
  <2>9. \A m \in outbox' :
         /\ bubble'[m] = "pending"
         /\ \A s \in Verdicts : ~Held(m, s)' /\ \A x \in Threads : ~Coming(x, m, s)'
    BY <2>1, <2>2, <2>3, <2>4, <2>5 DEF Fates, TypeOK
  <2>10. \A m \in Msgs, s \in Verdicts :
         /\ Held(m, s)' => bubble'[m] \in {"pending", "cleared"}
         /\ \A x \in Threads : Coming(x, m, s)' => bubble'[m] \in {"pending", "cleared"}
    BY <2>2, <2>3, <2>4, <2>5, <2>7 DEF Fates
  <2>13. /\ draft'.m \notin outbox'
         /\ \A m \in Msgs : m = draft'.m =>
           /\ bubble'[m] = "pending"
           /\ \A s \in Verdicts : ~Held(m, s)' /\ \A x \in Threads : ~Coming(x, m, s)'
    BY <2>1, <2>14, <2>2, <2>3, <2>4 DEF Fates
  <2>11. \A m \in Msgs \ outbox' : bubble'[m] = "pending" /\ m # draft'.m =>
         \E s \in Verdicts : Held(m, s)' \/ \E x \in Threads : Coming(x, m, s)'
    BY <2>1, <2>2, <2>4, <2>6, <2>8 DEF Fates
  <2>12. ASSUME NEW m \in Msgs, NEW s \in Verdicts, NEW z \in Verdicts,
               bubble'[m] = "pending"
        PROVE  /\ Held(m, s)' /\ Held(m, z)' => s = z
               /\ \A x \in Threads : ~(Held(m, s)' /\ Coming(x, m, z)')
               /\ \A x, y \in Threads :
                    Coming(x, m, s)' /\ Coming(y, m, z)' => x = y /\ s = z
    BY <2>2, <2>3, <2>4, <2>6, <2>12 DEF Fates
  <2>. QED  BY <2>9, <2>10, <2>11, <2>12, <2>13 DEF Fates
<1>3. ASSUME NEW p \in Peers, clear_history(p)  PROVE Fates'
  <2>0. draft' = draft /\ draft.m \notin Msgs
    BY <1>3, MsgsAssumption DEF clear_history, NoDraft
  <2>1. /\ UNCHANGED verdict /\ outbox' = outbox \ To(p)
        /\ bubble' = [m \in Msgs |-> IF PeerOf[m] = p /\ bubble[m] # "none"
                                     THEN "cleared" ELSE bubble[m]]
    BY <1>3 DEF clear_history, Drop
  <2>2. ASSUME NEW m \in Msgs, NEW s \in Verdicts
        PROVE  Held(m, s)' <=> Held(m, s) /\ PeerOf[m] # p
    BY <1>3 DEF clear_history, Held
  <2>3. \A m, s, th : Coming(th, m, s)' <=> Coming(th, m, s)  BY <2>1 DEF Coming
  <2>. QED  BY <2>0, <2>1, <2>2, <2>3 DEF Fates, To, TypeOK
<1>4. ASSUME NEW th \in Threads, update_mark(th)  PROVE Fates'
  <2>1. PICK v \in verdict[th] :
         /\ verdict' = [verdict EXCEPT ![th] = @ \ {v}]
         /\ IF PeerOf[v[1]] = active /\ bubble[v[1]] # "cleared"
            THEN bubble' = [bubble EXCEPT ![v[1]] = v[2]] /\ held' = held
            ELSE held' = held \cup {v} /\ bubble' = bubble
    BY <1>4 DEF update_mark
  <2>2. PICK m \in Msgs, s \in Verdicts : v = <<m, s>>  BY DEF TypeOK
  <2>3. Coming(th, m, s) /\ outbox' = outbox /\ draft' = draft
    BY <1>4, <2>2 DEF Coming, update_mark
  <2>4. m \notin outbox /\ m # draft.m /\ bubble[m] \in {"pending", "cleared"}
    BY <2>3 DEF Fates
  <2>5. ASSUME NEW x \in Threads, NEW y \in Msgs, NEW z \in Verdicts
        PROVE  Coming(x, y, z)' <=> Coming(x, y, z) /\ ~(x = th /\ y = m /\ z = s)
    BY <2>1, <2>2 DEF Coming, TypeOK
  <2>6. CASE PeerOf[m] = active /\ bubble[m] # "cleared"
    <3>1. /\ held' = held
          /\ \A x \in Msgs : bubble'[x] = IF x = m THEN s ELSE bubble[x]
      BY <2>1, <2>2, <2>6 DEF TypeOK
    <3>2. \A y, z : Held(y, z)' <=> Held(y, z)  BY <3>1 DEF Held
    <3>3. s \notin {"pending", "cleared"} /\ bubble[m] = "pending"
      BY <2>4, <2>6 DEF Verdicts
    <3>4. \A z \in Verdicts : /\ ~Held(m, z)'
                              /\ \A x \in Threads : ~Coming(x, m, z)'
      BY <2>3, <2>5, <3>2, <3>3 DEF Fates
    <3>. QED  BY <2>3, <2>4, <2>5, <3>1, <3>2, <3>3, <3>4 DEF Fates, TypeOK
  <2>7. CASE ~(PeerOf[m] = active /\ bubble[m] # "cleared")
    <3>1. held' = held \cup {v} /\ bubble' = bubble  BY <2>1, <2>2, <2>7
    <3>2. ASSUME NEW y \in Msgs, NEW z \in Verdicts
          PROVE  Held(y, z)' <=> Held(y, z) \/ (y = m /\ z = s)
      BY <2>2, <3>1 DEF Held
    <3>. QED  BY <2>3, <2>4, <2>5, <3>1, <3>2 DEF Fates, TypeOK
  <2>. QED  BY <2>6, <2>7
<1>. QED  BY <1>1, <1>2, <1>3, <1>4, <1>5 DEF UiStep

\* A stamp that cannot be made fails the message that is still there, or one
\* that the user has cleared.
LEMMA FatesStamp ==
  ASSUME TypeOK, Fates, MineFresh, StampDone
  PROVE  Fates'
<1>. DEFINE j == task["pump"]
<1>0. "pump" \in Threads /\ j.m \in Msgs /\ verdict["pump"] = {} /\ j.do = "mine"
  BY MineTyped DEF StampDone, At, Threads
<1>1. UNCHANGED <<bubble, draft, held>>  BY DEF StampDone, uiVars
<1>2. CASE ~CannotStamp(j)
  <2>1. UNCHANGED <<outbox, verdict>>  BY <1>2 DEF StampDone
  <2>. QED  BY <1>1, <2>1, SameFates
<1>3. CASE CannotStamp(j)
  <2>1. /\ outbox' = outbox \ {j.m}
        /\ verdict' = [verdict EXCEPT !["pump"] = {<<j.m, "failed">>}]
    BY <1>3 DEF StampDone, Drop
  <2>2. CASE j.m \in outbox
    <3>. DEFINE f == [m \in {j.m} |-> "failed"]
    <3>1. f \in [{j.m} -> Verdicts]  BY DEF Verdicts
    <3>2. verdict' = [verdict EXCEPT !["pump"] = @ \cup {<<m, f[m]>> : m \in {j.m}}]
      BY <1>0, <2>1
    <3>3. outbox' = outbox \ {j.m} /\ {j.m} \in SUBSET outbox  BY <2>1, <2>2
    <3>. HIDE DEF f, j
    <3>. QED  BY <1>0, <1>1, <3>1, <3>2, <3>3, Judged
  <2>3. CASE j.m \notin outbox
    <3>1. bubble[j.m] = "cleared" /\ outbox' = outbox
      BY <1>0, <2>1, <2>3 DEF MineFresh
    <3>2. ASSUME NEW x \in Threads, NEW m \in Msgs, NEW s \in Verdicts
          PROVE  Coming(x, m, s)' <=> Coming(x, m, s)
                                      \/ (x = "pump" /\ m = j.m /\ s = "failed")
      BY <1>0, <2>1 DEF Coming, TypeOK
    <3>3. \A m, s : Held(m, s)' <=> Held(m, s)  BY <1>1 DEF Held
    <3>4. j.m # draft.m  BY <1>0, <3>1 DEF Fates
    <3>. QED  BY <1>0, <1>1, <3>1, <3>2, <3>3, <3>4 DEF Fates, TypeOK
  <2>. QED  BY <2>2, <2>3
<1>. QED  BY <1>2, <1>3

LEMMA FatesPass ==
  ASSUME TypeOK, Entries, Fates, NEW th \in Threads,
         StartPass(th) \/ PassStep(th) \/ EndPass(th)
  PROVE  Fates'
<1>1. CASE StartPass(th) \/ EndPass(th)
  BY <1>1, SameFates DEF StartPass, EndPass, uiVars
<1>2. CASE PassStep(th)
  <2>1. UNCHANGED <<bubble, draft, held>>
    BY <1>2, PassStepTypes DEF PassLeaves, uiVars
  <2>2. CASE Work  BY <2>1, <2>2, SameFates DEF Work
  <2>3. ASSUME NEW m \in outbox, GiveUp(th, m)  PROVE Fates'
    <3>. DEFINE f == [x \in {m} |-> "failed"]
    <3>1. f \in [{m} -> Verdicts]  BY DEF Verdicts
    <3>2. /\ outbox' = outbox \ {m}
          /\ verdict' = [verdict EXCEPT ![th] = @ \cup {<<m, "failed">>}]
      BY <2>3 DEF GiveUp, Fail, Drop
    <3>3. {<<x, f[x]>> : x \in {m}} = {<<m, "failed">>}  OBVIOUS
    <3>4. verdict' = [verdict EXCEPT ![th] = @ \cup {<<x, f[x]>> : x \in {m}}]
      BY <3>2, <3>3
    <3>. HIDE DEF f
    <3>. QED  BY <2>1, <3>1, <3>2, <3>4, Judged
  <2>. QED  BY <1>2, <2>2, <2>3, PassDoes
<1>. QED  BY <1>1, <1>2

LEMMA FatesReader ==
  ASSUME TypeOK, Fates, NEW r \in Readers, ReaderStep(r)
  PROVE  Fates'
<1>1. CASE mark_delivered(r)
  <2>. DEFINE done == ProvenBy(task[r].packet)
              f == [m \in done |-> StatusOf(m)]
  <2>1. /\ outbox' = outbox \ done /\ verdict[r] = {}
        /\ verdict' = [verdict EXCEPT ![r] = {<<m, StatusOf(m)>> : m \in done}]
        /\ UNCHANGED <<bubble, draft, held>>
    BY <1>1 DEF mark_delivered, Drop, At, uiVars
  <2>2. done \in SUBSET outbox  BY DEF ProvenBy
  <2>3. f \in [done -> Verdicts]  BY DEF StatusOf, Verdicts
  <2>4. {<<m, f[m]>> : m \in done} = {<<m, StatusOf(m)>> : m \in done}  OBVIOUS
  <2>5. verdict' = [verdict EXCEPT ![r] = @ \cup {<<m, f[m]>> : m \in done}]
    BY <2>1, <2>4
  <2>. HIDE DEF f, done
  <2>. QED  BY <2>1, <2>2, <2>3, <2>5, Judged DEF Threads
<1>2. ASSUME NEW t \in Targets, Announce(r, t)  PROVE Fates'
  <2>1. draft'.m = draft.m
    <3>1. draft' = draft \/ (draft # NoDraft /\ draft' = [draft EXCEPT !.overtaken = TRUE])
      BY <1>2 DEF Announce
    <3>. QED  BY <3>1 DEF TypeOK, Drafts
  <2>. QED  BY <1>2, <2>1, SameFates DEF Announce
<1>3. ASSUME ~mark_delivered(r), ~\E t \in Targets : Announce(r, t)  PROVE Fates'
  BY <1>3, SameFates DEF ReaderStep, OutboundLinkUp, LinkIdentified,
                         ProofArrives, LookUpCost, OutboxOnAnnounce, uiVars
<1>. QED  BY <1>1, <1>2, <1>3

LEMMA FatesStep ==
  ASSUME TypeOK, Entries, Fates, MineFresh, [Next]_vars
  PROVE  Fates'
<1>1. CASE Loss \/ Tick \/ UNCHANGED vars
  BY <1>1, SameFates DEF Loss, LinkLost, InLinkClosed, connection_reset, Tick,
                         vars, uiVars
<1>2. CASE PumpWake \/ StampSnapshot \/ BlobSnapshot \/ BlobDone
  BY <1>2, SameFates DEF PumpWake, StampSnapshot, BlobSnapshot, BlobDone, uiVars
<1>. QED  BY <1>1, <1>2, FatesUi, FatesStamp, FatesPass, FatesReader
          DEF Next, PumpStep

-----------------------------------------------------------------------------
(* Proofs and verdicts tell the truth.  What has reached somebody stays    *)
(* reached.                                                                *)

Grows == \A m \in Msgs : reached[m] \subseteq reached'[m]
\* Every proof on its way is an old one or of a packet that arrives now.
Honest == \A k \in proofs' : k \in proofs \/ Arrived(k)'

\* Thread th sends on: the network part of a step of a pass.
LEMMA PassHonest ==
  ASSUME TypeOK, NEW th, PassStep(th)
  PROVE  Grows /\ Honest
<1>0. ASSUME proofs' \subseteq proofs, reached' = reached
      PROVE  Grows /\ Honest
  BY <1>0 DEF Grows, Honest
<1>1. ASSUME NEW m \in Msgs, NEW via, NEW who, NEW got \in BOOLEAN,
             who = IF via = "pn" THEN "node" ELSE "peer",
             Transmit(m, via, who, got)
      PROVE  Grows /\ Honest
  <2>. DEFINE k == [m |-> m, n |-> msg[m].sends + 1, via |-> via]
  <2>1. /\ proofs' \subseteq proofs \cup IF got THEN {k} ELSE {}
        /\ reached' = [reached EXCEPT ![m] = @ \cup IF got THEN {who} ELSE {}]
    BY <1>1 DEF Transmit
  <2>2. got => who \in reached'[m]  BY <2>1 DEF TypeOK
  <2>3. \A q : got /\ q.m = m /\ q.via = via => Arrived(q)'
    BY <1>1, <2>2 DEF Arrived
  <2>4. Grows  BY <2>1 DEF Grows, TypeOK
  <2>5. Honest
    <3>1. CASE got  BY <2>1, <2>3, <3>1 DEF Honest
    <3>2. CASE ~got  BY <2>1, <3>2 DEF Honest
    <3>. QED  BY <3>1, <3>2
  <2>. QED  BY <2>4, <2>5
<1>. SUFFICES ASSUME NEW m \in Msgs,
                     \/ PassSkip(th, m) \/ PassDeadline(th, m)
                     \/ PassProofTimeout(th, m) \/ PassPnAsk(th, m)
                     \/ PassPnLink(th, m) \/ PassPnNoBlob(th, m)
                     \/ PassPnSend(th, m) \/ PassPnVanished(th, m)
                     \/ PassDirectSend(th, m) \/ PassDirectVanished(th, m)
                     \/ PassBackGone(th, m) \/ PassAskKey(th, m)
                     \/ PassNoRoute(th, m) \/ PassLinkFailed(th, m)
                     \/ PassLink(th, m)
              PROVE  Grows /\ Honest
  BY DEF PassStep, TypeOK
<1>2. CASE PassPnSend(th, m)
  <2>1. \E got \in BOOLEAN : Transmit(m, "pn", "node", got)
    BY <1>2 DEF PassPnSend
  <2>. QED  BY <1>1, <2>1
<1>3. CASE PassDirectSend(th, m)
  <2>1. \E got \in BOOLEAN, via \in {"out", "back"} : Transmit(m, via, "peer", got)
    BY <1>3 DEF PassDirectSend
  <2>. QED  BY <1>1, <2>1
<1>4. CASE PassDeadline(th, m) \/ PassProofTimeout(th, m) \/ PassPnVanished(th, m)
           \/ PassDirectVanished(th, m)
  BY <1>0, <1>4, WithoutLinkTyped DEF PassDeadline, PassProofTimeout,
     PassPnVanished, PassDirectVanished, netVars
<1>5. CASE \/ PassSkip(th, m) \/ PassPnAsk(th, m) \/ PassPnLink(th, m)
           \/ PassPnNoBlob(th, m) \/ PassBackGone(th, m) \/ PassAskKey(th, m)
           \/ PassNoRoute(th, m) \/ PassLinkFailed(th, m) \/ PassLink(th, m)
  BY <1>0, <1>5 DEF PassSkip, PassPnAsk, PassPnLink, PassPnNoBlob, PassBackGone,
     PassAskKey, PassNoRoute, PassLinkFailed, PassLink, netVars
<1>. QED  BY <1>2, <1>3, <1>4, <1>5

LEMMA NextHonest ==
  ASSUME TypeOK, [Next]_vars
  PROVE  Grows /\ Honest
<1>0. ASSUME proofs' \subseteq proofs, reached' = reached
      PROVE  Grows /\ Honest
  BY <1>0 DEF Grows, Honest
<1>1. CASE UiStep \/ PumpStep \/ Tick \/ UNCHANGED vars
  BY <1>0, <1>1 DEF UiStep, Post, enqueue_outbound, activate_peer, clear_history,
     PumpStep, PumpWake, StampSnapshot, StampDone, BlobSnapshot, BlobDone, Tick, vars, netVars
<1>2. ASSUME NEW r \in Readers, ReaderStep(r)  PROVE Grows /\ Honest
  BY <1>0, <1>2 DEF ReaderStep, Announce, OutboundLinkUp, LinkIdentified,
     ProofArrives, LookUpCost, OutboxOnAnnounce, mark_delivered, netVars
<1>3. CASE Loss
  BY <1>0, <1>3, WithoutLinkTyped DEF Loss, LinkLost, InLinkClosed, connection_reset
<1>4. ASSUME NEW th \in Threads, update_mark(th) \/ StartPass(th) \/ EndPass(th)
      PROVE  Grows /\ Honest
  BY <1>0, <1>4 DEF update_mark, StartPass, EndPass, netVars
<1>. QED  BY <1>1, <1>2, <1>3, <1>4, PassHonest DEF Next

\* What is true stays true.
LEMMA TrueStays ==
  ASSUME TypeOK, Grows
  PROVE  /\ \A k \in Flights \ {NoFlight} : Arrived(k) => Arrived(k)'
         /\ \A m \in Msgs : \A s : IsTrue(m, s) => IsTrue(m, s)'
<1>1. ASSUME NEW k \in Flights \ {NoFlight}, Arrived(k)  PROVE Arrived(k)'
  <2>1. k.m \in Msgs  BY DEF Flights
  <2>. QED  BY <1>1, <2>1 DEF Arrived, Grows
<1>2. ASSUME NEW m \in Msgs, NEW s, IsTrue(m, s)  PROVE IsTrue(m, s)'
  BY <1>2 DEF IsTrue, Grows
<1>. QED  BY <1>1, <1>2

LEMMA NetStep ==
  ASSUME TypeOK, TypeOK', NetTrue, [Next]_vars
  PROVE  NetTrue'
<1>0. Grows /\ Honest  BY NextHonest
<1>1. ASSUME NEW k \in proofs'  PROVE Arrived(k)'
  <2>1. k \in Flights \ {NoFlight}  BY DEF TypeOK
  <2>. QED  BY <1>0, <2>1, TrueStays DEF Honest, NetTrue
<1>2. ASSUME NEW r \in Readers, task'[r].do = "delivered"
      PROVE  task'[r].packet # NoFlight /\ Arrived(task[r].packet)'
  <2>0. r \in Threads /\ r # "pump"  BY ThreadsAssumption DEF Threads
  <2>1. CASE task'[r] = task[r]
    <3>1. task[r] \in Tasks(r)  BY <2>0 DEF TypeOK
    <3>2. task[r].packet \in Flights \ {NoFlight} /\ Arrived(task[r].packet)
      BY <1>2, <2>0, <2>1, <3>1 DEF Tasks, NetTrue
    <3>. QED  BY <1>0, <2>1, <3>2, TrueStays
  <2>2. CASE task'[r] # task[r]
    <3>1. ASSUME NEW x \in Readers, NEW k \in proofs, ProofArrives(x, k)
          PROVE  task'[r].packet # NoFlight /\ Arrived(task[r].packet)'
      <4>1. task'[r].packet = k
        BY <2>0, <2>2, <3>1 DEF ProofArrives, TypeOK, Threads
      <4>2. k \in Flights \ {NoFlight} /\ Arrived(k)  BY DEF TypeOK, NetTrue
      <4>. QED  BY <1>0, <4>1, <4>2, TrueStays
    <3>2. ASSUME ~\E x \in Readers : \E k \in proofs : ProofArrives(x, k)
          PROVE  FALSE
      <4>1. CASE UiStep \/ Loss \/ UNCHANGED vars
        BY <2>2, <4>1 DEF UiStep, Post, enqueue_outbound, activate_peer,
           clear_history, Loss, LinkLost,
           InLinkClosed, connection_reset, vars
      <4>2. CASE PumpStep
        BY <2>0, <2>2, <4>2 DEF PumpStep, PumpWake, StampSnapshot, StampDone,
           BlobSnapshot, BlobDone, Go, TypeOK
      <4>3. CASE Tick  BY <2>0, <2>2, <4>3, TickTask
      <4>4. ASSUME NEW x \in Readers, ReaderStep(x)  PROVE FALSE
        <5>1. \/ UNCHANGED task
              \/ \E s \in {"want", "idle"} : Go(x, s)
              \/ \E p : task' = [task EXCEPT ![x] = [do |-> "announce", peer |-> p]]
              \/ \E p, c : task' =
                   [task EXCEPT ![x] = [do |-> "sweep", peer |-> p, cost |-> c]]
          BY <3>2, <4>4 DEF ReaderStep, Announce, OutboundLinkUp, LinkIdentified,
             LookUpCost, OutboxOnAnnounce, mark_delivered
        <5>. QED  BY <1>2, <2>0, <2>2, <5>1 DEF Go, TypeOK
      <4>5. ASSUME NEW th \in Threads, update_mark(th) \/ StartPass(th) \/ EndPass(th)
            PROVE  FALSE
        BY <1>2, <2>0, <2>2, <4>5 DEF update_mark, StartPass, EndPass, Go, TypeOK
      <4>6. ASSUME NEW th \in Threads, PassStep(th)  PROVE FALSE
        BY <2>2, <4>6, PassStepTypes DEF PassLeaves
      <4>. QED  BY <4>1, <4>2, <4>3, <4>4, <4>5, <4>6 DEF Next
    <3>. QED  BY <3>1, <3>2
  <2>. QED  BY <2>1, <2>2
<1>. QED  BY <1>1, <1>2 DEF NetTrue

\* A verdict is true when it is reached: a failure says nothing, and a proof
\* is of a packet that arrived, at the node only if the message went there.
Said(m, s) == Held(m, s) \/ \E th \in Threads : Coming(th, m, s)

\* Only mark_delivered and failures reach verdicts.
LEMMA Sayings ==
  ASSUME TypeOK, Entries, NetTrue, [Next]_vars, NEW m \in Msgs, NEW s \in Verdicts,
         Said(m, s)'
  PROVE  Said(m, s) \/ IsTrue(m, s)
<1>0. ASSUME UNCHANGED <<held, verdict>>  PROVE Said(m, s)
  BY <1>0 DEF Said, Held, Coming
<1>1. CASE \/ Loss \/ Tick \/ UNCHANGED vars \/ PumpWake \/ StampSnapshot
           \/ BlobSnapshot \/ BlobDone \/ enqueue_outbound
           \/ \E x \in Msgs : Post(x)
           \/ \E th \in Threads : StartPass(th) \/ EndPass(th)
  BY <1>0, <1>1 DEF Loss, LinkLost, InLinkClosed, connection_reset, Tick, vars,
     PumpWake, StampSnapshot, BlobSnapshot, BlobDone, Post, enqueue_outbound,
     StartPass, EndPass, uiVars
<1>2. ASSUME NEW p \in Peers, activate_peer(p) \/ clear_history(p)
      PROVE  Said(m, s)
  <2>1. held' \subseteq held /\ verdict' = verdict
    BY <1>2 DEF activate_peer, clear_history
  <2>. QED  BY <2>1 DEF Said, Held, Coming
<1>3. ASSUME NEW th \in Threads, update_mark(th)  PROVE Said(m, s)
  <2>1. PICK v \in verdict[th] : /\ verdict' = [verdict EXCEPT ![th] = @ \ {v}]
                                 /\ held' \subseteq held \cup {v}
    BY <1>3 DEF update_mark
  <2>. QED  BY <2>1 DEF Said, Held, Coming, TypeOK
<1>4. CASE StampDone
  <2>1. /\ held' = held /\ "pump" \in Threads
        /\ \/ verdict' = verdict
           \/ verdict' = [verdict EXCEPT !["pump"] = {<<task["pump"].m, "failed">>}]
    BY <1>4 DEF StampDone, uiVars, Threads
  <2>2. Said(m, s) \/ s = "failed"  BY <2>1 DEF Said, Held, Coming, TypeOK
  <2>. QED  BY <2>2 DEF IsTrue
<1>5. ASSUME NEW th \in Threads, PassStep(th)  PROVE Said(m, s) \/ IsTrue(m, s)
  <2>1. held' = held  BY <1>5, PassStepTypes DEF PassLeaves, uiVars
  <2>2. \/ verdict' = verdict
        \/ \E x : verdict' = [verdict EXCEPT ![th] = @ \cup {<<x, "failed">>}]
    BY <1>5, PassDoes DEF Work, GiveUp, Fail
  <2>3. Said(m, s) \/ s = "failed"  BY <2>1, <2>2 DEF Said, Held, Coming, TypeOK
  <2>. QED  BY <2>3 DEF IsTrue
<1>6. ASSUME NEW r \in Readers, mark_delivered(r)  PROVE Said(m, s) \/ IsTrue(m, s)
  <2>. DEFINE k == task[r].packet
  <2>0. r \in Threads /\ r # "pump"  BY ThreadsAssumption DEF Threads
  <2>1. /\ held' = held /\ k # NoFlight /\ Arrived(k)
        /\ verdict' = [verdict EXCEPT ![r] = {<<x, StatusOf(x)>> : x \in ProvenBy(k)}]
    BY <1>6 DEF mark_delivered, uiVars, At, NetTrue
  <2>2. Said(m, s) \/ (m \in ProvenBy(k) /\ s = StatusOf(m))
    BY <2>0, <2>1 DEF Said, Held, Coming, TypeOK
  <2>3. ASSUME m \in ProvenBy(k), s = StatusOf(m)  PROVE IsTrue(m, s)
    <3>1. msg[m].in_flight = k /\ Entry(m, msg[m])  BY <2>3 DEF ProvenBy, Entries
    <3>2. k.m = m /\ (k.via = "pn" => msg[m].via_pn)  BY <2>1, <3>1 DEF Entry
    <3>3. msg[m].via_pn \in BOOLEAN  BY DEF TypeOK, OutboundMsg
    <3>. QED  BY <2>1, <2>3, <3>2, <3>3 DEF StatusOf, IsTrue, Arrived
  <2>. QED  BY <2>2, <2>3
<1>7. ASSUME NEW r \in Readers, ReaderStep(r), ~mark_delivered(r)  PROVE Said(m, s)
  BY <1>0, <1>7 DEF ReaderStep, Announce, OutboundLinkUp, LinkIdentified,
     ProofArrives, LookUpCost, OutboxOnAnnounce, uiVars
<1>. QED  BY <1>1, <1>2, <1>3, <1>4, <1>5, <1>6, <1>7 DEF Next, UiStep, PumpStep

\* A bubble shows what it showed, or a verdict that was reached.
LEMMA Showings ==
  ASSUME TypeOK, [Next]_vars, NEW m \in Msgs
  PROVE  \/ bubble'[m] = bubble[m]
         \/ bubble'[m] \in {"pending", "cleared"}
         \/ bubble'[m] \in Verdicts /\ Said(m, bubble'[m])
<1>1. ASSUME NEW x \in Msgs, Post(x)
      PROVE  bubble'[m] = bubble[m] \/ bubble'[m] = "pending"
  BY <1>1 DEF Post, TypeOK
<1>2. ASSUME NEW p \in Peers, activate_peer(p)
      PROVE  bubble'[m] = bubble[m] \/ (bubble'[m] \in Verdicts /\ Said(m, bubble'[m]))
  <2>. DEFINE s == CHOOSE s \in Verdicts : <<m, s>> \in held
  <2>1. bubble'[m] = bubble[m]
        \/ (bubble'[m] = s /\ \E z \in Verdicts : <<m, z>> \in held)
    BY <1>2 DEF activate_peer
  <2>2. (\E z \in Verdicts : <<m, z>> \in held) => s \in Verdicts /\ <<m, s>> \in held
    OBVIOUS
  <2>. QED  BY <2>1, <2>2 DEF Said, Held
<1>3. ASSUME NEW p \in Peers, clear_history(p)
      PROVE  bubble'[m] = bubble[m] \/ bubble'[m] = "cleared"
  BY <1>3 DEF clear_history
<1>4. ASSUME NEW th \in Threads, update_mark(th)
      PROVE  bubble'[m] = bubble[m] \/ (bubble'[m] \in Verdicts /\ Said(m, bubble'[m]))
  <2>1. PICK v \in verdict[th] :
          bubble' = bubble \/ bubble' = [bubble EXCEPT ![v[1]] = v[2]]
    BY <1>4 DEF update_mark
  <2>2. PICK x \in Msgs, s \in Verdicts : v = <<x, s>>  BY DEF TypeOK
  <2>3. CASE x = m
    BY <2>1, <2>2, <2>3 DEF Said, Coming, TypeOK
  <2>4. CASE x # m  BY <2>1, <2>2, <2>4 DEF TypeOK
  <2>. QED  BY <2>3, <2>4
<1>5. ASSUME NEW th \in Threads, StartPass(th) \/ PassStep(th) \/ EndPass(th)
      PROVE  bubble' = bubble
  BY <1>5, PassStepTypes DEF PassLeaves, uiVars, StartPass, EndPass
<1>6. CASE \/ Loss \/ Tick \/ UNCHANGED vars \/ PumpStep \/ enqueue_outbound
           \/ \E r \in Readers : ReaderStep(r)
  BY <1>6 DEF enqueue_outbound, Loss, LinkLost, InLinkClosed, connection_reset, Tick, vars, PumpStep,
     PumpWake, StampSnapshot, StampDone, BlobSnapshot, BlobDone, ReaderStep, Announce,
     OutboundLinkUp, LinkIdentified, ProofArrives, LookUpCost, OutboxOnAnnounce,
     mark_delivered, uiVars
<1>. QED  BY <1>1, <1>2, <1>3, <1>4, <1>5, <1>6 DEF Next, UiStep

LEMMA MarksStep ==
  ASSUME TypeOK, Entries, NetTrue, MarksTrue, [Next]_vars
  PROVE  MarksTrue'
<1>0. Grows  BY NextHonest
<1>1. ASSUME NEW m \in Msgs, NEW s \in Verdicts, Said(m, s)'  PROVE IsTrue(m, s)'
  <2>1. IsTrue(m, s)  BY <1>1, Sayings DEF MarksTrue, Said
  <2>. QED  BY <1>0, <2>1, TrueStays
<1>2. ASSUME NEW m \in Msgs  PROVE IsTrue(m, bubble[m])'
  <2>. DEFINE b == bubble'[m]
  <2>1. IsTrue(m, b)
    <3>1. CASE b = bubble[m]  BY <3>1 DEF MarksTrue
    <3>2. CASE b \in {"pending", "cleared"}  BY <3>2 DEF IsTrue
    <3>3. CASE b \in Verdicts /\ Said(m, b)  BY <3>3 DEF MarksTrue, Said
    <3>. QED  BY <3>1, <3>2, <3>3, Showings
  <2>2. \A s : IsTrue(m, s) => IsTrue(m, s)'  BY <1>0, TrueStays
  <2>. QED  BY <2>1, <2>2 DEF IsTrue
<1>. QED  BY <1>1, <1>2 DEF MarksTrue, Said

-----------------------------------------------------------------------------
(* The theorems.                                                           *)

LEMMA InvInit == Init => Inv
<1>. SUFFICES ASSUME Init PROVE Inv  OBVIOUS
<1>1. TypeOK /\ Entries  BY TypeInit DEF TypeEntries
<1>2. MineFresh  BY DEF Init, MineFresh, Threads
<1>3. Fates  BY MsgsAssumption DEF Init, Fates, Held, Coming, NoDraft
<1>7. Passing  BY ThreadsAssumption DEF Init, Passing
<1>6. Armed  BY DEF Init, Armed, ArmedEntries, ArmedDraft
<1>4. NetTrue  BY ThreadsAssumption DEF Init, NetTrue, Threads
<1>5. MarksTrue  BY DEF Init, MarksTrue, IsTrue, Held, Coming
<1>. QED  BY <1>1, <1>2, <1>3, <1>4, <1>5, <1>6, <1>7 DEF Inv

LEMMA InvStep == Inv /\ [Next]_vars => Inv'
<1>. SUFFICES ASSUME Inv, [Next]_vars PROVE Inv'  OBVIOUS
<1>1. TypeOK' /\ Entries'  BY TypeStep DEF Inv, TypeEntries
<1>. QED  BY <1>1, ArmedStep, PassingStep, MineStep, FatesStep, NetStep, MarksStep DEF Inv

LEMMA Invariance == Spec => []Inv
  BY InvInit, InvStep, PTL DEF Spec

\* No message is lost and none is judged twice, whichever of pump_outbox,
\* mark_delivered, compute_pending_delivery_stamp and "Clear history" takes it
\* out of the Vec: while its bubble is pending its fate lies in one place.
THEOREM OneFateHolds == Spec => []OneFate
<1>1. Inv => OneFate
  <2>. SUFFICES ASSUME Inv PROVE OneFate  OBVIOUS
  <2>. USE DEF Inv
  <2>0. ASSUME NEW m \in Msgs, NEW x
        PROVE  x \in Places(m) <=>
                 \/ x = <<"draft", "none">> /\ m = draft.m
                 \/ x = <<"outbox", "none">> /\ m \in outbox
                 \/ \E th \in Threads, s \in Verdicts : x = <<th, s>> /\ Coming(th, m, s)
                 \/ \E s \in Verdicts : x = <<"held", s>> /\ Held(m, s)
    <3>0. x \in {y \in {<<"draft", "none">>} : m = draft.m}
          <=> x = <<"draft", "none">> /\ m = draft.m
      OBVIOUS
    <3>1. x \in {y \in {<<"outbox", "none">>} : m \in outbox}
          <=> x = <<"outbox", "none">> /\ m \in outbox
      OBVIOUS
    <3>2. x \in {y \in Threads \X Verdicts : <<m, y[2]>> \in verdict[y[1]]}
          <=> \E th \in Threads, s \in Verdicts : x = <<th, s>> /\ Coming(th, m, s)
      <4>1. ASSUME NEW th \in Threads, NEW s \in Verdicts, x = <<th, s>>
            PROVE  x \in {y \in Threads \X Verdicts : <<m, y[2]>> \in verdict[y[1]]}
                   <=> Coming(th, m, s)
        BY <4>1 DEF Coming
      <4>2. x \in Threads \X Verdicts
            => \E th \in Threads, s \in Verdicts : x = <<th, s>>
        OBVIOUS
      <4>. QED  BY <4>1, <4>2
    <3>3. x \in {y \in {"held"} \X Verdicts : <<m, y[2]>> \in held}
          <=> \E s \in Verdicts : x = <<"held", s>> /\ Held(m, s)
      <4>1. ASSUME NEW s \in Verdicts, x = <<"held", s>>
            PROVE  x \in {y \in {"held"} \X Verdicts : <<m, y[2]>> \in held}
                   <=> Held(m, s)
        BY <4>1 DEF Held
      <4>2. x \in {"held"} \X Verdicts => \E s \in Verdicts : x = <<"held", s>>
        OBVIOUS
      <4>. QED  BY <4>1, <4>2
    <3>. QED  BY <3>0, <3>1, <3>2, <3>3 DEF Places
  <2>1. ASSUME NEW m \in Msgs, bubble[m] = "pending"
        PROVE  Cardinality(Places(m)) = 1
    <3>1. \E x : Places(m) = {x}
      <4>1. CASE m \in outbox
        <5>1. Places(m) = {<<"outbox", "none">>}  BY <2>0, <4>1 DEF Fates
        <5>. QED  BY <5>1
      <4>4. CASE m = draft.m
        <5>1. Places(m) = {<<"draft", "none">>}  BY <2>0, <4>4 DEF Fates
        <5>. QED  BY <5>1
      <4>2. ASSUME m \notin outbox, NEW th \in Threads, NEW s \in Verdicts,
                   Coming(th, m, s)
            PROVE  \E x : Places(m) = {x}
        <5>1. \A z \in Verdicts : ~Held(m, z)  BY <2>1, <4>2 DEF Fates
        <5>2. \A tz \in Threads, z \in Verdicts : Coming(tz, m, z) => tz = th /\ z = s
          BY <2>1, <4>2 DEF Fates
        <5>3. Places(m) = {<<th, s>>}  BY <2>0, <4>2, <5>1, <5>2 DEF Fates
        <5>. QED  BY <5>3
      <4>3. ASSUME m \notin outbox, NEW s \in Verdicts, Held(m, s)
            PROVE  \E x : Places(m) = {x}
        <5>1. \A z \in Verdicts : Held(m, z) => z = s  BY <2>1, <4>3 DEF Fates
        <5>2. \A tz \in Threads, z \in Verdicts : ~Coming(tz, m, z)
          BY <2>1, <4>3 DEF Fates
        <5>3. Places(m) = {<<"held", s>>}  BY <2>0, <4>3, <5>1, <5>2 DEF Fates
        <5>. QED  BY <5>3
      <4>. QED  BY <2>1, <4>1, <4>2, <4>3, <4>4 DEF Fates
    <3>. QED  BY <3>1, FS_Singleton
  <2>2. ASSUME NEW m \in Msgs, bubble[m] \in Verdicts \cup {"none"}
        PROVE  Places(m) = {}
    <3>1. bubble[m] \notin {"pending", "cleared"}  BY <2>2 DEF Verdicts
    <3>. QED  BY <2>0, <3>1 DEF Fates
  <2>3. ASSUME NEW m \in Msgs, bubble[m] = "cleared"  PROVE m \notin outbox
    BY <2>3 DEF Fates
  <2>. QED  BY <2>1, <2>2, <2>3 DEF OneFate
<1>. QED  BY <1>1, Invariance, PTL

\* The marks tell the truth about what the network did: mark_delivered matches
\* a proof with the packet in flight, and a packet to the node cannot be in
\* flight for a message that is still direct.
THEOREM MarkIsTrueHolds == Spec => []MarkIsTrue
<1>1. Inv => MarkIsTrue  BY DEF Inv, MarksTrue, IsTrue, MarkIsTrue
<1>. QED  BY <1>1, Invariance, PTL

\* What compute_pending_delivery_stamp mined on without the lock is not stale
\* when it finds the entry again: until then the passes skip the entry, no
\* proof matches it and an announce asks nothing new of it.
THEOREM SnapshotIsFreshHolds == Spec => []SnapshotIsFresh
<1>1. Inv => SnapshotIsFresh
  BY DEF Inv, TypeOK, Entries, Entry, MineFresh, SnapshotIsFresh
<1>. QED  BY <1>1, Invariance, PTL

\* A message's first direct send to a peer that announces a cost carries a
\* stamp, unless the announce's handler has not swept the outbox yet or the
\* message was overtaken by it on its way into the outbox: pump_outbox sends
\* only what awaits no stamp, and a sweep arms all that was never sent.
THEOREM StampBeforeSendHolds == Spec => StampBeforeSend
<1>. DEFINE A == \A m \in outbox \cap outbox' :
                   /\ msg[m].attempts = 0 /\ msg'[m].attempts = 1
                   /\ costs[PeerOf[m]] # 0
                   => \/ msg[m].packed = "stamped"
                      \/ msg[m].overtaken \/ Sweeping(PeerOf[m])
<1>1. Inv /\ [Next]_vars => [A]_vars
  <2>. SUFFICES ASSUME Inv, Next, NEW m \in outbox, m \in outbox',
                       msg[m].attempts = 0, msg'[m].attempts = 1,
                       costs[PeerOf[m]] # 0
                PROVE  \/ msg[m].packed = "stamped"
                       \/ msg[m].overtaken \/ Sweeping(PeerOf[m])
    OBVIOUS
  <2>. USE DEF Inv
  <2>1. Tried(m)  BY FirstTry
  <2>2. ~msg[m].via_pn /\ msg[m].needs_stamp = 0
    BY <2>1 DEF Tried, PassDirectSend, ReadyDirect, Ready, Due
  <2>. QED  BY <2>2 DEF Armed, ArmedEntries
<1>. QED  BY <1>1, Invariance, PTL DEF Spec, StampBeforeSend

\* No pass of pump_outbox gives up on a message before the node has been tried:
\* a step of a pass that drops one finds it on the propagation path already, or
\* finds no node configured.
THEOREM NodeBeforeFailureHolds == Spec => NodeBeforeFailure
<1>. DEFINE A == \A m \in outbox \ outbox' :
                   pass.by # "none" /\ hasNode => msg[m].via_pn
<1>1. Inv /\ [Next]_vars => [A]_vars
  <2>. SUFFICES ASSUME Inv, Next, pass.by # "none" PROVE A  OBVIOUS
  <2>. USE DEF Inv
  <2>1. ASSUME NEW th \in Threads, PassStep(th)  PROVE A
    BY <2>1, PassDoes DEF Work, GiveUp, Fail, Drop
  <2>2. ASSUME NEW th \in Threads, update_mark(th) \/ StartPass(th) \/ EndPass(th)
        PROVE  outbox' = outbox
    BY <2>2 DEF update_mark, StartPass, EndPass
  <2>3. UiStep => outbox \subseteq outbox'
    BY DEF UiStep, Post, enqueue_outbound, activate_peer, clear_history, Free
  <2>4. PumpStep \/ Loss \/ Tick => outbox' = outbox
    BY DEF PumpStep, PumpWake, StampSnapshot, StampDone, BlobSnapshot, BlobDone,
       Loss, LinkLost, InLinkClosed, connection_reset, Tick, Free
  <2>5. ASSUME NEW r \in Readers, ReaderStep(r)  PROVE outbox' = outbox
    BY <2>5 DEF ReaderStep, Announce, OutboundLinkUp, LinkIdentified, ProofArrives,
       LookUpCost, OutboxOnAnnounce, mark_delivered, Free
  <2>. QED  BY <2>1, <2>2, <2>3, <2>4, <2>5 DEF Next
<1>. QED  BY <1>1, Invariance, PTL DEF Spec, NodeBeforeFailure
=============================================================================
