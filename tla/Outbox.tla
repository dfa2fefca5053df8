------------------------------- MODULE Outbox -------------------------------
(***************************************************************************)
(* The outbound delivery engine of apps/lxmfchat/src/net.rs: every message *)
(* the user posts is an entry of shared.outbox until it is delivered to    *)
(* its peer, stored at the propagation node, or given up on.               *)
(*                                                                         *)
(* Four kinds of thread meet on the outbox mutex:                          *)
(*   - the UI thread posts a message and clears a thread's history;        *)
(*   - the pump thread wakes once a second, mines at most one delivery     *)
(*     stamp and at most one propagation blob (both WITHOUT the lock, on a *)
(*     snapshot), then runs pump_outbox;                                   *)
(*   - the reader threads handle announces, link proofs, identifications   *)
(*     and delivery proofs, and run pump_outbox too.                       *)
(* A pump_outbox pass holds the mutex; it is a step per message and stage, *)
(* because the transport and back-channel tables have locks of their own   *)
(* and change under it.  The bubbles' marks are updated after the unlock.  *)
(*                                                                         *)
(* The Vec is a set: entries are pushed in the order of their display_ts   *)
(* (made unique and increasing by shared.last_ts), so the order of the     *)
(* identifiers is the order of the Vec.  Times are relative: wait stands   *)
(* for next_action - now (0 when due), left for deadline - now (-1 when    *)
(* past).  The clock does not advance inside a pass, which samples `now`   *)
(* once.                                                                   *)
(***************************************************************************)
EXTENDS Integers, FiniteSets

CONSTANTS
    Msgs,               \* the messages posted, by display_ts
    Peers,              \* LXMF delivery destinations
    PeerOf,             \* the destination of each message
    Node,               \* the propagation node's destination
    Builds,             \* the builds checked: with a node configured, without
    Large,              \* messages over LINK_PACKED_MAX: sent as a Resource
    Tickets,            \* whether a post may find a ticket that stamps it
    SavedKeys,          \* the sets of keys the contact list may start with
    Readers,            \* the threads that handle inbound packets
    DIRECT_DEADLINE, PROP_DEADLINE, PROOF_TIMEOUT, LINK_RETRY, KEY_RETRY,
    DELIVERY_RETRY, RESOURCE_RETRY, PENDING_LINK_EXPIRY,
    MAX_ATTEMPTS, MAX_ROUTE_TRIES, MAX_LINK_TRIES, MAX_DIRECT_ROUNDS,
    Reachable,          \* the targets that answer at all
    Prompt,             \* answers come within the second, and so does mining
    Costs,              \* stamp costs announced: 0 none, 1 minable, 2 too high
    MaxEvents           \* bound on losses and on what the network does unasked

ASSUME MsgsAssumption == Msgs \subseteq Nat \ {0}
ASSUME PeersAssumption == PeerOf \in [Msgs -> Peers] /\ Node \notin Peers
ASSUME ThreadsAssumption == "pump" \notin Readers /\ "none" \notin Readers
ASSUME TimesAssumption ==
    /\ {DIRECT_DEADLINE, PROP_DEADLINE} \subseteq Nat
    /\ {PROOF_TIMEOUT, LINK_RETRY, KEY_RETRY, DELIVERY_RETRY, RESOURCE_RETRY,
        PENDING_LINK_EXPIRY} \subseteq Nat \ {0}
ASSUME LimitsAssumption ==
    {MAX_ATTEMPTS, MAX_ROUTE_TRIES, MAX_LINK_TRIES, MAX_DIRECT_ROUNDS}
        \subseteq Nat \ {0}
ASSUME EnvironmentAssumption ==
    /\ Builds \subseteq BOOLEAN /\ Prompt \in BOOLEAN
    /\ Large \subseteq Msgs /\ Tickets \subseteq BOOLEAN
    /\ SavedKeys \subseteq SUBSET (Peers \cup {Node})
    /\ Reachable \subseteq Peers \cup {Node}
    /\ Costs \subseteq 0..2 /\ MaxEvents \in Nat

VARIABLES
    outbox,     \* shared.outbox: the messages being tracked
    msg,        \* the OutboundMsg of each of them
    bubble,     \* the mark of each message's bubble in its dialogue
    active,     \* the dialogue the UI shows
    draft,      \* the message post() has shown and not yet enqueued
    held,       \* shared.delivery_updates: verdicts for dialogues not shown
    task,       \* what each thread is doing
    verdict,    \* verdicts a thread has reached and not yet shown
    pass,       \* the holder of the outbox lock in pump_outbox, and its index
    known,      \* transport: destinations whose key is known
    path,       \* transport: destinations with a route
    link,       \* transport: targets with an established outbound link
    pend,       \* transport: pending LINKREQUEST per target
    back,       \* shared.backchannels: peers whose link to us carries replies
    costs,      \* shared.stamp_costs
    hasNode,    \* whether a propagation node is configured (never changes)
    asked,      \* path requests that went out to a reachable target
    events,     \* losses, unasked announces and identifications so far
    proofs,     \* delivery proofs on their way that would still validate
    reached     \* ghost: whom each message has really reached

uiVars == <<bubble, active, draft, held>>
tpVars == <<known, path, link, pend, back, asked, events>>
netVars == <<proofs, reached>>
vars == <<outbox, msg, bubble, active, draft, held, task, verdict, pass, known,
          path, link, pend, back, costs, hasNode, asked, events, proofs,
          reached>>

Targets == Peers \cup {Node}
Threads == {"pump"} \cup Readers
Verdicts == {"delivered", "queued", "failed"}
NoFlight == [m |-> 0, n |-> 0, via |-> "none"]
NoDraft == [m |-> 0, cost |-> 0, ticket |-> FALSE, overtaken |-> FALSE]

\* A loss, or something the network does unasked.
Event == events < MaxEvents /\ events' = events + 1

Free == pass.by = "none"                    \* the outbox lock can be taken
First(S) == CHOOSE m \in S : \A x \in S : m <= x
To(peer) == {m \in outbox : PeerOf[m] = peer}

\* What enqueue_outbound pushes.  sends numbers the packets built for the
\* message: a packet hash is fresh because each packet has a fresh IV.
\* overtaken is a ghost: an announce of its peer was stored between post's look
\* at the cost and the push, and no sweep of the outbox has made up for it.
NewMsg(cost, ticket, overtaken) ==
    [needs_stamp |-> cost, stamped |-> ticket, overtaken |-> overtaken,
     packed |-> IF ticket THEN "stamped" ELSE "bare", pn_blob |-> "none",
     via_pn |-> FALSE, tried_pn |-> FALSE, in_flight |-> NoFlight, sends |-> 0,
     attempts |-> 0, route_tries |-> 0, link_tries |-> 0, direct_rounds |-> 0,
     wait |-> 0, left |-> DIRECT_DEADLINE]
NoMsg == NewMsg(0, FALSE, FALSE)

\* Entries leave the Vec.
MutKeep(S) == UNCHANGED <<outbox, msg>>
Drop(S) == /\ outbox' = outbox \ S
           /\ msg' = [m \in Msgs |-> IF m \in S THEN NoMsg ELSE msg[m]]

Init ==
    /\ outbox = {} /\ msg = [m \in Msgs |-> NoMsg]
    /\ bubble = [m \in Msgs |-> "none"]
    /\ active \in Peers /\ draft = NoDraft /\ held = {}
    /\ task = [th \in Threads |-> [do |-> IF th = "pump" THEN "sleep" ELSE "idle"]]
    /\ verdict = [th \in Threads |-> {}]
    /\ pass = [by |-> "none", at |-> 0]
    /\ known \in SavedKeys
    /\ path = {} /\ link = {} /\ back = {}
    /\ pend = [t \in Targets |-> 0]
    /\ costs = [p \in Peers |-> 0] /\ hasNode \in Builds
    /\ asked = {} /\ events = 0 /\ proofs = {}
    /\ reached = [m \in Msgs |-> {}]

-----------------------------------------------------------------------------
(* The UI thread.                                                          *)

\* A message to the active peer.  The bubble is shown first; a ticket stamps
\* the message at once, otherwise the peer's announced cost, looked up here,
\* asks for a mined stamp.  Signing and saving the contact come next.
Post(m) ==
    /\ draft = NoDraft /\ PeerOf[m] = active
    /\ bubble[m] = "none" /\ \A x \in Msgs : bubble[x] = "none" => m <= x
    /\ \E ticket \in Tickets :
          draft' = [m |-> m, cost |-> IF ticket THEN 0 ELSE costs[active],
                    ticket |-> ticket, overtaken |-> FALSE]
    /\ bubble' = [bubble EXCEPT ![m] = "pending"]
    /\ UNCHANGED <<outbox, msg, active, held, task, verdict, pass, costs,
                   hasNode, tpVars, netVars>>

\* Only then is the entry pushed, with the cost that was looked up.
enqueue_outbound ==
    /\ draft # NoDraft /\ Free
    /\ outbox' = outbox \cup {draft.m}
    /\ msg' = [msg EXCEPT ![draft.m] =
                 NewMsg(draft.cost, draft.ticket, draft.overtaken)]
    /\ draft' = NoDraft
    /\ UNCHANGED <<bubble, active, held, task, verdict, pass, costs, hasNode,
                   tpVars, netVars>>

\* Switching to a peer's dialogue applies the verdicts held for it.
activate_peer(p) ==
    /\ draft = NoDraft /\ p # active /\ active' = p
    /\ bubble' = [m \in Msgs |->
         IF PeerOf[m] = p /\ bubble[m] # "cleared"
            /\ \E s \in Verdicts : <<m, s>> \in held
         THEN CHOOSE s \in Verdicts : <<m, s>> \in held
         ELSE bubble[m]]
    /\ held' = {h \in held : PeerOf[h[1]] # p}
    /\ UNCHANGED <<outbox, msg, draft, task, verdict, pass, costs, hasNode,
                   tpVars, netVars>>

\* "Clear history": the dialogue, the held verdicts and the entries go.
clear_history(p) ==
    /\ Free /\ draft = NoDraft
    /\ \E m \in Msgs : PeerOf[m] = p /\ bubble[m] \notin {"none", "cleared"}
    /\ bubble' = [m \in Msgs |-> IF PeerOf[m] = p /\ bubble[m] # "none"
                                 THEN "cleared" ELSE bubble[m]]
    /\ held' = {h \in held : PeerOf[h[1]] # p}
    /\ Drop(To(p))
    /\ UNCHANGED <<active, draft, task, verdict, pass, costs, hasNode, tpVars,
                   netVars>>

-----------------------------------------------------------------------------
(* Verdicts are shown after the outbox lock is released.                   *)

\* A thread shows one of its verdicts: in the active dialogue, or held.
update_mark(th) ==
    /\ ~(pass.by = th)
    /\ \E v \in verdict[th] :
         /\ verdict' = [verdict EXCEPT ![th] = @ \ {v}]
         /\ IF PeerOf[v[1]] = active /\ bubble[v[1]] # "cleared"
            THEN bubble' = [bubble EXCEPT ![v[1]] = v[2]] /\ held' = held
            ELSE held' = held \cup {v} /\ bubble' = bubble
    /\ UNCHANGED <<outbox, msg, active, draft, task, pass, costs, hasNode,
                   tpVars, netVars>>

\* A thread is at step s of its work, with nothing left to show.
At(th, s) == task[th].do = s /\ verdict[th] = {}
Go(th, s) == task' = [task EXCEPT ![th] = [do |-> s]]

-----------------------------------------------------------------------------
(* The pump thread's proof-of-work, mined on a snapshot without the lock.  *)

\* The loop wakes after its one-second sleep and goes on unless there is
\* nothing to deliver.
PumpWake ==
    /\ At("pump", "awake") /\ Free
    /\ Go("pump", IF outbox = {} THEN "sleep" ELSE "stamp")
    /\ UNCHANGED <<outbox, msg, verdict, pass, costs, hasNode, uiVars, tpVars,
                   netVars>>

\* Snapshot the first message that still needs a delivery stamp.
StampSnapshot ==
    /\ At("pump", "stamp") /\ Free
    /\ LET need == {m \in outbox : msg[m].needs_stamp # 0} IN
         IF need = {} THEN Go("pump", "blob")
         ELSE task' = [task EXCEPT !["pump"] =
                [do |-> "mine", m |-> First(need),
                 packed |-> msg[First(need)].packed,
                 cost |-> msg[First(need)].needs_stamp]]
    /\ UNCHANGED <<outbox, msg, verdict, pass, costs, hasNode, uiVars, tpVars,
                   netVars>>

\* append_stamp refuses a payload that already carries a stamp.
AppendStampFails(packed) == packed = "stamped"

\* The cost is over MAX_DELIVERY_STAMP_COST, or the stamp is refused.
CannotStamp(j) == j.cost > 1 \/ AppendStampFails(j.packed)

\* What a mined stamp leaves of the entry; the direct budget starts anew.
Stamped(x) == [x EXCEPT !.packed = "stamped", !.needs_stamp = 0,
                        !.left = DIRECT_DEADLINE]

\* The result is stored by finding the entry again; a cost over the cap and a
\* refused stamp fail the message, whether or not it is still there.
StampDone ==
    LET j == task["pump"] IN
    /\ At("pump", "mine") /\ Free
    /\ IF CannotStamp(j)
       THEN /\ Drop({j.m})
            /\ verdict' = [verdict EXCEPT !["pump"] = {<<j.m, "failed">>}]
       ELSE /\ msg' = IF j.m \in outbox
                      THEN [msg EXCEPT ![j.m] = Stamped(@)] ELSE msg
            /\ UNCHANGED <<outbox, verdict>>
    /\ Go("pump", "blob")
    /\ UNCHANGED <<pass, costs, hasNode, uiVars, tpVars, netVars>>

\* Snapshot the first message on the propagation path without its blob; its
\* recipient's key is needed to encrypt it.
BlobSnapshot ==
    /\ At("pump", "blob") /\ Free
    /\ LET need == {m \in outbox : msg[m].via_pn /\ msg[m].pn_blob = "none"} IN
         IF need = {} \/ PeerOf[First(need)] \notin known
         THEN Go("pump", "want")
         ELSE task' = [task EXCEPT !["pump"] =
                [do |-> "seal", m |-> First(need),
                 packed |-> msg[First(need)].packed]]
    /\ UNCHANGED <<outbox, msg, verdict, pass, costs, hasNode, uiVars, tpVars,
                   netVars>>

BlobDone ==
    LET j == task["pump"] IN
    /\ At("pump", "seal") /\ Free
    /\ msg' = IF j.m \in outbox THEN [msg EXCEPT ![j.m].pn_blob = j.packed] ELSE msg
    /\ Go("pump", "want")
    /\ UNCHANGED <<outbox, verdict, pass, costs, hasNode, uiVars, tpVars,
                   netVars>>

-----------------------------------------------------------------------------
(* pump_outbox: one pass over the Vec under the lock, message by message.  *)

\* The pass's next message, if any, and whether thread th is at message m.
Ahead == {m \in outbox : m > pass.at}
OnMessage(th, m) == pass.by = th /\ Ahead # {} /\ m = First(Ahead)
Onward(m) == pass' = [pass EXCEPT !.at = m]     \* i += 1; continue

StartPass(th) ==
    /\ At(th, "want") /\ Free
    /\ pass' = [by |-> th, at |-> 0]
    /\ UNCHANGED <<outbox, msg, task, verdict, costs, hasNode, uiVars, tpVars,
                   netVars>>

\* The lock is released; the thread shows its failures next.
EndPass(th) ==
    /\ pass.by = th /\ Ahead = {}
    /\ pass' = [by |-> "none", at |-> 0]
    /\ Go(th, IF th = "pump" THEN "sleep" ELSE "idle")
    /\ UNCHANGED <<outbox, msg, verdict, costs, hasNode, uiVars, tpVars, netVars>>

CanEscalate(m) == ~msg[m].tried_pn /\ hasNode
Fail(th, m) == /\ Drop({m})
               /\ verdict' = [verdict EXCEPT ![th] = @ \cup {<<m, "failed">>}]

\* Still unstamped, or its time has not come (in flight or backing off).
PassSkip(th, m) ==
    /\ OnMessage(th, m)
    /\ \/ msg[m].needs_stamp # 0
       \/ msg[m].left >= 0 /\ msg[m].wait > 0
    /\ Onward(m)
    /\ UNCHANGED <<outbox, msg, task, verdict, costs, hasNode, uiVars, tpVars,
                   netVars>>

\* The direct phase may still fall back to the node.
MutNoBackstop(m) == FALSE
MutBackstopAgain(m) == CanEscalate(m)
Backstop(m) == ~msg[m].via_pn /\ CanEscalate(m)

\* The phase's budget is spent: the direct phase falls back to the node,
\* leaving in_flight as it is; otherwise the message fails.  A node that was
\* never reached loses its route.
PassDeadline(th, m) ==
    /\ OnMessage(th, m) /\ msg[m].needs_stamp = 0 /\ msg[m].left < 0
    /\ IF Backstop(m)
       THEN /\ msg' = [msg EXCEPT ![m].via_pn = TRUE,
                                  ![m].left = PROP_DEADLINE, ![m].wait = 0]
            /\ Onward(m)
            /\ UNCHANGED <<outbox, verdict, path>>
       ELSE /\ Fail(th, m)
            /\ path' = IF msg[m].via_pn /\ ~msg[m].tried_pn
                       THEN path \ {Node} ELSE path
            /\ UNCHANGED pass
    /\ UNCHANGED <<task, known, link, pend, back, costs, hasNode, events, asked,
                   uiVars, netVars>>

\* The message can be acted on now.
Due(th, m) == /\ OnMessage(th, m)
              /\ msg[m].needs_stamp = 0 /\ msg[m].left >= 0 /\ msg[m].wait = 0

\* Proofs over an outbound link validate only while the link is held.
WithoutLink(t) ==
    {k \in proofs : ~(IF k.via = "pn" THEN t = Node
                      ELSE k.via = "out" /\ PeerOf[k.m] = t)}

\* A direct send may be repeated.
MutOneMoreTry(m) == msg[m].attempts <= MAX_ATTEMPTS
MayRetry(m) == msg[m].attempts < MAX_ATTEMPTS

\* No proof in time: a direct send drops both directions and is sent again,
\* or the message escalates, or fails; a send to the node drops the node's
\* link, unless a sync runs on it (syncing).  Except on failure the same
\* iteration goes on to the send: the index stays.
PassProofTimeout(th, m) ==
    /\ Due(th, m) /\ msg[m].in_flight # NoFlight
    /\ LET peer == PeerOf[m]
           cleared == [msg EXCEPT ![m].in_flight = NoFlight] IN
       \/ /\ ~msg[m].via_pn /\ MayRetry(m)
          /\ msg' = cleared
          /\ back' = back \ {peer} /\ link' = link \ {peer}
          /\ proofs' = WithoutLink(peer)
          /\ UNCHANGED <<outbox, verdict>>
       \/ /\ ~msg[m].via_pn /\ ~MayRetry(m) /\ CanEscalate(m)
          /\ msg' = [cleared EXCEPT ![m].via_pn = TRUE, ![m].left = PROP_DEADLINE]
          /\ UNCHANGED <<outbox, verdict, back, link, proofs>>
       \/ /\ ~msg[m].via_pn /\ ~MayRetry(m) /\ ~CanEscalate(m)
          /\ Fail(th, m)
          /\ UNCHANGED <<back, link, proofs>>
       \/ /\ msg[m].via_pn
          /\ msg' = cleared
          /\ \E syncing \in BOOLEAN :
                IF syncing THEN UNCHANGED <<link, proofs>>
                ELSE link' = link \ {Node} /\ proofs' = WithoutLink(Node)
          /\ UNCHANGED <<outbox, verdict, back>>
    /\ UNCHANGED <<task, pass, known, path, pend, costs, hasNode, events, asked,
                   reached, uiVars>>

\* The message is to be sent on the propagation path, or directly.
Ready(th, m) == Due(th, m) /\ msg[m].in_flight = NoFlight
ReadyPn(th, m) == Ready(th, m) /\ msg[m].via_pn
ReadyDirect(th, m) == Ready(th, m) /\ ~msg[m].via_pn

Backoff(m, secs) == msg' = [msg EXCEPT ![m].wait = secs]

\* broadcast_out may fail to write; a packet for a reachable target may be
\* lost on either side of the write.
Written(ok) == IF ok THEN UNCHANGED events ELSE Event
Arrives(t, ok) == IF t \in Reachable THEN Written(ok) ELSE ~ok /\ UNCHANGED events

\* request_peer_key: a path request, answered by an announce.
Request(t, written) ==
    /\ Written(written)
    /\ asked' = IF written /\ t \in Reachable THEN asked \cup {t} ELSE asked

\* pending_link_to prunes every expired request before it looks.
Pruned == [t \in Targets |-> IF pend[t] = 1 THEN 0 ELSE pend[t]]

\* send_link_request: nothing is sent while a request is pending or a link is
\* up, and a failed write forgets the request.
send_link_request(t, written) ==
    LET sends == Pruned[t] = 0 /\ t \notin link IN
    /\ IF sends THEN Written(written) ELSE written /\ UNCHANGED events
    /\ pend' = IF sends /\ written
               THEN [Pruned EXCEPT ![t] = PENDING_LINK_EXPIRY + 2] ELSE Pruned

\* A packet or a Resource for m is built on a link, its receipt registered,
\* and its proof travels back if it arrives.  A link has one outbound
\* Resource: starting another replaces it.
Transmit(m, via, who, got) ==
    LET k == [m |-> m, n |-> msg[m].sends + 1, via |-> via]
        same == {x \in proofs : /\ m \in Large /\ x.m \in Large /\ x.via = via
                                /\ via = "pn" \/ PeerOf[x.m] = PeerOf[m]}
    IN /\ proofs' = (proofs \ same) \cup IF got THEN {k} ELSE {}
       /\ reached' = [reached EXCEPT ![m] = @ \cup IF got THEN {who} ELSE {}]

-----------------------------------------------------------------------------
(* The propagation branch of a pass.                                       *)

\* No key or no route for the node yet: ask, and come back.
PassPnAsk(th, m) ==
    /\ ReadyPn(th, m) /\ ~(Node \in known /\ Node \in path)
    /\ \E written \in BOOLEAN : Request(Node, written)
    /\ Backoff(m, KEY_RETRY) /\ Onward(m)
    /\ UNCHANGED <<outbox, task, verdict, known, path, link, pend, back, costs,
                   hasNode, uiVars, netVars>>

PassPnLink(th, m) ==
    /\ ReadyPn(th, m) /\ Node \in known /\ Node \in path /\ Node \notin link
    /\ \E written \in BOOLEAN : send_link_request(Node, written)
    /\ Backoff(m, LINK_RETRY) /\ Onward(m)
    /\ UNCHANGED <<outbox, task, verdict, known, path, link, back, costs,
                   hasNode, asked, uiVars, netVars>>

PnLinked(th, m) == ReadyPn(th, m) /\ {Node} \subseteq known \cap path \cap link

\* The blob is still being computed: wait a tick.
PassPnNoBlob(th, m) ==
    /\ PnLinked(th, m) /\ msg[m].pn_blob = "none"
    /\ Backoff(m, 1) /\ Onward(m)
    /\ UNCHANGED <<outbox, task, verdict, costs, hasNode, uiVars, tpVars,
                   netVars>>

PassPnSend(th, m) ==
    /\ PnLinked(th, m) /\ msg[m].pn_blob # "none"
    /\ \E got \in BOOLEAN : Arrives(Node, got) /\ Transmit(m, "pn", "node", got)
    /\ msg' = [msg EXCEPT
         ![m].in_flight = [m |-> m, n |-> msg[m].sends + 1, via |-> "pn"],
         ![m].sends = @ + 1, ![m].tried_pn = TRUE,
         ![m].wait = IF m \in Large THEN RESOURCE_RETRY ELSE PROOF_TIMEOUT]
    /\ Onward(m)
    /\ UNCHANGED <<outbox, task, verdict, costs, hasNode, uiVars, known, path,
                   link, pend, back, asked>>

\* The link went away between the look-up and the send.
PassPnVanished(th, m) ==
    /\ PnLinked(th, m) /\ msg[m].pn_blob # "none" /\ Event
    /\ link' = link \ {Node} /\ proofs' = WithoutLink(Node)
    /\ Backoff(m, 2) /\ Onward(m)
    /\ UNCHANGED <<outbox, task, verdict, known, path, pend, back, costs,
                   hasNode, asked, reached, uiVars>>

-----------------------------------------------------------------------------
(* The direct branch of a pass.                                            *)

\* Over our link to the peer, else over the peer's link to us.
PassDirectSend(th, m) ==
    LET peer == PeerOf[m]
        via == IF peer \in link THEN "out" ELSE "back" IN
    /\ ReadyDirect(th, m) /\ peer \in link \cup back
    /\ \E got \in BOOLEAN : Arrives(peer, got) /\ Transmit(m, via, "peer", got)
    /\ msg' = [msg EXCEPT
         ![m].in_flight = [m |-> m, n |-> msg[m].sends + 1, via |-> via],
         ![m].sends = @ + 1, ![m].attempts = @ + 1,
         ![m].wait = IF m \in Large THEN RESOURCE_RETRY ELSE DELIVERY_RETRY]
    /\ Onward(m)
    /\ UNCHANGED <<outbox, task, verdict, costs, hasNode, uiVars, known, path,
                   link, pend, back, asked>>

PassDirectVanished(th, m) ==
    /\ ReadyDirect(th, m) /\ PeerOf[m] \in link /\ Event
    /\ link' = link \ {PeerOf[m]} /\ proofs' = WithoutLink(PeerOf[m])
    /\ Backoff(m, 1) /\ Onward(m)
    /\ UNCHANGED <<outbox, task, verdict, known, path, pend, back, costs,
                   hasNode, asked, reached, uiVars>>

\* An idle or vanished back-channel is forgotten; the iteration goes on.
PassBackGone(th, m) ==
    /\ ReadyDirect(th, m) /\ PeerOf[m] \in back \ link /\ Event
    /\ back' = back \ {PeerOf[m]}
    /\ UNCHANGED <<outbox, msg, task, verdict, pass, known, path, link, pend,
                   costs, hasNode, asked, uiVars, netVars>>

Unlinked(th, m) == ReadyDirect(th, m) /\ PeerOf[m] \notin link \cup back

PassAskKey(th, m) ==
    /\ Unlinked(th, m) /\ PeerOf[m] \notin known
    /\ \E written \in BOOLEAN : Request(PeerOf[m], written)
    /\ Backoff(m, KEY_RETRY) /\ Onward(m)
    /\ UNCHANGED <<outbox, task, verdict, known, path, link, pend, back, costs,
                   hasNode, uiVars, netVars>>

\* Escalation inside the direct branch: the loop re-enters on this message.
MutSharedBudget(m) == msg' = [msg EXCEPT ![m].via_pn = TRUE, ![m].wait = 0]
EscalateNow(m) == msg' = [msg EXCEPT ![m].via_pn = TRUE,
                                     ![m].left = PROP_DEADLINE, ![m].wait = 0]

\* No route: a bounded number of requests that really left, then the node.
PassNoRoute(th, m) ==
    /\ Unlinked(th, m) /\ PeerOf[m] \in known \ path
    /\ IF msg[m].route_tries >= MAX_ROUTE_TRIES /\ CanEscalate(m)
       THEN EscalateNow(m) /\ UNCHANGED <<pass, asked, events>>
       ELSE /\ \E written \in BOOLEAN :
                 /\ Request(PeerOf[m], written)
                 /\ msg' = [msg EXCEPT ![m].wait = KEY_RETRY,
                              ![m].route_tries = IF written THEN @ + 1 ELSE @]
            /\ Onward(m)
    /\ UNCHANGED <<outbox, task, verdict, known, path, link, pend, back, costs,
                   hasNode, uiVars, netVars>>

\* Without a node the direct route is tried afresh.
StartOver(x) == [x EXCEPT !.link_tries = 0, !.wait = 1]

\* The link request went unanswered: expire the route, rediscover it a bounded
\* number of times, then the node, or start over without one.
PassLinkFailed(th, m) ==
    /\ Unlinked(th, m) /\ PeerOf[m] \in known \cap path
    /\ Pruned[PeerOf[m]] = 0 /\ msg[m].link_tries >= MAX_LINK_TRIES
    /\ pend' = Pruned
    /\ path' = path \ {PeerOf[m]}
    /\ \/ /\ msg[m].direct_rounds < MAX_DIRECT_ROUNDS
          /\ msg' = [msg EXCEPT ![m].direct_rounds = @ + 1, ![m].wait = 1,
                                ![m].link_tries = 0, ![m].route_tries = 0]
          /\ Onward(m)
       \/ /\ msg[m].direct_rounds >= MAX_DIRECT_ROUNDS /\ CanEscalate(m)
          /\ EscalateNow(m) /\ UNCHANGED pass
       \/ /\ msg[m].direct_rounds >= MAX_DIRECT_ROUNDS /\ ~CanEscalate(m)
          /\ msg' = [msg EXCEPT ![m] = StartOver(@)]
          /\ Onward(m)
    /\ UNCHANGED <<outbox, task, verdict, known, link, back, costs, hasNode,
                   events, asked, uiVars, netVars>>

\* Ask for a link; only a request that left counts as a try.
PassLink(th, m) ==
    LET peer == PeerOf[m] IN
    /\ Unlinked(th, m) /\ peer \in known \cap path
    /\ Pruned[peer] # 0 \/ msg[m].link_tries < MAX_LINK_TRIES
    /\ \E written \in BOOLEAN :
         /\ send_link_request(peer, written)
         /\ msg' = [msg EXCEPT ![m].wait = 2,
              ![m].link_tries = IF Pruned[peer] = 0 /\ written THEN @ + 1 ELSE @]
    /\ Onward(m)
    /\ UNCHANGED <<outbox, task, verdict, known, path, link, back, costs,
                   hasNode, asked, uiVars, netVars>>

PassStep(th) ==
    \E m \in outbox :
      \/ PassSkip(th, m) \/ PassDeadline(th, m) \/ PassProofTimeout(th, m)
      \/ PassPnAsk(th, m) \/ PassPnLink(th, m) \/ PassPnNoBlob(th, m)
      \/ PassPnSend(th, m) \/ PassPnVanished(th, m)
      \/ PassDirectSend(th, m) \/ PassDirectVanished(th, m) \/ PassBackGone(th, m)
      \/ PassAskKey(th, m) \/ PassNoRoute(th, m)
      \/ PassLinkFailed(th, m) \/ PassLink(th, m)

-----------------------------------------------------------------------------
(* The readers: one inbound packet at a time.                              *)

\* An announce teaches the key, the route and (a peer's) stamp cost.  The
\* cost is looked up again and the outbox swept later, each under its own lock.
Announce(r, t) ==
    /\ At(r, "idle") /\ t \in Reachable
    /\ Event \/ (t \in asked /\ UNCHANGED events)
    /\ known' = known \cup {t} /\ path' = path \cup {t}
    /\ asked' = asked \ {t}
    /\ IF t = Node THEN UNCHANGED <<costs, task, draft>>
       ELSE /\ \E c \in Costs : costs' = [costs EXCEPT ![t] = c]
            /\ task' = [task EXCEPT ![r] = [do |-> "announce", peer |-> t]]
            /\ draft' = IF draft # NoDraft /\ PeerOf[draft.m] = t
                        THEN [draft EXCEPT !.overtaken = TRUE] ELSE draft
    /\ UNCHANGED <<outbox, msg, bubble, active, held, verdict, pass, link, pend,
                   back, hasNode, netVars>>

\* After the contact is saved and a cached ticket verified.
LookUpCost(r) ==
    /\ At(r, "announce")
    /\ task' = [task EXCEPT ![r] =
          [do |-> "sweep", peer |-> task[r].peer, cost |-> costs[task[r].peer]]]
    /\ UNCHANGED <<outbox, msg, verdict, pass, costs, hasNode, uiVars, tpVars,
                   netVars>>

\* The messages an announce may re-arm.
MutAnySent(peer) == To(peer)
MutNotRouted(peer) == {m \in To(peer) : msg[m].attempts = 0
                                        /\ msg[m].in_flight = NoFlight
                                        /\ msg[m].route_tries = 0}
NeverSent(peer) == {m \in To(peer) : msg[m].attempts = 0
                                     /\ msg[m].in_flight = NoFlight}

\* What a sweep with that cost leaves of such an entry: a stamp is asked for
\* unless it has a ticket's or awaits one already.
Swept(x, cost) ==
    [x EXCEPT !.wait = 0, !.overtaken = @ /\ cost = 0,
       !.needs_stamp = IF cost # 0 /\ ~x.stamped /\ @ = 0 THEN cost ELSE @]

\* Messages for the announcer that were never sent act now, after mining a
\* stamp if they have none.
OutboxOnAnnounce(r) ==
    LET j == task[r] IN
    /\ At(r, "sweep") /\ Free
    /\ msg' = [m \in Msgs |-> IF m \in NeverSent(j.peer)
                              THEN Swept(msg[m], j.cost) ELSE msg[m]]
    /\ Go(r, IF NeverSent(j.peer) # {} THEN "want" ELSE "idle")
    /\ UNCHANGED <<outbox, verdict, pass, costs, hasNode, uiVars, tpVars,
                   netVars>>

\* The proof of a link we asked for: it is up, and the outbox is pumped.
OutboundLinkUp(r, t) ==
    /\ At(r, "idle") /\ t \in Reachable /\ pend[t] # 0
    /\ pend' = [pend EXCEPT ![t] = 0] /\ link' = link \cup {t}
    /\ Go(r, "want")
    /\ UNCHANGED <<outbox, msg, verdict, pass, known, path, back, costs,
                   hasNode, events, asked, uiVars, netVars>>

\* A peer identifies on its link to us: a back-channel and a key.
LinkIdentified(r, p) ==
    /\ At(r, "idle") /\ p \in Reachable \cap Peers /\ Event
    /\ known' = known \cup {p} /\ back' = back \cup {p}
    /\ Go(r, "want")
    /\ UNCHANGED <<outbox, msg, verdict, pass, path, link, pend, costs, hasNode,
                   asked, uiVars, netVars>>

\* A delivery proof validates against its receipt and link.
ProofArrives(r, k) ==
    /\ At(r, "idle")
    /\ proofs' = proofs \ {k}
    /\ task' = [task EXCEPT ![r] = [do |-> "delivered", packet |-> k]]
    /\ UNCHANGED <<outbox, msg, verdict, pass, costs, hasNode, reached, uiVars,
                   tpVars>>

\* The message a packet's proof is for, and the verdict it earns.
MutByLink(k) == {m \in outbox : msg[m].in_flight.via = k.via}
ProvenBy(k) == {m \in outbox : msg[m].in_flight = k}
MutByAttempts(m) == IF msg[m].attempts = 0 THEN "queued" ELSE "delivered"
StatusOf(m) == IF msg[m].via_pn THEN "queued" ELSE "delivered"

\* The message in flight under that packet is done; any other proof is late.
mark_delivered(r) ==
    /\ At(r, "delivered") /\ Free
    /\ LET done == ProvenBy(task[r].packet) IN
         /\ Drop(done)
         /\ verdict' = [verdict EXCEPT ![r] = {<<m, StatusOf(m)>> : m \in done}]
    /\ Go(r, "idle")
    /\ UNCHANGED <<pass, costs, hasNode, uiVars, tpVars, netVars>>

-----------------------------------------------------------------------------
(* Losses and time.                                                        *)

\* A link to t is closed, evicted, or dropped by a sync.
LinkLost(t) ==
    /\ Event /\ t \in link
    /\ link' = link \ {t} /\ proofs' = WithoutLink(t)
    /\ UNCHANGED <<outbox, msg, task, verdict, pass, known, path, pend, back,
                   costs, hasNode, asked, reached, uiVars>>

\* A peer closes the link its back-channel rides on.
InLinkClosed(p) ==
    /\ Event /\ p \in back
    /\ back' = back \ {p}
    /\ proofs' = {k \in proofs : ~(k.via = "back" /\ PeerOf[k.m] = p)}
    /\ UNCHANGED <<outbox, msg, task, verdict, pass, known, path, link, pend,
                   costs, hasNode, asked, reached, uiVars>>

\* The hub connection drops: links, requests and receipts go, keys and routes
\* stay.
connection_reset ==
    /\ Event
    /\ link \cup back # {} \/ \E t \in Targets : pend[t] # 0
    /\ link' = {} /\ back' = {} /\ proofs' = {}
    /\ pend' = [t \in Targets |-> 0]
    /\ UNCHANGED <<outbox, msg, task, verdict, pass, known, path, costs,
                   hasNode, asked, reached, uiVars>>

\* A thread's step is far shorter than a second, mining aside; a pass samples
\* the clock once.
Settled == /\ Free
           /\ \A th \in Threads : verdict[th] = {}
           /\ \A r \in Readers : task[r].do = "idle"
           /\ task["pump"].do \in {"sleep", "mine", "seal"}

\* Nothing a reachable target owes is outstanding.
Answered == /\ asked = {} /\ proofs = {}
            /\ \A t \in Reachable : pend[t] <= 1
            /\ task["pump"].do = "sleep"

Tick ==
    /\ outbox # {} /\ Settled /\ (Prompt => Answered)
    /\ msg' = [m \in Msgs |->
         IF m \notin outbox THEN msg[m]
         ELSE [msg[m] EXCEPT !.wait = IF @ = 0 THEN 0 ELSE @ - 1,
                             !.left = IF @ < 0 THEN @ ELSE @ - 1]]
    /\ pend' = [t \in Targets |-> IF pend[t] <= 1 THEN pend[t] ELSE pend[t] - 1]
    /\ task' = [task EXCEPT !["pump"].do = IF @ = "sleep" THEN "awake" ELSE @]
    /\ UNCHANGED <<outbox, verdict, pass, known, path, link, back, costs,
                   hasNode, events, asked, uiVars, netVars>>

UiStep == \/ \E m \in Msgs : Post(m)
          \/ enqueue_outbound
          \/ \E p \in Peers : activate_peer(p) \/ clear_history(p)
PumpStep == PumpWake \/ StampSnapshot \/ StampDone \/ BlobSnapshot \/ BlobDone
ReaderStep(r) ==
    \/ \E t \in Targets : Announce(r, t) \/ OutboundLinkUp(r, t)
    \/ \E p \in Peers : LinkIdentified(r, p)
    \/ \E k \in proofs : ProofArrives(r, k)
    \/ LookUpCost(r) \/ OutboxOnAnnounce(r) \/ mark_delivered(r)
Loss == \/ \E t \in Targets : LinkLost(t)
        \/ \E p \in Peers : InLinkClosed(p)
        \/ connection_reset

Next ==
    \/ UiStep \/ PumpStep
    \/ \E r \in Readers : ReaderStep(r)
    \/ \E th \in Threads : update_mark(th) \/ StartPass(th) \/ PassStep(th) \/ EndPass(th)
    \/ Loss \/ Tick

Spec == Init /\ [][Next]_vars

\* Fairness.  Threads keep running; plock polls a mutex that is free again and
\* again, so a thread that keeps trying gets it (strong fairness); time passes.
\* Nothing is assumed of the network or of the user.
ThreadFairness ==
    /\ SF_vars(PumpStep)
    /\ \A th \in Threads : /\ WF_vars(update_mark(th)) /\ SF_vars(StartPass(th))
                           /\ WF_vars(PassStep(th)) /\ WF_vars(EndPass(th))
    /\ SF_vars(enqueue_outbound)
    /\ \A r \in Readers : /\ WF_vars(LookUpCost(r))
                          /\ SF_vars(OutboxOnAnnounce(r) \/ mark_delivered(r))
    /\ SF_vars(Tick)
FairSpec == Spec /\ ThreadFairness

\* A prompt network also answers what it is asked.
PromptSpec ==
    /\ FairSpec
    /\ \A r \in Readers, t \in Targets :
          SF_vars(Announce(r, t)) /\ SF_vars(OutboundLinkUp(r, t))
    /\ \A r \in Readers : SF_vars(\E k \in proofs : ProofArrives(r, k))

-----------------------------------------------------------------------------
(* Properties.                                                             *)

Flights == {NoFlight} \cup [m : Msgs, n : Nat \ {0}, via : {"out", "back", "pn"}]
Drafts == {NoDraft} \cup
          [m : Msgs, cost : 0..2, ticket : BOOLEAN, overtaken : BOOLEAN]
OutboundMsg ==
    [needs_stamp : 0..2, stamped : BOOLEAN, overtaken : BOOLEAN,
     packed : {"bare", "stamped"}, pn_blob : {"none", "bare", "stamped"},
     via_pn : BOOLEAN, tried_pn : BOOLEAN, in_flight : Flights, sends : Nat,
     attempts : 0..MAX_ATTEMPTS, route_tries : Nat,
     link_tries : 0..MAX_LINK_TRIES, direct_rounds : 0..MAX_DIRECT_ROUNDS,
     wait : Nat, left : Nat \cup {-1}]
Jobs == [do : {"mine"}, m : Msgs, packed : {"bare", "stamped"}, cost : 1..2]
        \cup [do : {"seal"}, m : Msgs, packed : {"bare", "stamped"}]
Tasks(th) ==
    IF th = "pump"
    THEN [do : {"sleep", "awake", "stamp", "blob", "want"}] \cup Jobs
    ELSE [do : {"idle", "want"}] \cup [do : {"announce"}, peer : Peers]
         \cup [do : {"sweep"}, peer : Peers, cost : 0..2]
         \cup [do : {"delivered"}, packet : Flights]

\* Every field keeps its type, and the delivery budgets hold: at most
\* MAX_ATTEMPTS direct sends, MAX_LINK_TRIES link requests per route and
\* MAX_DIRECT_ROUNDS rediscoveries of a route.
TypeOK ==
    /\ outbox \subseteq Msgs /\ msg \in [Msgs -> OutboundMsg]
    /\ bubble \in [Msgs -> {"none", "pending", "cleared"} \cup Verdicts]
    /\ active \in Peers /\ draft \in Drafts /\ held \subseteq Msgs \X Verdicts
    /\ DOMAIN task = Threads /\ \A th \in Threads : task[th] \in Tasks(th)
    /\ verdict \in [Threads -> SUBSET (Msgs \X Verdicts)]
    /\ pass \in [by : Threads \cup {"none"}, at : Msgs \cup {0}]
    /\ known \subseteq Targets /\ path \subseteq Targets /\ link \subseteq Targets
    /\ back \subseteq Peers /\ asked \subseteq Targets
    /\ pend \in [Targets -> Nat] /\ costs \in [Peers -> 0..2]
    /\ events \in 0..MaxEvents /\ proofs \subseteq Flights \ {NoFlight}
    /\ reached \in [Msgs -> SUBSET {"peer", "node"}]

\* Where a message's fate lies: in post's hands, the outbox, a thread about to show a verdict,
\* or a verdict held for a dialogue that is not shown.
Places(m) ==
    {x \in {<<"draft", "none">>} : m = draft.m}
    \cup {x \in {<<"outbox", "none">>} : m \in outbox}
    \cup {x \in Threads \X Verdicts : <<m, x[2]>> \in verdict[x[1]]}
    \cup {x \in {"held"} \X Verdicts : <<m, x[2]>> \in held}

\* No message is lost and none gets two verdicts: while its bubble is pending
\* its fate lies in exactly one place, whichever of the pump, a proof, a
\* failed stamp or the deadline got to it first, and once the bubble shows a
\* verdict nothing is left that could change it (mark_delivered, pump_outbox,
\* compute_pending_delivery_stamp, update_mark, apply_delivery_updates).
OneFate ==
    \A m \in Msgs :
      /\ bubble[m] = "pending" => Cardinality(Places(m)) = 1
      /\ bubble[m] \in Verdicts \cup {"none"} => Places(m) = {}
      /\ bubble[m] = "cleared" => m \notin outbox

\* The delivered mark is only shown for a message that reached its peer, and
\* the queued mark for one that reached somebody, whatever was retried,
\* escalated or proved late meanwhile (mark_delivered).
MarkIsTrue ==
    \A m \in Msgs : /\ bubble[m] = "delivered" => "peer" \in reached[m]
                    /\ bubble[m] = "queued" => reached[m] # {}

\* A message that awaits its stamp has not been sent and nothing of it is in
\* flight, and while the pump thread mines on its snapshot the entry it will
\* find again is still the one it copied: storing the stamped bytes
\* overwrites nothing newer (compute_pending_delivery_stamp against the
\* announce handler and the passes of the readers).
SnapshotIsFresh ==
    LET j == task["pump"] IN
    /\ \A m \in outbox : msg[m].needs_stamp # 0 =>
          msg[m].attempts = 0 /\ msg[m].in_flight = NoFlight
    /\ (j.do = "mine" /\ j.m \in outbox) =>
          /\ msg[j.m].needs_stamp = j.cost
          /\ msg[j.m].packed = j.packed

\* A reader has stored an announce of p and has yet to sweep the outbox with
\* the cost in force.
Sweeping(p) ==
    \E r \in Readers : \/ task[r].do = "announce" /\ task[r].peer = p
                       \/ task[r].do = "sweep" /\ task[r].peer = p /\ task[r].cost # 0

\* A message's first direct send to a peer that announces a stamp cost carries
\* a stamp, from a ticket or mined, however posting, announces, mining and the
\* passes of all threads interleave: the peer would drop it otherwise
\* (post, the announce handler, compute_pending_delivery_stamp, pump_outbox).
\* The code leaves two windows, and the property excepts exactly these: a pass
\* may send while the announce's handler has stored the cost and not yet swept
\* the outbox, and a message that was overtaken, its peer's announce stored
\* between post's look at the cost and the push, is bare until that peer's
\* next sweep.  Nothing is said of later sends of a message first sent
\* before the cost was known, of which cost the stamp was mined for, or of
\* the blob for the node.
StampBeforeSend ==
    [][\A m \in outbox \cap outbox' :
          /\ msg[m].attempts = 0 /\ msg'[m].attempts = 1
          /\ costs[PeerOf[m]] # 0
          => \/ msg[m].packed = "stamped"
             \/ msg[m].overtaken \/ Sweeping(PeerOf[m])]_vars

\* With a propagation node configured, no pass gives a message up before it
\* has been handed to the propagation branch (the per-stage escalations and
\* the deadline's backstop in pump_outbox).
NodeBeforeFailure ==
    [][\A m \in outbox \ outbox' :
          pass.by # "none" /\ hasNode => msg[m].via_pn]_vars

\* Every message gets its verdict: the retries, rediscoveries, escalations
\* and stamps of a message cannot go on for ever, whatever the network does.
EveryMessageSettles ==
    \A m \in Msgs : bubble[m] = "pending" /\ m \in outbox ~> m \notin outbox

\* A message for a peer that is never reachable ends up stored at a reachable
\* propagation node, not failed: each phase's budget leaves room for the
\* escalation, the node's route, its link, the blob and the proof.  It is
\* stated for recipients whose key is known and who ask for no stamp: without
\* the key no blob can be sealed, and the message fails at its deadline.
StoredWhenOffline ==
    \A m \in Msgs :
      /\ PeerOf[m] \notin Reachable /\ hasNode /\ Node \in Reachable
      => (bubble[m] = "pending"
          ~> bubble[m] \in {"queued", "cleared"} \/ <<m, "queued">> \in held)

=============================================================================
