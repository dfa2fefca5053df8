-------------------------------- MODULE Sync --------------------------------
(***************************************************************************)
(* Downloading stored messages from the propagation node                   *)
(* (apps/lxmfchat/src/net.rs): link up, identify and ask for the list of   *)
(* message ids, ask for the messages, hand each to deliver_lxmf, tell the  *)
(* node which ones it may delete.                                          *)
(*                                                                         *)
(* One SyncState, behind one mutex, is driven by several threads, each of  *)
(* which takes the mutex anew for every look and every update:             *)
(*   - the sync thread wakes once a second (maybe_auto_sync, start_sync);  *)
(*   - the readers handle link proofs, answers and closed links; the one   *)
(*     of the hub is the connection manager, which also ends the sync when *)
(*     the connection drops.                                               *)
(* A step is what a thread does between two acquisitions of a mutex that   *)
(* another thread can change something under.  The transport keeps at most *)
(* one link to the node or one request for it, whoever asked: the outbox   *)
(* asks too.  Times are relative, as in Outbox.                            *)
(*                                                                         *)
(* An answer is a list of message ids, a batch of messages or an error, in *)
(* one packet or as a Resource; nothing in it says which request it is     *)
(* for.  An id taken for a message does not decrypt, a message taken for   *)
(* an id is no id the node knows.                                          *)
(***************************************************************************)
EXTENDS Integers, Sequences, FiniteSets

CONSTANTS
    Msgs,               \* the messages waiting at the node
    Readers,            \* the threads that run handle_frame ...
    Hub,                \* ... and the one among them that is the manager
    SYNC_DEADLINE_SECS, SYNC_ROUTE_RETRY_SECS, SYNC_ROUTE_TRIES,
    PN_PROBE_RETRY_SECS,
    MaxLinks,           \* link ids, taken again when nothing refers to them
    MaxRequests,        \* bound on the user's requests
    MaxEvents           \* bound on losses and on what others do unasked

ASSUME SyncTimes ==
    {SYNC_DEADLINE_SECS, SYNC_ROUTE_RETRY_SECS, SYNC_ROUTE_TRIES,
     PN_PROBE_RETRY_SECS, MaxLinks} \subseteq Nat \ {0}
ASSUME SyncThreads == "sync" \notin Readers /\ Hub \in Readers

VARIABLES
    sync,       \* shared.sync
    work,       \* what each thread is doing
    iface,      \* any_interface_up
    known,      \* transport: the node's key is known
    path,       \* transport: there is a route to it
    pend,       \* transport: the link a LINKREQUEST is out for, 0 if none
    up,         \* transport: the established link to the node, 0 if none
    via,        \* the reader whose interface carries that link
    asked,      \* a path request is out
    toNode,     \* requests on their way to the node
    fromNode,   \* its answers on their way to us, on the link that is up
    store,      \* the messages the node still has
    got,        \* ghost: messages deliver_synced_message has dealt with
    overlap,    \* ghost: two threads were at work at once on this sync or its link
    calm,       \* ghost: no event has happened and no sync has hit its deadline
    requests, events

link == <<pend, up, via>>
route == <<iface, known, path, asked>>
node == <<toNode, fromNode, store>>
bounds == <<calm, requests, events>>
vars == <<sync, work, link, route, node, got, overlap, bounds>>

Threads == {"sync"} \cup Readers
NoAns == [kind |-> "none", ids |-> {}]
Rest == [at |-> "rest", l |-> 0, ans |-> NoAns]

\* Where a thread has decided nothing about the sync yet.
Sampling == {"rest", "retry", "start", "begin", "lost"}
Step(th, w) ==
    /\ work' = [work EXCEPT ![th] = w]
    /\ overlap' = (overlap \/ (w.at \notin Sampling /\ \E o \in Threads \ {th} :
                                                 work[o].at \notin Sampling))
At(th, s) == work[th].at = s
Goto(th, s) == Step(th, [work[th] EXCEPT !.at = s])
Done(th) == Step(th, Rest)

Event ==
    /\ events < MaxEvents /\ events' = events + 1
    /\ calm' = FALSE /\ UNCHANGED requests

\* Link ids that nothing refers to: a link id is a hash and never comes again.
Unused == {l \in 1..MaxLinks :
    /\ l \notin {sync.link, pend, up}
    /\ \A th \in Threads : work[th].l # l
    /\ \A i \in DOMAIN toNode : toNode[i].l # l}
NewLink == Unused # {} /\ pend' = CHOOSE l \in Unused : TRUE

\* A packet on link l goes out if the transport has the link.
Send(l, req, ids) ==
    toNode' = IF up = l THEN Append(toNode, [l |-> l, req |-> req, ids |-> ids])
              ELSE toNode

Init ==
    /\ sync = [phase |-> "Idle", link |-> 0, receiver |-> NoAns, left |-> 0,
               auto_done |-> FALSE, requested |-> FALSE, wait |-> 0,
               route_tries |-> 0, probe |-> 0]
    /\ work = [th \in Threads |-> Rest]
    /\ iface = FALSE /\ known \in BOOLEAN /\ path = FALSE /\ asked = FALSE
    /\ pend = 0 /\ up = 0 /\ via \in Readers
    /\ toNode = <<>> /\ fromNode = <<>> /\ store = Msgs
    /\ got = {} /\ overlap = FALSE /\ calm = TRUE
    /\ requests = 0 /\ events = 0

-----------------------------------------------------------------------------
(* sync_finish, in whichever thread.                                       *)

Finish(th) ==
    /\ At(th, "finish")
    /\ sync' = [sync EXCEPT !.phase = "Idle", !.receiver = NoAns, !.link = 0,
                            !.requested = FALSE, !.route_tries = 0]
    /\ Step(th, [Rest EXCEPT !.at = "drop", !.l = sync.link])
    /\ UNCHANGED <<link, route, node, got, bounds>>

DropOutLink(th) ==
    /\ At(th, "drop")
    /\ IF work[th].l # 0 /\ work[th].l = up THEN up' = 0 /\ fromNode' = <<>>
                                            ELSE UNCHANGED <<up, fromNode>>
    /\ Done(th)
    /\ UNCHANGED <<sync, pend, via, route, toNode, store, got, bounds>>

(* sync_send_identify_and_list, in the sync thread or a reader.            *)

IdentifyAndList(th) ==
    /\ At(th, "list")
    /\ sync' = [sync EXCEPT !.phase = "ListRequested"]
    /\ Goto(th, "send")
    /\ UNCHANGED <<link, route, node, got, bounds>>

SendList(th) ==
    /\ At(th, "send")
    /\ Send(work[th].l, "list", {})
    /\ Done(th)
    /\ UNCHANGED <<sync, link, route, fromNode, store, got, bounds>>

-----------------------------------------------------------------------------
(* The sync thread: a second passes and maybe_auto_sync looks around.  Its   *)
(* looks are one step: only this thread starts a sync or sets the deadline, *)
(* and whatever it goes on to do looks again.  Other threads may be slow:   *)
(* they are anywhere in their work when the second is over.                 *)

Less(n) == IF n = 0 THEN 0 ELSE n - 1
MutLater == [sync EXCEPT !.left = @ - 1, !.wait = Less(@), !.probe = Less(@)]
Later == [sync EXCEPT !.left = IF @ < 0 \/ sync.phase = "Idle" THEN @ ELSE @ - 1,
                      !.wait = Less(@), !.probe = Less(@)]
Stalled == Later.phase # "Idle" /\ Later.left < 0
TakesRequest == Later.requested /\ Later.wait = 0

\* A stalled sync ends; if it never had its link, the route goes first.
WakeStalled ==
    /\ At("sync", "rest") /\ Stalled
    /\ sync' = Later
    /\ Goto("sync", IF sync.phase = "Linking" THEN "expire" ELSE "finish")
    /\ calm' = FALSE
    /\ UNCHANGED <<link, route, node, got, requests, events>>

WakeLinking ==
    /\ At("sync", "rest") /\ ~Stalled /\ sync.phase = "Linking"
    /\ sync' = Later
    /\ Goto("sync", "retry")
    /\ UNCHANGED <<link, route, node, got, bounds>>

WakeRequested ==
    /\ At("sync", "rest") /\ ~Stalled /\ sync.phase # "Linking" /\ TakesRequest
    /\ sync' = [Later EXCEPT !.requested = FALSE]
    /\ Goto("sync", "start")
    /\ UNCHANGED <<link, route, node, got, bounds>>

\* Nothing else to do: the automatic sync, once the node's route is known; a
\* probe for the route until then.
WakeAuto ==
    /\ At("sync", "rest") /\ ~Stalled /\ sync.phase # "Linking" /\ ~TakesRequest
    /\ LET auto == ~sync.auto_done /\ sync.phase = "Idle"
           ready == known /\ path
           probe == iface /\ Later.probe = 0
       IN  \/ /\ auto /\ ready
              /\ sync' = [Later EXCEPT !.auto_done = TRUE]
              /\ Goto("sync", "start") /\ UNCHANGED asked
           \/ /\ auto /\ ~ready /\ probe
              /\ sync' = [Later EXCEPT !.probe = PN_PROBE_RETRY_SECS]
              /\ asked' = TRUE /\ Done("sync")
           \/ /\ ~auto \/ ~(ready \/ probe)
              /\ sync' = Later /\ Done("sync") /\ UNCHANGED asked
    /\ UNCHANGED <<link, iface, known, path, node, got, bounds>>

ExpirePath ==
    /\ At("sync", "expire")
    /\ path' = FALSE
    /\ Goto("sync", "finish")
    /\ UNCHANGED <<sync, link, iface, known, asked, node, got, bounds>>

MutSendLinkRequest ==
    \/ pend # 0 /\ Done("sync") /\ UNCHANGED <<pend, bounds>>
    \/ pend = 0 /\ NewLink /\ Done("sync") /\ UNCHANGED bounds

\* send_link_request: nothing while one is pending or the link is up; a request
\* that could not be written is forgotten again and ends the sync.
SendLinkRequest ==
    \/ /\ pend # 0 \/ up # 0
       /\ Done("sync") /\ UNCHANGED <<pend, bounds>>
    \/ /\ pend = 0 /\ up = 0 /\ iface
       /\ NewLink /\ Done("sync") /\ UNCHANGED bounds
    \/ /\ pend = 0 /\ up = 0
       /\ Event \/ (~iface /\ UNCHANGED bounds)
       /\ Goto("sync", "finish") /\ UNCHANGED pend

MutRetry ==
    /\ At("sync", "retry") /\ SendLinkRequest
    /\ sync' = [sync EXCEPT !.left = SYNC_DEADLINE_SECS]
    /\ UNCHANGED <<up, via, route, node, got>>

\* Nothing without the node's key, which the transport may have evicted.
Retry ==
    /\ At("sync", "retry")
    /\ \/ known /\ SendLinkRequest
       \/ ~known /\ Done("sync") /\ UNCHANGED <<pend, bounds>>
    /\ UNCHANGED <<sync, up, via, route, node, got>>

(* The sync thread: start_sync.                                            *)

Tries == sync.route_tries + 1

\* Not while a sync is running.  Without interface, key or route the request is
\* armed again, a bounded number of times, and the network asked for the node.
StartSync ==
    /\ At("sync", "start")
    /\ LET ready == iface /\ known /\ path
           give_up == Tries > SYNC_ROUTE_TRIES
       IN  \/ sync.phase # "Idle" /\ Done("sync") /\ UNCHANGED <<sync, asked>>
           \/ /\ sync.phase = "Idle" /\ ready
              /\ Goto("sync", "begin") /\ UNCHANGED <<sync, asked>>
           \/ /\ sync.phase = "Idle" /\ ~ready /\ give_up
              /\ sync' = [sync EXCEPT !.route_tries = Tries]
              /\ Goto("sync", "finish") /\ UNCHANGED asked
           \/ /\ sync.phase = "Idle" /\ ~ready /\ ~give_up
              /\ sync' = [sync EXCEPT !.route_tries = Tries, !.requested = TRUE,
                                      !.wait = SYNC_ROUTE_RETRY_SECS]
              /\ asked' = (asked \/ iface) /\ Done("sync")
    /\ UNCHANGED <<link, iface, known, path, node, got, bounds>>

BeginLinking ==
    /\ At("sync", "begin")
    /\ sync' = [sync EXCEPT !.phase = "Linking", !.receiver = NoAns, !.link = 0,
                            !.left = SYNC_DEADLINE_SECS, !.route_tries = 0,
                            !.wait = 0]
    /\ work' = [work EXCEPT !["sync"].at = "lookup"]
    /\ overlap' = \/ overlap /\ up # 0
                  \/ \E o \in Threads \ {"sync"} : work[o].at \notin Sampling
    /\ UNCHANGED <<link, route, node, got, bounds>>

MutLookup ==
    /\ At("sync", "lookup")
    /\ Goto("sync", "ask")
    /\ UNCHANGED <<sync, link, route, node, got, bounds>>

\* An established link is used at once, otherwise one is asked for.
Lookup ==
    /\ At("sync", "lookup")
    /\ IF up # 0 THEN Step("sync", [Rest EXCEPT !.at = "have", !.l = up])
                 ELSE Goto("sync", "ask")
    /\ UNCHANGED <<sync, link, route, node, got, bounds>>

UseLink ==
    /\ At("sync", "have")
    /\ sync' = [sync EXCEPT !.link = work["sync"].l]
    /\ Goto("sync", "list")
    /\ UNCHANGED <<link, route, node, got, bounds>>

AskLink ==
    /\ At("sync", "ask") /\ SendLinkRequest
    /\ UNCHANGED <<sync, up, via, route, node, got>>

-----------------------------------------------------------------------------
(* The readers.                                                            *)

\* The node's proof of the link: the transport has it first ...
LinkProof(r) ==
    /\ At(r, "rest") /\ pend # 0
    /\ up' = pend /\ pend' = 0 /\ via' = r /\ fromNode' = <<>>
    /\ Step(r, [Rest EXCEPT !.at = "linkup", !.l = pend])
    /\ UNCHANGED <<sync, route, toNode, store, got, bounds>>

\* ... and then the sync hears of it.
OnLinkUp(r) ==
    /\ At(r, "linkup")
    /\ IF sync.phase = "Linking"
       THEN sync' = [sync EXCEPT !.link = work[r].l] /\ Goto(r, "list")
       ELSE UNCHANGED sync /\ Done(r)
    /\ UNCHANGED <<link, route, node, got, bounds>>

\* The next packet on the link.  Data counts only on the link of a sync under
\* way; a part only while there is a receiver.
Receive(r) ==
    /\ At(r, "rest") /\ fromNode # <<>> /\ via = r
    /\ LET ans == Head(fromNode)
           ours == sync.link = up /\ sync.phase # "Idle"
       IN  /\ ans.form # "close"
           /\ IF ours /\ (ans.form = "part" => sync.receiver # NoAns)
              THEN Step(r, [at |-> ans.form, l |-> up, ans |-> ans]) ELSE Done(r)
    /\ fromNode' = Tail(fromNode)
    /\ UNCHANGED <<sync, link, route, toNode, store, got, bounds>>

\* The node closes the link: the sync on it is over.
OutLinkClosed(r) ==
    /\ At(r, "rest") /\ fromNode # <<>> /\ via = r
    /\ Head(fromNode).form = "close"
    /\ up' = 0 /\ fromNode' = <<>>
    /\ IF sync.phase # "Idle" /\ sync.link = up THEN Goto(r, "finish") ELSE Done(r)
    /\ UNCHANGED <<sync, pend, via, route, toNode, store, got, bounds>>

\* The answer comes as a Resource: it is accepted and its parts are asked for.
Advertised(r) ==
    /\ At(r, "adv")
    /\ \/ /\ sync' = [sync EXCEPT !.receiver = work[r].ans]
          /\ Send(work[r].l, "parts", {}) /\ Done(r) /\ UNCHANGED bounds
       \/ /\ Event /\ Goto(r, "finish") /\ UNCHANGED <<sync, toNode>>
    /\ UNCHANGED <<link, route, fromNode, store, got>>

\* The last part.  The mutex is released between completing, assembling,
\* checking and dropping the receiver, which may be gone at each.
AssembleAnswer(r) ==
    /\ At(r, "part")
    /\ \/ sync.receiver = NoAns /\ Done(r)
       \/ sync.receiver # NoAns /\ up # work[r].l /\ Goto(r, "finish")
       \/ sync.receiver # NoAns /\ up = work[r].l /\ Goto(r, "verify")
    /\ UNCHANGED <<sync, link, route, node, got, bounds>>

VerifyAnswer(r) ==
    /\ At(r, "verify")
    /\ \/ sync.receiver = NoAns /\ Done(r) /\ UNCHANGED bounds
       \/ /\ sync.receiver # NoAns /\ UNCHANGED bounds
          /\ Step(r, [work[r] EXCEPT !.at = "clear", !.ans = sync.receiver])
       \/ sync.receiver # NoAns /\ Event /\ Goto(r, "finish")
    /\ UNCHANGED <<sync, link, route, node, got>>

ClearReceiver(r) ==
    /\ At(r, "clear")
    /\ sync' = [sync EXCEPT !.receiver = NoAns]
    /\ Goto(r, "packet")
    /\ UNCHANGED <<link, route, node, got, bounds>>

\* handle_sync_response: the phase says what the answer is.
HandleResponse(r) ==
    /\ At(r, "packet")
    /\ \/ work[r].ans.kind = "error" /\ Goto(r, "finish")
       \/ /\ work[r].ans.kind # "error"
          /\ \/ sync.phase = "ListRequested" /\ Goto(r, "listed")
             \/ sync.phase = "GetRequested" /\ Goto(r, "blobs")
             \/ sync.phase \in {"Idle", "Linking"} /\ Done(r)
    /\ UNCHANGED <<sync, link, route, node, got, bounds>>

\* What `wants` names: message ids, if the answer is a list of them.
SendGet(r) ==
    /\ At(r, "listed")
    /\ LET a == work[r].ans
       IN  IF a.ids = {} THEN Goto(r, "finish") /\ UNCHANGED toNode
           ELSE /\ Send(work[r].l, "get", IF a.kind = "list" THEN a.ids ELSE {})
                /\ Goto(r, "getting")
    /\ UNCHANGED <<sync, link, route, fromNode, store, got, bounds>>

MutGetRequested(r) ==
    /\ At(r, "getting")
    /\ Done(r)
    /\ UNCHANGED <<sync, link, route, node, got, bounds>>

\* Only after the request has gone out.
GetRequested(r) ==
    /\ At(r, "getting")
    /\ sync' = [sync EXCEPT !.phase = "GetRequested"]
    /\ Done(r)
    /\ UNCHANGED <<link, route, node, got, bounds>>

\* deliver_synced_message for each; one that does not decrypt is dropped there, and
\* confirmed to the node like the others.
DeliverSynced(r) ==
    /\ At(r, "blobs")
    /\ got' = IF work[r].ans.kind = "blobs" THEN got \cup work[r].ans.ids ELSE got
    /\ Goto(r, IF work[r].ans.ids = {} THEN "finish" ELSE "confirm")
    /\ UNCHANGED <<sync, link, route, node, bounds>>

MutConfirm(r) ==
    /\ At(r, "confirm")
    /\ Send(work[r].l, "delete", work[r].ans.ids)
    /\ Goto(r, "finish")
    /\ UNCHANGED <<sync, link, route, fromNode, store, got, bounds>>

\* The node deletes by the hash of what it sent; that of an id is no message's.
Confirm(r) ==
    /\ At(r, "confirm")
    /\ Send(work[r].l, "delete",
            IF work[r].ans.kind = "blobs" THEN work[r].ans.ids ELSE {})
    /\ Goto(r, "finish")
    /\ UNCHANGED <<sync, link, route, fromNode, store, got, bounds>>

-----------------------------------------------------------------------------
(* The connection manager and the menu.                                    *)

\* The session ends: the transport's links and requests go first.  Local peers
\* may still be there.
ConnectionLost ==
    /\ At(Hub, "rest") /\ iface /\ Event
    /\ iface' \in BOOLEAN
    /\ pend' = 0 /\ up' = 0 /\ fromNode' = <<>>
    /\ Goto(Hub, "lost")
    /\ UNCHANGED <<sync, via, known, path, asked, toNode, store, got>>

EndSync ==
    /\ At(Hub, "lost")
    /\ IF sync.phase # "Idle" THEN Goto(Hub, "finish") ELSE Done(Hub)
    /\ UNCHANGED <<sync, link, route, node, got, bounds>>

\* A new session asks for the node's route (request_propagation_path).
Connect ==
    /\ At(Hub, "rest") /\ ~iface
    /\ iface' = TRUE /\ asked' = TRUE
    /\ UNCHANGED <<sync, work, link, known, path, node, got, overlap, bounds>>

request_sync ==
    /\ requests < MaxRequests /\ requests' = requests + 1
    /\ sync' = [sync EXCEPT !.requested = TRUE]
    /\ UNCHANGED <<work, link, route, node, got, overlap, calm, events>>

-----------------------------------------------------------------------------
(* The network, the node and the outbox.                                   *)

Announce ==
    /\ iface
    /\ Event \/ (asked /\ UNCHANGED bounds)
    /\ known' = TRUE /\ path' = TRUE /\ asked' = FALSE
    /\ UNCHANGED <<sync, work, link, iface, node, got, overlap>>

\* pump_outbox asks for a link to the node for a message of its own.
OutboxAsks ==
    /\ Event /\ iface /\ known /\ path /\ pend = 0 /\ up = 0
    /\ NewLink
    /\ UNCHANGED <<sync, work, up, via, route, node, got, overlap>>

LoseLink ==
    \/ pend # 0 /\ pend' = 0 /\ UNCHANGED <<up, toNode, fromNode>>
    \/ up # 0 /\ up' = 0 /\ fromNode' = <<>> /\ UNCHANGED <<pend, toNode>>
    \/ toNode # <<>> /\ toNode' = Tail(toNode) /\ UNCHANGED <<pend, up, fromNode>>
    \/ fromNode # <<>> /\ fromNode' = Tail(fromNode) /\ UNCHANGED <<pend, up, toNode>>

\* A request for a link, or its proof, is lost and expires; a link goes idle or
\* is evicted; the transport evicts the node's key or route; a packet is lost.
Lose ==
    /\ Event
    /\ \/ known /\ known' = FALSE /\ path' = path /\ UNCHANGED <<pend, up, toNode, fromNode>>
       \/ path /\ path' = FALSE /\ known' = known /\ UNCHANGED <<pend, up, toNode, fromNode>>
       \/ LoseLink /\ UNCHANGED <<known, path>>
    /\ UNCHANGED <<sync, work, via, iface, asked, store, got, overlap>>

\* The node answers on the link the request came by, if we still know it.
Answer(l, form, kind, ids) ==
    fromNode' = IF up = l
                THEN Append(fromNode, [form |-> form, kind |-> kind, ids |-> ids])
                ELSE fromNode

NodeServes ==
    /\ toNode # <<>> /\ toNode' = Tail(toNode)
    /\ LET q == Head(toNode)
       IN  \/ /\ q.req = "list" /\ UNCHANGED <<store, bounds>>
              /\ \E form \in {"packet", "adv"} : Answer(q.l, form, "list", store)
           \/ /\ q.req = "get" /\ UNCHANGED <<store, bounds>>
              /\ \E form \in {"packet", "adv"}, ids \in SUBSET (q.ids \cap store) :
                    /\ q.ids \cap store # {} => ids # {}
                    /\ Answer(q.l, form, "blobs", ids)
           \/ /\ q.req = "delete" /\ UNCHANGED bounds
              /\ store' = store \ q.ids /\ Answer(q.l, "packet", "blobs", {})
           \/ /\ q.req = "parts" /\ UNCHANGED <<store, bounds>>
              /\ Answer(q.l, "part", "none", {})
           \/ Event /\ UNCHANGED store /\ Answer(q.l, "packet", "error", {})
           \/ Event /\ UNCHANGED store /\ Answer(q.l, "close", "none", {})
    /\ UNCHANGED <<sync, work, link, route, got, overlap>>

Wake == WakeStalled \/ WakeLinking \/ WakeRequested \/ WakeAuto
SyncStep ==
    \/ Wake \/ ExpirePath \/ Retry \/ StartSync \/ BeginLinking \/ Lookup
    \/ UseLink \/ AskLink
ReaderStep(r) ==
    \/ OnLinkUp(r) \/ Advertised(r) \/ AssembleAnswer(r) \/ VerifyAnswer(r)
    \/ ClearReceiver(r) \/ HandleResponse(r) \/ SendGet(r) \/ GetRequested(r)
    \/ DeliverSynced(r) \/ Confirm(r)
AnyThread(th) == Finish(th) \/ DropOutLink(th) \/ IdentifyAndList(th) \/ SendList(th)

Next ==
    \/ SyncStep
    \/ \E th \in Threads : AnyThread(th)
    \/ \E r \in Readers : \/ ReaderStep(r)
                          \/ LinkProof(r) \/ Receive(r) \/ OutLinkClosed(r)
    \/ ConnectionLost \/ EndSync \/ Connect \/ request_sync
    \/ Announce \/ OutboxAsks \/ Lose \/ NodeServes

Spec == Init /\ [][Next]_vars

ThreadStep(th) ==
    \/ AnyThread(th)
    \/ th = "sync" /\ SyncStep
    \/ th \in Readers /\ ReaderStep(th)
    \/ th = Hub /\ EndSync

\* Threads keep running and time passes; nothing is assumed of the network.
FairSpec == Spec /\ \A th \in Threads : WF_vars(ThreadStep(th))

-----------------------------------------------------------------------------
Answers == [form : {"packet", "adv", "part", "close"},
            kind : {"list", "blobs", "error", "none"}, ids : SUBSET Msgs]
Phases == {"Idle", "Linking", "ListRequested", "GetRequested"}

TypeOK ==
    /\ sync \in [phase : Phases, link : 0..MaxLinks,
                 receiver : Answers \cup {NoAns},
                 left : -1..SYNC_DEADLINE_SECS, auto_done : BOOLEAN,
                 requested : BOOLEAN, wait : 0..SYNC_ROUTE_RETRY_SECS,
                 route_tries : 0..SYNC_ROUTE_TRIES + 1,
                 probe : 0..PN_PROBE_RETRY_SECS]
    /\ pend \in 0..MaxLinks /\ up \in 0..MaxLinks
    /\ store \subseteq Msgs /\ got \subseteq Msgs

\* The node only deletes messages that deliver_synced_message has dealt with,
\* however answers, timeouts and restarts of the sync are interleaved.
DeletedWasDelivered == Msgs \ store \subseteq got

\* A retry of the sync thread never asks for a second link while one is being
\* established or up, though the proof may land after it looked.
OneLinkToNode == pend = 0 \/ up = 0

\* No lost wakeup: once the threads rest, a sync that waits for its link has no
\* link up that nobody will tell it of.
NoLostLinkUp ==
    (\A th \in Threads : At(th, "rest")) => ~(sync.phase = "Linking" /\ up # 0)

\* An answer is taken for what it is, unless two threads were at work at the
\* same time on the sync, or on an earlier one over the same link.
AnswerAsAsked ==
    ~overlap => \A r \in Readers :
                    /\ At(r, "listed") => work[r].ans.kind = "list"
                    /\ At(r, "blobs") => work[r].ans.kind = "blobs"

\* A sync, requested or under way, comes to its end whatever the network does and
\* however often start_sync arms the request again.
EverySyncEnds ==
    sync.requested \/ sync.phase # "Idle"
        ~> ~sync.requested /\ sync.phase = "Idle" /\ At("sync", "rest")

\* If nothing is lost or asked for by others, no deadline is hit, and the
\* network does what it is asked, messages are fetched without the user.
NetworkAnswers ==
    \/ Connect \/ (asked /\ Announce) \/ NodeServes
    \/ \E r \in Readers : LinkProof(r) \/ Receive(r) \/ OutLinkClosed(r)
FetchedWhenCalm == WF_vars(NetworkAnswers) /\ []calm => <>(got # {})
=============================================================================
