--------------------------- MODULE TransportTables ---------------------------
(***************************************************************************)
(* The bounded tables of the transport                                     *)
(* (libs/reticulum-core/src/transport.rs): known peers, routes, inbound    *)
(* links, pending and established outbound links, receipts, and the        *)
(* Resources being sent.  All but the last are a hash map with a queue of  *)
(* its keys in order of insertion, from which the oldest is evicted when   *)
(* the queue outgrows the table's cap.                                     *)
(*                                                                         *)
(* Every method runs under the one lock of the transport, so each is one   *)
(* action.  The environment calls any of them at any time and delivers any *)
(* frame: lost, repeated and late packets are frames that come or do not.  *)
(* Link ids and packet hashes of ours come from fresh random bytes: an id  *)
(* is taken again only when no table refers to it.  Clocks are left out:   *)
(* any set of links may be idle, any set of requests overdue.              *)
(***************************************************************************)
EXTENDS Naturals, Sequences, FiniteSets, Functions

CONSTANTS
    Dests,          \* destinations of peers
    Ifaces,         \* interfaces a route may be learned on
    InIds,          \* ids of the links peers open to us
    OutIds,         \* ids of the links we open
    Packets,        \* hashes of the packets we send
    MAX_KNOWN, MAX_PATHS, MAX_LINKS, MAX_OUT_LINKS, MAX_PENDING_OUT, MAX_RECEIPTS,
    MaxKeys         \* bound on the keys we ever generate for one inbound link

ASSUME TableCaps ==
    {MAX_KNOWN, MAX_PATHS, MAX_LINKS, MAX_OUT_LINKS, MAX_PENDING_OUT,
     MAX_RECEIPTS, MaxKeys} \subseteq Nat \ {0}

VARIABLES
    known, paths, links, pending_out, out_links, receipts, opp_receipts,
    out_resources,  \* one Resource per link, no queue
    session,        \* which hub session this is, as a parity
    sent,           \* how many keys we have proved to the initiator of a link
    locked          \* the key it took from the first proof it saw, 0 before

peers == <<known, paths>>
outgoing == <<pending_out, out_links>>
proofs == <<receipts, opp_receipts>>
initiator == <<sent, locked>>
vars == <<peers, links, outgoing, proofs, out_resources, session, initiator>>

NoMap == [k \in {} |-> 0]
Empty == [map |-> NoMap, order |-> <<>>]
Keys(t) == DOMAIN t.map
With(f, k, v) == [x \in DOMAIN f \cup {k} |-> IF x = k THEN v ELSE f[x]]
Without(f, ks) == Restrict(f, DOMAIN f \ ks)

\* insert_known, insert_path, insert_link, insert_pending_out, insert_out_link,
\* insert_receipt and insert_opp_receipt: a key that is there keeps its place in
\* the queue; a new one goes to its end and pushes the oldest out.
Put(t, k, v, cap) ==
    LET map == With(t.map, k, v)
        queue == Append(t.order, k)
        over == IF Len(queue) > cap THEN Len(queue) - cap ELSE 0
        old == {queue[i] : i \in 1..over} \ {k}
    IN  IF k \in Keys(t) THEN [t EXCEPT !.map = map]
        ELSE [map |-> Without(map, old),
              order |-> SubSeq(queue, over + 1, Len(queue))]

MutDrop(t, ks) == [t EXCEPT !.map = Without(@, ks)]

\* Removal from the map and from the queue: `retain` moves the n-th key it keeps
\* to the n-th place.
Retain(queue, ks) ==
    LET kept == {i \in DOMAIN queue : queue[i] \notin ks}
        place(n) == CHOOSE i \in kept : Cardinality({j \in kept : j <= i}) = n
    IN  [n \in 1..Cardinality(kept) |-> queue[place(n)]]
Drop(t, ks) == [map |-> Without(t.map, ks), order |-> Retain(t.order, ks)]

\* Removal from the map alone: the queue keeps the key until it is its turn.
Forget(t, k) == [t EXCEPT !.map = Without(@, {k})]

\* We no longer hold an inbound link: whatever key its initiator has is void.
Void == MaxKeys + 1
Lose(ls) == locked' = [l \in InIds |-> IF l \in ls THEN Void ELSE locked[l]]

FreshLink ==
    OutIds \ (Range(pending_out.order) \cup Range(out_links.order)
              \cup DOMAIN out_resources
              \cup {receipts.map[p].link : p \in Keys(receipts)})
FreshPacket == Packets \ (Range(receipts.order) \cup Range(opp_receipts.order))

Init ==
    /\ known = Empty /\ paths = Empty /\ links = Empty
    /\ pending_out = Empty /\ out_links = Empty
    /\ receipts = Empty /\ opp_receipts = Empty /\ out_resources = NoMap
    /\ session = 0
    /\ sent = [l \in InIds |-> 0] /\ locked = [l \in InIds |-> 0]

-----------------------------------------------------------------------------
(* Peers and routes.                                                       *)

remember(d) ==
    /\ known' = Put(known, d, TRUE, MAX_KNOWN)
    /\ UNCHANGED <<paths, links, outgoing, proofs, out_resources, session,
                   initiator>>

Announce(d, iface) ==
    /\ known' = Put(known, d, TRUE, MAX_KNOWN)
    /\ paths' = Put(paths, d, iface, MAX_PATHS)
    /\ UNCHANGED <<links, outgoing, proofs, out_resources, session, initiator>>

drop_paths_on(iface) ==
    /\ paths' = Drop(paths, {d \in Keys(paths) : paths.map[d] = iface})
    /\ UNCHANGED <<known, links, outgoing, proofs, out_resources, session,
                   initiator>>

expire_path(d) ==
    /\ paths' = Drop(paths, {d})
    /\ UNCHANGED <<known, links, outgoing, proofs, out_resources, session,
                   initiator>>

-----------------------------------------------------------------------------
(* Links we open.                                                          *)

make_link_request ==
    /\ \E l \in FreshLink :
          pending_out' = Put(pending_out, l, [session |-> session], MAX_PENDING_OUT)
    /\ UNCHANGED <<peers, links, out_links, proofs, out_resources, session,
                   initiator>>

\* A request that was never written.
forget_pending_link(l) ==
    /\ l \in Keys(pending_out)
    /\ pending_out' = Drop(pending_out, {l})
    /\ UNCHANGED <<peers, links, out_links, proofs, out_resources, session,
                   initiator>>

\* Looking for a pending request drops the overdue ones.
pending_link_to ==
    /\ \E overdue \in SUBSET Keys(pending_out) :
          pending_out' = Drop(pending_out, overdue)
    /\ UNCHANGED <<peers, links, out_links, proofs, out_resources, session,
                   initiator>>

\* The proof of a link we asked for: the request is over even if the proof is
\* not valid.
Lrproof(l, valid) ==
    /\ l \in Keys(pending_out)
    /\ pending_out' = Forget(pending_out, l)
    /\ out_links' = IF valid
                    THEN Put(out_links, l, [session |-> pending_out.map[l].session],
                             MAX_OUT_LINKS)
                    ELSE out_links
    /\ UNCHANGED <<peers, links, proofs, out_resources, session, initiator>>

\* drop_out_link, a LINKCLOSE of the responder, or the links outbound_link_for
\* finds idle; each goes through remove_out_link.
remove_out_links(ls) ==
    /\ out_links' = Drop(out_links, ls)
    /\ out_resources' = Without(out_resources, ls)
    /\ UNCHANGED <<peers, links, pending_out, proofs, session, initiator>>

-----------------------------------------------------------------------------
(* Links peers open.                                                       *)

Accept(l) ==
    /\ sent[l] < MaxKeys
    /\ sent' = IF locked[l] = Void THEN sent ELSE [sent EXCEPT ![l] = @ + 1]
    /\ links' = Put(links, l, [key |-> sent'[l], identified |-> FALSE,
                               session |-> session], MAX_LINKS)
    /\ Lose(Keys(links) \ Keys(links'))

MutLinkRequest(l) ==
    /\ Accept(l)
    /\ UNCHANGED <<peers, outgoing, proofs, out_resources, session>>

\* A repeated request is answered with the first proof again; otherwise a key is
\* generated for it.
LinkRequest(l) ==
    /\ IF l \in Keys(links) THEN UNCHANGED <<links, initiator>> ELSE Accept(l)
    /\ UNCHANGED <<peers, outgoing, proofs, out_resources, session>>

\* A proof of ours, late or repeated, reaches the initiator.
InitiatorLocks(l) ==
    /\ locked[l] = 0 /\ \E k \in 1..sent[l] : locked' = [locked EXCEPT ![l] = k]
    /\ UNCHANGED <<peers, links, outgoing, proofs, out_resources, session, sent>>

LinkIdentify(l) ==
    /\ l \in Keys(links)
    /\ links' = [links EXCEPT !.map[l].identified = TRUE]
    /\ UNCHANGED <<peers, outgoing, proofs, out_resources, session, initiator>>

InLinkClosed(l) ==
    /\ l \in Keys(links)
    /\ links' = Drop(links, {l}) /\ Lose({l})
    /\ UNCHANGED <<peers, outgoing, proofs, out_resources, session, sent>>

-----------------------------------------------------------------------------
(* What is sent, and its proofs.                                           *)

Register(l) ==
    \E p \in FreshPacket :
       receipts' = Put(receipts, p, [link |-> l, session |-> session], MAX_RECEIPTS)

make_link_data(l) ==
    /\ l \in Keys(out_links) /\ Register(l)
    /\ UNCHANGED <<peers, links, outgoing, opp_receipts, out_resources, session,
                   initiator>>

\* The backchannel: only on a link whose initiator has identified itself.
make_in_link_data(l) ==
    /\ l \in Keys(links) /\ links.map[l].identified /\ Register(l)
    /\ UNCHANGED <<peers, links, outgoing, opp_receipts, out_resources, session,
                   initiator>>

make_opportunistic_tracked ==
    /\ \E p \in FreshPacket :
          opp_receipts' = Put(opp_receipts, p, [session |-> session], MAX_RECEIPTS)
    /\ UNCHANGED <<peers, links, outgoing, receipts, out_resources, session,
                   initiator>>

make_link_resource(l) ==
    /\ l \in Keys(out_links) \cup Keys(links)
    /\ out_resources' = With(out_resources, l, [session |-> session])
    /\ UNCHANGED <<peers, links, outgoing, proofs, session, initiator>>

\* A valid proof retires a receipt, if its link is still there.
PacketProof(p) ==
    /\ p \in Keys(receipts)
    /\ receipts.map[p].link \in Keys(out_links) \cup Keys(links)
    /\ receipts' = Forget(receipts, p)
    /\ UNCHANGED <<peers, links, outgoing, opp_receipts, out_resources, session,
                   initiator>>

OppProof(p) ==
    /\ p \in Keys(opp_receipts)
    /\ opp_receipts' = Forget(opp_receipts, p)
    /\ UNCHANGED <<peers, links, outgoing, receipts, out_resources, session,
                   initiator>>

ResourceProof(l) ==
    /\ l \in DOMAIN out_resources
    /\ out_resources' = Without(out_resources, {l})
    /\ UNCHANGED <<peers, links, outgoing, proofs, session, initiator>>

MutConnectionReset ==
    /\ session' = 1 - session
    /\ links' = Empty /\ pending_out' = Empty /\ out_links' = Empty
    /\ receipts' = Empty /\ opp_receipts' = Empty
    /\ Lose(Keys(links))
    /\ UNCHANGED <<peers, out_resources, sent>>

\* The hub session ended: all that is scoped to it goes, peers and routes stay.
connection_reset ==
    /\ session' = 1 - session
    /\ links' = Empty /\ pending_out' = Empty /\ out_links' = Empty
    /\ receipts' = Empty /\ opp_receipts' = Empty /\ out_resources' = NoMap
    /\ Lose(Keys(links))
    /\ UNCHANGED <<peers, sent>>

Next ==
    \/ \E d \in Dests :
          \/ remember(d) \/ expire_path(d)
          \/ \E iface \in Ifaces : Announce(d, iface)
    \/ \E iface \in Ifaces : drop_paths_on(iface)
    \/ make_link_request \/ pending_link_to
    \/ \E l \in OutIds :
          \/ forget_pending_link(l) \/ make_link_data(l)
          \/ \E valid \in BOOLEAN : Lrproof(l, valid)
    \/ \E ls \in SUBSET Keys(out_links) : remove_out_links(ls)
    \/ \E l \in InIds :
          \/ LinkRequest(l) \/ InitiatorLocks(l) \/ LinkIdentify(l)
          \/ InLinkClosed(l) \/ make_in_link_data(l)
    \/ \E l \in InIds \cup OutIds : make_link_resource(l) \/ ResourceProof(l)
    \/ make_opportunistic_tracked
    \/ \E p \in Packets : PacketProof(p) \/ OppProof(p)
    \/ connection_reset

Spec == Init /\ [][Next]_vars

-----------------------------------------------------------------------------
Bounded(t, ids, cap) ==
    /\ Keys(t) \subseteq Range(t.order) /\ Range(t.order) \subseteq ids
    /\ Len(t.order) <= cap /\ IsInjective(t.order)
Pruned(t, ids, cap) == Bounded(t, ids, cap) /\ Range(t.order) = Keys(t)

\* No table outgrows its cap, and whatever is in a map is in its queue, once:
\* nothing escapes eviction, and no dead key in a queue pushes out an entry that
\* came after it.  Only requests and receipts that were answered leave their key
\* in the queue, and a link that is up is not pending.
TablesInv ==
    /\ Pruned(known, Dests, MAX_KNOWN) /\ Pruned(paths, Dests, MAX_PATHS)
    /\ Pruned(links, InIds, MAX_LINKS) /\ Pruned(out_links, OutIds, MAX_OUT_LINKS)
    /\ Bounded(pending_out, OutIds, MAX_PENDING_OUT)
    /\ Bounded(receipts, Packets, MAX_RECEIPTS)
    /\ Bounded(opp_receipts, Packets, MAX_RECEIPTS)
    /\ Keys(pending_out) \cap Keys(out_links) = {}
    /\ DOMAIN out_resources \subseteq InIds \cup OutIds

\* Nothing scoped to a hub session outlives it: no link, request, receipt or
\* Resource in a table was made in an earlier session.
OneSession ==
    LET made(f) == {f[k].session : k \in DOMAIN f}
    IN  made(links.map) \cup made(pending_out.map) \cup made(out_links.map)
        \cup made(receipts.map) \cup made(opp_receipts.map) \cup made(out_resources)
           \subseteq {session}

\* However often a LINKREQUEST is repeated and whichever proof arrives first, the
\* initiator holds the key we hold, as long as we have not lost the link.  Once
\* it was evicted, closed or reset here, a repeated request gets a second key and
\* nothing is claimed (locked is Void).
KeyAgreed ==
    \A l \in Keys(links) : locked[l] \in {0, Void, links.map[l].key}
=============================================================================
