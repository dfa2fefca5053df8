--------------------------- MODULE ResourceTransfer ---------------------------
(***************************************************************************)
(* A Reticulum Resource transfer over one link: the ResourceSender and     *)
(* ResourceReceiver of libs/reticulum-core/src/resource.rs, the one-slot   *)
(* out_resources entry the Transport keeps for the link, and the receiving *)
(* driver inbound_resource of apps/lxmfchat/src/net.rs (outlink_resource   *)
(* is its mirror image on links we opened).                                *)
(*                                                                         *)
(* The pure operators below carry the names of the Rust methods.  Bytes    *)
(* are abstracted: a part is its index; the 4-byte map-hash of part i of r *)
(* is MapHash[r][i], the lowest index whose part has the same map-hash, so *)
(* equal hashes are equal numbers and `position` is the identity on them.  *)
(* A map-hash is never mistaken for one of another resource (r is salt).   *)
(*                                                                         *)
(* The network reorders freely; what else it and the devices may do is     *)
(* chosen by the constant Faults.                                          *)
(***************************************************************************)
EXTENDS Naturals, FiniteSets

CONSTANTS
  Resources,        \* Resource instances: every send draws a fresh r, so a fresh hash
  N,                \* N[r]: number of parts of r
  MapHash,          \* MapHash[r][i]: map-hash of part i of r, see above
  HASHMAP_MAX_LEN,  \* map-hashes per page (74)
  WINDOW_START,     \* initial request window (4)
  WINDOW_MAX,       \* largest request window (75)
  MAX_PARTS,        \* MAX_TRANSFER_BYTES / RESOURCE_SDU + 1
  RxThreads,        \* threads running handle_frame: hub read loop, local data_rx
  Faults,           \* subset of AllFaults that may happen
  None

AllFaults ==
  { "lose",         \* a packet disappears
    "duplicate",    \* a packet arrives twice (broadcast_out sends on every interface)
    "linkloss",     \* either side forgets the link
    "evict" }       \* the receiver is evicted from the full in_resources table

Idx(r) == 0 .. N[r] - 1

ASSUME ConstantsAssumption ==
  /\ N \in [Resources -> Nat \ {0}]
  /\ \A r \in Resources :
       /\ MapHash[r] \in [Idx(r) -> Idx(r)]
       /\ \A i \in Idx(r) : /\ MapHash[r][i] <= i
                            /\ MapHash[r][MapHash[r][i]] = MapHash[r][i]
  /\ HASHMAP_MAX_LEN \in Nat \ {0}
  /\ WINDOW_START \in Nat \ {0}
  /\ WINDOW_MAX \in Nat
  /\ WINDOW_START <= WINDOW_MAX
  /\ MAX_PARTS \in Nat
  /\ Faults \subseteq AllFaults
  /\ None \notin Nat
  /\ None \notin Resources

VARIABLES
  net,        \* packets in flight on the link, both directions
  started,    \* resources the sender has put on the link so far
  tx,         \* out_resources[link] at the sender, or None
  txLink,     \* the sender still has the link (out_links / links entry)
  rxLink,     \* the receiver still has the link
  rx,         \* in_resources[link] at the receiver, or None
  poisoned,   \* a thread panicked while holding the in_resources mutex
  pc,         \* pc[t]: where receiving thread t is inside inbound_resource
  held,       \* held[t]: the resource whose payload thread t is delivering
  accepted,   \* resources whose assembled payload passed finish()
  delivered,  \* delivered[r]: times r's payload was handed to deliver_lxmf
  confirmed   \* resources for which the sender raised Event::Delivered

vars == <<net, started, tx, txLink, rxLink, rx, poisoned, pc, held,
          accepted, delivered, confirmed>>

-----------------------------------------------------------------------------
(***************************************************************************)
(* Packets.  `slot` is the request entry a part answers: it tells apart    *)
(* two copies of one part sent for two equal map-hashes of one request and *)
(* is read by nobody.                                                      *)
(***************************************************************************)
Adv(r)             == [type |-> "ADV", res |-> r]
Req(r, want, last) == [type |-> "REQ", res |-> r, wanted |-> want, last |-> last]
Part(r, slot, d)   == [type |-> "PART", res |-> r, slot |-> slot, data |-> d]
Hmu(r, page)       == [type |-> "HMU", res |-> r, page |-> page]
Prf(r)             == [type |-> "PRF", res |-> r]

Messages ==
  UNION { {Adv(r), Prf(r)}
          \cup {Req(r, w, l) : w \in SUBSET Idx(r), l \in Idx(r) \cup {None}}
          \cup {Part(r, i, d) : i \in Idx(r), d \in Idx(r)}
          \cup {Hmu(r, p) : p \in 0 .. N[r]} : r \in Resources }

-----------------------------------------------------------------------------
(***************************************************************************)
(* ResourceReceiver.  `known` is the set of indices i with map_hashes[i]   *)
(* = Some(..), and parts[i] is None or the index of the part stored at i.  *)
(***************************************************************************)
Receiver(r) ==
  [ res : {r},
    known : SUBSET Idx(r),
    hashmap_height : Nat,
    parts : [Idx(r) -> Idx(r) \cup {None}],
    received : Nat,
    consecutive : 0 .. N[r],
    window : 1 .. WINDOW_MAX,
    outstanding : Nat,
    waiting_for_hmu : BOOLEAN ]

Page(r, p) == {i \in Idx(r) : /\ p * HASHMAP_MAX_LEN <= i
                              /\ i < (p + 1) * HASHMAP_MAX_LEN}

Accepts(r) == N[r] <= MAX_PARTS

accept(r) ==
  [ res |-> r,
    known |-> Page(r, 0),
    hashmap_height |-> Cardinality(Page(r, 0)),
    parts |-> [i \in Idx(r) |-> None],
    received |-> 0,
    consecutive |-> 0,
    window |-> WINDOW_START,
    outstanding |-> 0,
    waiting_for_hmu |-> FALSE ]

is_complete(x) == x.received = N[x.res]

\* The indices of the current window whose part has not arrived.
MissingInWindow(x) ==
  {i \in Idx(x.res) : /\ x.consecutive <= i
                      /\ i < x.consecutive + x.window
                      /\ x.parts[i] = None}

\* The walk of next_request stops at the first missing part of unknown hash.
Requested(x) ==
  {i \in MissingInWindow(x) : \A j \in MissingInWindow(x) : j <= i => j \in x.known}
Exhausted(x) == ~(MissingInWindow(x) \subseteq x.known)

\* next_request() has nothing to say, or panics on its expect("known prefix").
NothingToRequest(x) ==
  \/ is_complete(x)
  \/ x.waiting_for_hmu
  \/ Requested(x) = {} /\ ~Exhausted(x)
RequestPanics(x) ==
  ~NothingToRequest(x) /\ Exhausted(x) /\ x.hashmap_height - 1 \notin x.known

\* Mutant: outstanding is not reset before the walk.
MutOutstandingAccumulates(x) ==
  IF is_complete(x) \/ x.waiting_for_hmu THEN x
  ELSE [x EXCEPT !.outstanding = @ + Cardinality(Requested(x)),
                 !.waiting_for_hmu = Exhausted(x)]

next_request(x) ==
  IF is_complete(x) \/ x.waiting_for_hmu THEN x
  ELSE [x EXCEPT !.outstanding = Cardinality(Requested(x)),
                 !.waiting_for_hmu = Exhausted(x)]

\* The packet next_request(x) makes the driver send, as a set.
RequestOf(x) ==
  IF NothingToRequest(x) THEN {}
  ELSE {Req(x.res, Requested(x), IF Exhausted(x) THEN x.hashmap_height - 1 ELSE None)}

\* Mutant: an update does not end the wait for it.
MutStillWaiting(x, page) ==
  [x EXCEPT !.known = @ \cup Page(x.res, page),
            !.hashmap_height = @ + Cardinality(Page(x.res, page) \ x.known)]

receive_hashmap_update(x, page) ==
  [x EXCEPT !.known = @ \cup Page(x.res, page),
            !.hashmap_height = @ + Cardinality(Page(x.res, page) \ x.known),
            !.waiting_for_hmu = FALSE]

\* Mutant: a part is stored again over itself.
MutMatchesStored(x, d) ==
  {i \in x.known : /\ x.consecutive <= i
                   /\ i < x.consecutive + x.window
                   /\ MapHash[x.res][i] = MapHash[x.res][d]}

\* The indices receive_part could store part d at; it takes the lowest.
Matches(x, d) ==
  {i \in MissingInWindow(x) : i \in x.known /\ MapHash[x.res][i] = MapHash[x.res][d]}

Least(S) == CHOOSE i \in S : \A j \in S : i <= j

\* Where the consecutive counter stops: the first gap, or the end.
FirstGap(x, p) == Least({k \in x.consecutive .. N[x.res] : k = N[x.res] \/ p[k] = None})

\* Mutant: the window grows without its cap.
MutWindowUncapped(x, d) ==
  LET i    == Least(Matches(x, d))
      p    == [x.parts EXCEPT ![i] = d]
      left == IF x.outstanding = 0 THEN 0 ELSE x.outstanding - 1
  IN  IF Matches(x, d) = {} THEN x
      ELSE [x EXCEPT !.parts = p,
                     !.received = @ + 1,
                     !.outstanding = left,
                     !.consecutive = FirstGap(x, p),
                     !.window = IF left = 0 THEN @ + 1 ELSE @]

receive_part(x, d) ==
  LET i    == Least(Matches(x, d))
      p    == [x.parts EXCEPT ![i] = d]
      left == IF x.outstanding = 0 THEN 0 ELSE x.outstanding - 1
  IN  IF Matches(x, d) = {} THEN x
      ELSE [x EXCEPT !.parts = p,
                     !.received = @ + 1,
                     !.outstanding = left,
                     !.consecutive = FirstGap(x, p),
                     !.window = IF left = 0 /\ @ < WINDOW_MAX THEN @ + 1 ELSE @]

WindowDone(x, d) == Matches(x, d) # {} /\ receive_part(x, d).outstanding = 0

\* concat() + link decryption + finish(): the stream verifies against the
\* resource hash exactly when every slot holds its own part.
Intact(x) == \A i \in Idx(x.res) : x.parts[i] = i

(***************************************************************************)
(* ResourceSender: what handle_request answers to request m for resource r *)
(***************************************************************************)
\* Mutant: the page after the next one is served.
MutHmuPageSkips(r, last) == (MapHash[r][last] + 1) \div HASHMAP_MAX_LEN + 1

HmuPage(r, last) == (MapHash[r][last] + 1) \div HASHMAP_MAX_LEN

handle_request(r, m) ==
  {Part(r, i, MapHash[r][i]) : i \in m.wanted}
  \cup IF m.last # None /\ (MapHash[r][m.last] + 1) % HASHMAP_MAX_LEN = 0
       THEN {Hmu(r, HmuPage(r, m.last))} ELSE {}

-----------------------------------------------------------------------------
Init ==
  /\ net = {}
  /\ started = {}
  /\ tx = None
  /\ txLink = TRUE
  /\ rxLink = TRUE
  /\ rx = None
  /\ poisoned = FALSE
  /\ pc = [t \in RxThreads |-> "idle"]
  /\ held = [t \in RxThreads |-> None]
  /\ accepted = {}
  /\ delivered = [r \in Resources |-> 0]
  /\ confirmed = {}

\* What is left of the network when m is handled; a duplicated packet stays.
Rest(m) == {net \ {m}} \cup IF "duplicate" \in Faults THEN {net} ELSE {}

receiverVars == <<rxLink, rx, poisoned, pc, held, accepted, delivered>>
senderVars   == <<started, tx, txLink, confirmed>>

(***************************************************************************)
(* The sending device.                                                     *)
(***************************************************************************)

\* make_resource_on_link / make_link_resource: a new resource replaces the
\* one in flight on the link, and its advertisement goes out.
SendResource(r) ==
  /\ txLink
  /\ r \notin started
  /\ started' = started \cup {r}
  /\ tx' = r
  /\ net' = net \cup {Adv(r)}
  /\ UNCHANGED <<txLink, confirmed, receiverVars>>

\* serve_link_resource: a request for another resource, or on a forgotten
\* link, is dropped.
ServeRequest(m) ==
  /\ m.type = "REQ"
  /\ \E rest \in Rest(m) :
       net' = rest \cup IF tx = m.res THEN handle_request(tx, m) ELSE {}
  /\ UNCHANGED <<senderVars, receiverVars>>

\* proof_is_valid: the proof names this resource's hash.
ProofIsValid(m) == tx = m.res

\* RESOURCE_PRF in Transport::handle_frame.
RecvProof(m) ==
  /\ m.type = "PRF"
  /\ net' \in Rest(m)
  /\ IF tx # None /\ ProofIsValid(m)
       THEN confirmed' = confirmed \cup {tx} /\ tx' = None
       ELSE UNCHANGED <<confirmed, tx>>
  /\ UNCHANGED <<started, txLink, receiverVars>>

\* remove_out_link / connection_reset on the sending device.
SenderLosesLink ==
  /\ "linkloss" \in Faults
  /\ txLink
  /\ txLink' = FALSE
  /\ tx' = None
  /\ UNCHANGED <<net, started, confirmed, receiverVars>>

(***************************************************************************)
(* The receiving device: inbound_resource, one context per action.  Its    *)
(* steps under the in_resources mutex are atomic; between them another     *)
(* receiving thread may run.                                               *)
(***************************************************************************)
CanReceive(t, m, type) ==
  /\ pc[t] = "idle"
  /\ m.type = type
  /\ rxLink
  /\ ~poisoned

\* CONTEXT_RESOURCE_ADV: a fresh advertisement replaces (restarts) the
\* transfer; one we cannot take is ignored.
RecvAdv(t, m) ==
  /\ CanReceive(t, m, "ADV")
  /\ \E rest \in Rest(m) :
       IF Accepts(m.res)
         THEN /\ rx' = next_request(accept(m.res))
              /\ net' = rest \cup RequestOf(accept(m.res))
         ELSE /\ net' = rest
              /\ UNCHANGED rx
  /\ UNCHANGED <<senderVars, rxLink, poisoned, pc, held, accepted, delivered>>

\* Send the next request of the updated receiver x, or panic in it.
Continue(x, rest) ==
  IF RequestPanics(x)
    THEN /\ poisoned' = TRUE
         /\ net' = rest
         /\ rx' = x
    ELSE /\ rx' = next_request(x)
         /\ net' = rest \cup RequestOf(x)
         /\ UNCHANGED poisoned

\* CONTEXT_RESOURCE: ingest a part; at the end of a window request the next
\* one; at the end of the transfer go on to assembly.
RecvPart(t, m) ==
  /\ CanReceive(t, m, "PART")
  /\ \E rest \in Rest(m) :
       IF rx = None
         THEN net' = rest /\ UNCHANGED <<rx, poisoned, pc>>
         ELSE LET mine == rx.res = m.res
                  x    == IF mine THEN receive_part(rx, m.data) ELSE rx
              IN  IF is_complete(x)
                    THEN /\ rx' = x
                         /\ net' = rest
                         /\ pc' = [pc EXCEPT ![t] = "assemble"]
                         /\ UNCHANGED poisoned
                  ELSE IF mine /\ WindowDone(rx, m.data)
                    THEN Continue(x, rest) /\ UNCHANGED pc
                    ELSE rx' = x /\ net' = rest /\ UNCHANGED <<poisoned, pc>>
  /\ UNCHANGED <<senderVars, rxLink, held, accepted, delivered>>

\* CONTEXT_RESOURCE_HMU: an update for another resource is an error.
RecvHmu(t, m) ==
  /\ CanReceive(t, m, "HMU")
  /\ \E rest \in Rest(m) :
       IF rx # None /\ rx.res = m.res
         THEN Continue(receive_hashmap_update(rx, m.page), rest)
         ELSE net' = rest /\ UNCHANGED <<rx, poisoned>>
  /\ UNCHANGED <<senderVars, rxLink, pc, held, accepted, delivered>>

\* Mutant: the completed receiver stays in the table.
MutReceiverStays(t) ==
  /\ pc[t] = "assemble"
  /\ ~poisoned
  /\ UNCHANGED rx
  /\ IF rx # None /\ rxLink /\ Intact(rx)
       THEN /\ pc' = [pc EXCEPT ![t] = "deliver"]
            /\ held' = [held EXCEPT ![t] = rx.res]
            /\ accepted' = accepted \cup {rx.res}
            /\ net' = net \cup {Prf(rx.res)}
       ELSE /\ pc' = [pc EXCEPT ![t] = "idle"]
            /\ UNCHANGED <<held, accepted, net>>
  /\ UNCHANGED <<senderVars, rxLink, poisoned, delivered>>

\* Mutant: the proof is sent before the stream is verified.
MutProveFirst(t) ==
  /\ pc[t] = "assemble"
  /\ ~poisoned
  /\ rx' = None
  /\ net' = IF rx # None THEN net \cup {Prf(rx.res)} ELSE net
  /\ IF rx # None /\ rxLink /\ Intact(rx)
       THEN /\ pc' = [pc EXCEPT ![t] = "deliver"]
            /\ held' = [held EXCEPT ![t] = rx.res]
            /\ accepted' = accepted \cup {rx.res}
       ELSE /\ pc' = [pc EXCEPT ![t] = "idle"]
            /\ UNCHANGED <<held, accepted>>
  /\ UNCHANGED <<senderVars, rxLink, poisoned, delivered>>

\* Take the receiver out of the table (whichever is there by now), assemble,
\* decrypt with the link key, verify, send the proof.
Assemble(t) ==
  /\ pc[t] = "assemble"
  /\ ~poisoned
  /\ rx' = None
  /\ IF rx # None /\ rxLink /\ Intact(rx)
       THEN /\ pc' = [pc EXCEPT ![t] = "deliver"]
            /\ held' = [held EXCEPT ![t] = rx.res]
            /\ accepted' = accepted \cup {rx.res}
            /\ net' = net \cup {Prf(rx.res)}
       ELSE /\ pc' = [pc EXCEPT ![t] = "idle"]
            /\ UNCHANGED <<held, accepted, net>>
  /\ UNCHANGED <<senderVars, rxLink, poisoned, delivered>>

\* deliver_lxmf, after the proof went out.
Deliver(t) ==
  /\ pc[t] = "deliver"
  /\ delivered' = [delivered EXCEPT ![held[t]] = @ + 1]
  /\ pc' = [pc EXCEPT ![t] = "idle"]
  /\ held' = [held EXCEPT ![t] = None]
  /\ UNCHANGED <<net, senderVars, rxLink, rx, poisoned, accepted>>

\* connection_reset and in_resources.clear(), or InLinkClosed; a link evicted
\* from the full links table leaves its receiver behind.
ReceiverLosesLink ==
  /\ "linkloss" \in Faults
  /\ rxLink
  /\ rxLink' = FALSE
  /\ rx' \in {rx, None}
  /\ UNCHANGED <<net, senderVars, poisoned, pc, held, accepted, delivered>>

\* Another link's advertisement found in_resources full: map.pop_first().
EvictReceiver ==
  /\ "evict" \in Faults
  /\ rx # None
  /\ ~poisoned
  /\ rx' = None
  /\ UNCHANGED <<net, senderVars, rxLink, poisoned, pc, held, accepted, delivered>>

Lose(m) ==
  /\ "lose" \in Faults
  /\ net' = net \ {m}
  /\ UNCHANGED <<senderVars, receiverVars>>

Next ==
  \/ \E r \in Resources : SendResource(r)
  \/ \E m \in net : \/ ServeRequest(m)
                    \/ RecvProof(m)
                    \/ Lose(m)
  \/ \E t \in RxThreads, m \in net : \/ RecvAdv(t, m)
                                     \/ RecvPart(t, m)
                                     \/ RecvHmu(t, m)
  \/ \E t \in RxThreads : Assemble(t) \/ Deliver(t)
  \/ SenderLosesLink
  \/ ReceiverLosesLink
  \/ EvictReceiver

Spec == Init /\ [][Next]_vars

\* Both devices keep handling the packets that reach them.
Fairness ==
  /\ WF_vars(\E m \in net : ServeRequest(m) \/ RecvProof(m))
  /\ WF_vars(\E t \in RxThreads, m \in net : RecvAdv(t, m) \/ RecvPart(t, m) \/ RecvHmu(t, m))
  /\ WF_vars(\E t \in RxThreads : Assemble(t) \/ Deliver(t))

FairSpec == Spec /\ Fairness

-----------------------------------------------------------------------------
(***************************************************************************)
(* Properties.                                                             *)
(***************************************************************************)

\* Every variable has its type; the receiver's vectors are as long as the
\* advertisement said.
TypeOK ==
  /\ net \subseteq Messages
  /\ started \subseteq Resources
  /\ tx \in Resources \cup {None}
  /\ txLink \in BOOLEAN
  /\ rxLink \in BOOLEAN
  /\ rx = None \/ \E r \in Resources : rx \in Receiver(r)
  /\ poisoned \in BOOLEAN
  /\ pc \in [RxThreads -> {"idle", "assemble", "deliver"}]
  /\ held \in [RxThreads -> Resources \cup {None}]
  /\ accepted \subseteq Resources
  /\ delivered \in [Resources -> Nat]
  /\ confirmed \subseteq Resources

\* resource.rs:100-101: "pages always arrive in order, so the known prefix is
\* contiguous", and handle_request relies on it ending on a page boundary.
\* Holds while no packet arrives twice, whatever is lost or reordered.
KnownPrefix ==
  rx # None =>
    /\ rx.known = 0 .. rx.hashmap_height - 1
    /\ \/ rx.hashmap_height = N[rx.res]
       \/ rx.hashmap_height % HASHMAP_MAX_LEN = 0

\* The expect("known prefix") of next_request never fires.  It would panic
\* inside the in_resources critical section and poison that mutex for good.
ExpectHolds == ~poisoned

\* The three counters of the receiver agree with the parts it stores, whatever
\* duplicates re-requests produce: is_complete counts each index once,
\* consecutive is the length of the received prefix, and outstanding never
\* exceeds what can still arrive to bring it to zero.
Accounting ==
  rx # None =>
    LET stored == {i \in Idx(rx.res) : rx.parts[i] # None} IN
    /\ rx.received = Cardinality(stored)
    /\ 0 .. rx.consecutive - 1 \subseteq stored
    /\ rx.consecutive \notin stored
    /\ rx.outstanding <= Cardinality(MissingInWindow(rx) \cap rx.known)

\* A payload is handed to deliver_lxmf at most once per resource, although two
\* threads may both see the last part in.
DeliveredOnce == \A r \in Resources : delivered[r] <= 1

\* What the sender was told is true: a confirmed resource was accepted intact
\* by the receiver, and has been delivered or is about to be by the thread
\* that proved it (the proof goes out before deliver_lxmf runs).
ConfirmedIsDelivered ==
  \A r \in confirmed : /\ r \in accepted
                       /\ delivered[r] > 0 \/ \E t \in RxThreads : held[t] = r

\* On a network that loses nothing an unfinished transfer is never silent: the
\* page it waits for, an answer it waits for, or its request is on the way.
\* There is no retransmission timer that would repair a silent one.
NeverSilent ==
  (Faults = {} /\ rx # None /\ tx = rx.res /\ ~is_complete(rx)) =>
    IF rx.waiting_for_hmu
      THEN \/ Hmu(rx.res, rx.hashmap_height \div HASHMAP_MAX_LEN) \in net
           \/ \E m \in net : /\ m.type = "REQ"
                             /\ m.res = rx.res
                             /\ m.last = rx.hashmap_height - 1
      ELSE \E m \in net : /\ m.res = rx.res
                          /\ \/ m.type = "REQ"
                             \/ m.type = "PART" /\ Matches(rx, m.data) # {}

\* On such a network a resource that is not replaced is confirmed in the end:
\* windows, hashmap pages and re-requests never leave both sides waiting.
TransferCompletes == \A r \in Resources : r \in started ~> r \in confirmed

(***************************************************************************)
(* Why KnownPrefix, ExpectHolds, DeliveredOnce and ConfirmedIsDelivered    *)
(* hold: the inductive invariant of the proofs, for a network that         *)
(* delivers no packet twice.                                               *)
(***************************************************************************)

\* An end of the known hashmap that the protocol can reach.
PageBoundary(r, h) ==
  /\ h \in 1 .. N[r]
  /\ h = N[r] \/ h % HASHMAP_MAX_LEN = 0

PrefixKnown ==
  rx # None => /\ rx.known = 0 .. rx.hashmap_height - 1
               /\ PageBoundary(rx.res, rx.hashmap_height)

\* Nobody is ahead of the receiver: no update on the way leaves a gap behind
\* the known prefix, no request on the way names an unknown map-hash.
NoPageAhead ==
  rx # None => \A m \in net : m.res = rx.res =>
    /\ m.type = "HMU" => m.page * HASHMAP_MAX_LEN <= rx.hashmap_height
    /\ m.type = "REQ" /\ m.last # None => m.last < rx.hashmap_height

\* An advertisement still on the way is all there is of its resource, so the
\* receiver it creates meets no packet of an earlier round.
AdvIsFirst ==
  \A r \in Resources :
    /\ Adv(r) \in net => /\ \A m \in net : m.res = r => m = Adv(r)
                         /\ rx = None \/ rx.res # r
                         /\ r \notin accepted
    /\ r \notin started => /\ \A m \in net : m.res # r
                           /\ rx = None \/ rx.res # r
                           /\ r \notin accepted

\* An accepted resource has left the table, and is delivered or in the hands
\* of exactly one thread.
HandedOnce ==
  /\ \A r \in accepted : /\ rx = None \/ rx.res # r
                         /\ delivered[r] <= 1
                         /\ delivered[r] = 0 <=> \E t \in RxThreads : held[t] = r
  /\ \A r \in Resources \ accepted : delivered[r] = 0
  /\ \A t \in RxThreads : /\ pc[t] = "deliver" <=> held[t] # None
                          /\ held[t] # None => held[t] \in accepted
  /\ \A t, u \in RxThreads : held[t] = held[u] /\ held[t] # None => t = u

\* Every proof in the network, and every confirmation, is of an accepted one.
ProofsAreTrue ==
  /\ \A m \in net : m.type = "PRF" => m.res \in accepted
  /\ confirmed \subseteq accepted

\* The pages learned stay one prefix and each accepted payload is handed over
\* once, because while no packet arrives twice an advertisement meets nothing
\* older of its resource and no page overtakes the ones before it.
TransferInv ==
  /\ PrefixKnown
  /\ NoPageAhead
  /\ ExpectHolds
  /\ AdvIsFirst
  /\ HandedOnce
  /\ ProofsAreTrue

\* The detailed transfer implements the abstract one.
Abstract == INSTANCE LargeDelivery
              WITH offered <- started,
                   handed <- {r \in Resources : delivered[r] > 0}
ImplementsLargeDelivery == Abstract!Spec
=============================================================================
