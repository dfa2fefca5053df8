------------------------ MODULE TransportTablesProofs ------------------------
(***************************************************************************)
(* For any sets of ids and any caps: nothing scoped to a hub session       *)
(* outlives it, the initiator of an inbound link holds the key we hold,    *)
(* and every map stays in step with its queue and below its cap.  The      *)
(* first two concern the maps alone: an insertion keeps the new entry, and *)
(* whatever is evicted or removed, nothing else changes (PutMap, DropMap,  *)
(* ForgetMap).  The third concerns the queues (PutBounded, DropBounded,    *)
(* ForgetBounded).                                                         *)
(***************************************************************************)
EXTENDS TransportTables, FiniteSetTheorems, SequenceTheorems, TLAPS

IsTable(t) == t = [map |-> t.map, order |-> t.order]
Made(f, s) == \A k \in DOMAIN f : f[k].session = s

LEMMA PutMap ==
    ASSUME NEW t, IsTable(t), NEW k, NEW v, NEW cap
    PROVE  LET u == Put(t, k, v, cap)
           IN  /\ IsTable(u)
               /\ k \in Keys(u) /\ Keys(u) \subseteq Keys(t) \cup {k}
               /\ \A x \in Keys(u) : u.map[x] = IF x = k THEN v ELSE t.map[x]
<1> DEFINE map == With(t.map, k, v)
           queue == Append(t.order, k)
           over == IF Len(queue) > cap THEN Len(queue) - cap ELSE 0
           old == {queue[i] : i \in 1..over} \ {k}
           rest == SubSeq(queue, over + 1, Len(queue))
<1>1. DOMAIN map = Keys(t) \cup {k}
      /\ \A x \in DOMAIN map : map[x] = IF x = k THEN v ELSE t.map[x]
  BY DEF With, Keys
<1>2. CASE k \in Keys(t)
  <2>1. Put(t, k, v, cap) = [t EXCEPT !.map = map]
    BY <1>2 DEF Put
  <2>2. Put(t, k, v, cap) = [map |-> map, order |-> t.order]
    <3> HIDE DEF map
    <3> QED BY <2>1 DEF IsTable
  <2> HIDE DEF map
  <2> QED BY <2>2, <1>1, <1>2 DEF Keys, IsTable
<1>3. CASE k \notin Keys(t)
  <2>1. Put(t, k, v, cap) = [map |-> Without(map, old), order |-> rest]
    BY <1>3 DEF Put
  <2>2. k \notin old
    OBVIOUS
  <2> HIDE DEF map, old, rest
  <2>3. DOMAIN Without(map, old) = DOMAIN map \ old
        /\ \A x \in DOMAIN map \ old : Without(map, old)[x] = map[x]
    BY DEF Without, Restrict
  <2> QED BY <2>1, <2>2, <2>3, <1>1 DEF Keys, IsTable
<1> QED BY <1>2, <1>3

LEMMA DropMap ==
    ASSUME NEW t, NEW ks
    PROVE  /\ IsTable(Drop(t, ks)) /\ Keys(Drop(t, ks)) = Keys(t) \ ks
           /\ \A x \in Keys(t) \ ks : Drop(t, ks).map[x] = t.map[x]
BY DEF Drop, Without, Restrict, Keys, IsTable

LEMMA ForgetMap ==
    ASSUME NEW t, IsTable(t), NEW k
    PROVE  /\ IsTable(Forget(t, k)) /\ Keys(Forget(t, k)) = Keys(t) \ {k}
           /\ \A x \in Keys(t) \ {k} : Forget(t, k).map[x] = t.map[x]
<1>1. Forget(t, k) = [map |-> Without(t.map, {k}), order |-> t.order]
  BY DEF Forget, IsTable
<1> QED BY <1>1 DEF Without, Restrict, Keys, IsTable

LEMMA EmptyTable == IsTable(Empty) /\ Keys(Empty) = {} /\ DOMAIN NoMap = {}
BY DEF Empty, NoMap, IsTable, Keys

(* Entries keep the session they were made in.                             *)
LEMMA PutMade ==
    ASSUME NEW t, IsTable(t), NEW k, NEW v, NEW cap, NEW s, Made(t.map, s), v.session = s
    PROVE  IsTable(Put(t, k, v, cap)) /\ Made(Put(t, k, v, cap).map, s)
BY PutMap DEF Made, Keys

LEMMA DropMade ==
    ASSUME NEW t, NEW ks, NEW s, Made(t.map, s)
    PROVE  IsTable(Drop(t, ks)) /\ Made(Drop(t, ks).map, s)
BY DropMap DEF Made, Keys

LEMMA ForgetMade ==
    ASSUME NEW t, IsTable(t), NEW k, NEW s, Made(t.map, s)
    PROVE  IsTable(Forget(t, k)) /\ Made(Forget(t, k).map, s)
BY ForgetMap DEF Made, Keys

LEMMA WithoutMade ==
    ASSUME NEW f, NEW ks, NEW s, Made(f, s)
    PROVE  Made(Without(f, ks), s)
BY DEF Made, Without, Restrict

LEMMA WithMade ==
    ASSUME NEW f, NEW k, NEW v, NEW s, Made(f, s), v.session = s
    PROVE  Made(With(f, k, v), s)
BY DEF Made, With

LEMMA EmptyMade == ASSUME NEW s PROVE Made(Empty.map, s) /\ Made(NoMap, s)
BY DEF Made, Empty, NoMap

-----------------------------------------------------------------------------
LinkStates == [key : Nat, identified : BOOLEAN, session : {0, 1}]

(* What is in the tables, and which session it is of.                      *)
SessionInv ==
    /\ session \in {0, 1}
    /\ IsTable(links) /\ IsTable(pending_out) /\ IsTable(out_links)
    /\ IsTable(receipts) /\ IsTable(opp_receipts)
    /\ Made(links.map, session) /\ Made(pending_out.map, session)
    /\ Made(out_links.map, session) /\ Made(receipts.map, session)
    /\ Made(opp_receipts.map, session) /\ Made(out_resources, session)
    /\ Keys(links) \subseteq InIds
    /\ \A l \in Keys(links) : links.map[l] \in LinkStates
    /\ sent \in [InIds -> Nat] /\ locked \in [InIds -> Nat]

(* Until a link is lost, one key was generated for it at most.             *)
KeyInv ==
    \A l \in InIds :
       \/ locked[l] = Void
       \/ /\ l \in Keys(links)
          /\ sent[l] = 1 /\ links.map[l].key = 1 /\ locked[l] \in {0, 1}
       \/ l \notin Keys(links) /\ sent[l] = 0 /\ locked[l] = 0

IInv == SessionInv /\ KeyInv

LEMMA InitInv == Init => IInv
<1> SUFFICES ASSUME Init PROVE IInv
  OBVIOUS
<1>1. SessionInv
  BY EmptyTable, EmptyMade DEF Init, SessionInv
<1>2. KeyInv
  BY EmptyTable DEF Init, KeyInv
<1> QED BY <1>1, <1>2 DEF IInv

LEMMA VoidNat == Void \in Nat /\ Void > 1
BY TableCaps DEF Void

-----------------------------------------------------------------------------
(* One lemma for each group of actions.                                    *)

LEMMA PeersPreserve ==
    ASSUME IInv,
           \/ \E d \in Dests :
                 \/ remember(d) \/ expire_path(d)
                 \/ \E iface \in Ifaces : Announce(d, iface)
           \/ \E iface \in Ifaces : drop_paths_on(iface)
    PROVE  IInv'
<1>1. UNCHANGED <<links, outgoing, proofs, out_resources, session, initiator>>
  BY DEF remember, expire_path, Announce, drop_paths_on, peers
<1>2. SessionInv'
  BY <1>1 DEF IInv, SessionInv, outgoing, proofs, initiator
<1>3. KeyInv'
  BY <1>1 DEF IInv, KeyInv, initiator
<1> QED BY <1>2, <1>3 DEF IInv

(* Links we open touch neither inbound links nor receipts.                 *)
LEMMA OutgoingPreserve ==
    ASSUME IInv,
           UNCHANGED <<links, proofs, session, initiator>>,
           IsTable(pending_out)', IsTable(out_links)',
           Made(pending_out.map, session)', Made(out_links.map, session)',
           Made(out_resources, session)'
    PROVE  IInv'
<1>1. SessionInv'
  BY DEF IInv, SessionInv, proofs, initiator
<1>2. KeyInv'
  BY DEF IInv, KeyInv, initiator
<1> QED BY <1>1, <1>2 DEF IInv

LEMMA LinkRequestsPreserve ==
    ASSUME IInv,
           \/ make_link_request \/ pending_link_to
           \/ \E l \in OutIds : forget_pending_link(l)
    PROVE  IInv'
<1>1. UNCHANGED <<links, out_links, proofs, out_resources, session, initiator>>
  BY DEF make_link_request, pending_link_to, forget_pending_link
<1>2. IsTable(pending_out) /\ Made(pending_out.map, session)
  BY DEF IInv, SessionInv
<1>3. IsTable(pending_out') /\ Made(pending_out'.map, session)
  <2>1. CASE make_link_request
    <3>1. PICK l \in FreshLink :
             pending_out' = Put(pending_out, l, [session |-> session], MAX_PENDING_OUT)
      BY <2>1 DEF make_link_request
    <3> QED BY <3>1, <1>2, PutMade
  <2>2. CASE pending_link_to
    BY <2>2, <1>2, DropMade DEF pending_link_to
  <2>3. ASSUME NEW l \in OutIds, forget_pending_link(l)
        PROVE  IsTable(pending_out') /\ Made(pending_out'.map, session)
    BY <2>3, <1>2, DropMade DEF forget_pending_link
  <2> QED BY <2>1, <2>2, <2>3
<1> QED BY <1>1, <1>3, OutgoingPreserve DEF IInv, SessionInv

LEMMA LrproofPreserves ==
    ASSUME IInv, NEW l \in OutIds, NEW valid \in BOOLEAN, Lrproof(l, valid)
    PROVE  IInv'
<1>1. UNCHANGED <<links, proofs, out_resources, session, initiator>>
  BY DEF Lrproof
<1>2. /\ IsTable(pending_out) /\ Made(pending_out.map, session)
      /\ IsTable(out_links) /\ Made(out_links.map, session)
  BY DEF IInv, SessionInv
<1>3. IsTable(pending_out') /\ Made(pending_out'.map, session)
  BY <1>2, ForgetMade DEF Lrproof
<1>4. pending_out.map[l].session = session
  BY <1>2 DEF Lrproof, Made, Keys
<1>5. IsTable(out_links') /\ Made(out_links'.map, session)
  BY <1>2, <1>4, PutMade DEF Lrproof
<1> QED BY <1>1, <1>3, <1>5, OutgoingPreserve DEF IInv, SessionInv

LEMMA RemovePreserves ==
    ASSUME IInv, NEW ls, remove_out_links(ls)
    PROVE  IInv'
<1>1. UNCHANGED <<links, pending_out, proofs, session, initiator>>
  BY DEF remove_out_links
<1>2. IsTable(out_links') /\ Made(out_links'.map, session)
  BY DropMade DEF remove_out_links, IInv, SessionInv
<1>3. Made(out_resources', session)
  BY WithoutMade DEF remove_out_links, IInv, SessionInv
<1> QED BY <1>1, <1>2, <1>3, OutgoingPreserve DEF IInv, SessionInv

LEMMA ResourcesPreserve ==
    ASSUME IInv, NEW l, make_link_resource(l) \/ ResourceProof(l)
    PROVE  IInv'
<1>1. UNCHANGED <<links, outgoing, proofs, session, initiator>>
  BY DEF make_link_resource, ResourceProof
<1>2. Made(out_resources', session)
  BY WithMade, WithoutMade DEF make_link_resource, ResourceProof, IInv, SessionInv
<1> QED BY <1>1, <1>2, OutgoingPreserve DEF IInv, SessionInv, outgoing

(* Receipts touch nothing else.                                            *)
LEMMA ReceiptsPreserve ==
    ASSUME IInv,
           UNCHANGED <<links, outgoing, out_resources, session, initiator>>,
           IsTable(receipts)', IsTable(opp_receipts)',
           Made(receipts.map, session)', Made(opp_receipts.map, session)'
    PROVE  IInv'
<1>1. SessionInv'
  BY DEF IInv, SessionInv, outgoing, initiator
<1>2. KeyInv'
  BY DEF IInv, KeyInv, initiator
<1> QED BY <1>1, <1>2 DEF IInv

LEMMA SendsPreserve ==
    ASSUME IInv,
           \/ \E l \in OutIds : make_link_data(l)
           \/ \E l \in InIds : make_in_link_data(l)
           \/ make_opportunistic_tracked
    PROVE  IInv'
<1>1. UNCHANGED <<links, outgoing, out_resources, session, initiator>>
  BY DEF make_link_data, make_in_link_data, make_opportunistic_tracked
<1>2. /\ IsTable(receipts) /\ Made(receipts.map, session)
      /\ IsTable(opp_receipts) /\ Made(opp_receipts.map, session)
  BY DEF IInv, SessionInv
<1>3. ASSUME NEW l, Register(l), UNCHANGED opp_receipts
      PROVE  IInv'
  <2>1. PICK p \in FreshPacket :
           receipts' = Put(receipts, p, [link |-> l, session |-> session], MAX_RECEIPTS)
    BY <1>3 DEF Register
  <2>2. IsTable(receipts') /\ Made(receipts'.map, session)
    BY <2>1, <1>2, PutMade
  <2> QED BY <1>1, <1>2, <1>3, <2>2, ReceiptsPreserve
<1>4. CASE make_opportunistic_tracked
  <2>1. PICK p \in FreshPacket :
           opp_receipts' = Put(opp_receipts, p, [session |-> session], MAX_RECEIPTS)
    BY <1>4 DEF make_opportunistic_tracked
  <2>2. IsTable(opp_receipts') /\ Made(opp_receipts'.map, session)
    BY <2>1, <1>2, PutMade
  <2>3. UNCHANGED receipts
    BY <1>4 DEF make_opportunistic_tracked
  <2> QED BY <1>1, <1>2, <2>2, <2>3, ReceiptsPreserve
<1> QED BY <1>3, <1>4 DEF make_link_data, make_in_link_data

LEMMA ProofsPreserve ==
    ASSUME IInv, NEW p, PacketProof(p) \/ OppProof(p)
    PROVE  IInv'
<1>1. UNCHANGED <<links, outgoing, out_resources, session, initiator>>
  BY DEF PacketProof, OppProof
<1>2. /\ IsTable(receipts') /\ Made(receipts'.map, session)
      /\ IsTable(opp_receipts') /\ Made(opp_receipts'.map, session)
  BY ForgetMade DEF PacketProof, OppProof, IInv, SessionInv
<1> QED BY <1>1, <1>2, ReceiptsPreserve


(* Inbound links.                                                          *)
LEMMA InboundPreserve ==
    ASSUME SessionInv,
           UNCHANGED <<outgoing, proofs, out_resources, session>>,
           IsTable(links)', Made(links.map, session)', Keys(links)' \subseteq InIds,
           \A l \in Keys(links)' : links'.map[l] \in LinkStates,
           sent' \in [InIds -> Nat], locked' \in [InIds -> Nat]
    PROVE  SessionInv'
BY DEF SessionInv, outgoing, proofs

LEMMA AcceptPreserves ==
    ASSUME IInv, NEW l \in InIds, l \notin Keys(links), Accept(l),
           UNCHANGED <<outgoing, proofs, out_resources, session>>
    PROVE  IInv'
<1> DEFINE v == [key |-> sent'[l], identified |-> FALSE, session |-> session]
<1>1. /\ IsTable(links) /\ Made(links.map, session) /\ Keys(links) \subseteq InIds
      /\ \A x \in Keys(links) : links.map[x] \in LinkStates
      /\ sent \in [InIds -> Nat] /\ locked \in [InIds -> Nat] /\ session \in {0, 1}
  BY DEF IInv, SessionInv
<1>2. sent' = IF locked[l] = Void THEN sent ELSE [sent EXCEPT ![l] = @ + 1]
  BY DEF Accept
<1>3. sent' \in [InIds -> Nat]
  BY <1>1, <1>2
<1>4. links' = Put(links, l, v, MAX_LINKS)
  BY DEF Accept
<1>5. v \in LinkStates /\ v.session = session /\ v.key = sent'[l]
  BY <1>1, <1>3 DEF LinkStates
<1> HIDE DEF v
<1>6. /\ IsTable(links') /\ l \in Keys(links') /\ Keys(links') \subseteq Keys(links) \cup {l}
      /\ \A x \in Keys(links') : links'.map[x] = IF x = l THEN v ELSE links.map[x]
  BY <1>1, <1>4, PutMap
<1>7. Made(links'.map, session)
  BY <1>1, <1>4, <1>5, PutMade
<1>8. locked' = [x \in InIds |-> IF x \in Keys(links) \ Keys(links') THEN Void ELSE locked[x]]
  BY DEF Accept, Lose
<1>9. locked' \in [InIds -> Nat]
  BY <1>1, <1>8, VoidNat
<1>10. SessionInv'
  <2>1. \A x \in Keys(links') : links'.map[x] \in LinkStates
    BY <1>1, <1>5, <1>6
  <2>2. Keys(links') \subseteq InIds
    BY <1>1, <1>6
  <2> QED BY <1>3, <1>6, <1>7, <1>9, <2>1, <2>2, InboundPreserve DEF IInv
<1>11. KeyInv'
  <2> SUFFICES ASSUME NEW x \in InIds
               PROVE  \/ locked'[x] = Void
                      \/ /\ x \in Keys(links')
                         /\ sent'[x] = 1 /\ links'.map[x].key = 1 /\ locked'[x] \in {0, 1}
                      \/ x \notin Keys(links') /\ sent'[x] = 0 /\ locked'[x] = 0
    BY DEF KeyInv, Void, Keys
  <2>1. \/ locked[x] = Void
        \/ /\ x \in Keys(links)
           /\ sent[x] = 1 /\ links.map[x].key = 1 /\ locked[x] \in {0, 1}
        \/ x \notin Keys(links) /\ sent[x] = 0 /\ locked[x] = 0
    BY DEF IInv, KeyInv
  <2>2. CASE x = l
    <3>1. locked'[x] = locked[x]
      BY <1>8, <2>2
    <3>2. CASE locked[x] = Void
      BY <3>1, <3>2
    <3>3. CASE locked[x] # Void
      <4>1. sent'[x] = 1 /\ locked[x] = 0
        BY <1>1, <1>2, <2>1, <2>2, <3>3
      <4> QED BY <4>1, <3>1, <2>2, <1>5, <1>6
    <3> QED BY <3>2, <3>3
  <2>3. CASE x # l
    <3>1. sent'[x] = sent[x]
      BY <1>1, <1>2, <2>3
    <3>2. CASE x \in Keys(links) \ Keys(links')
      BY <1>8, <3>2
    <3>3. CASE x \notin Keys(links) \ Keys(links')
      <4>1. locked'[x] = locked[x] /\ (x \in Keys(links') <=> x \in Keys(links))
        BY <1>6, <1>8, <2>3, <3>3
      <4> QED BY <4>1, <3>1, <2>1, <2>3, <1>6
    <3> QED BY <3>2, <3>3
  <2> QED BY <2>2, <2>3
<1> QED BY <1>10, <1>11 DEF IInv

LEMMA LinkRequestPreserves ==
    ASSUME IInv, NEW l \in InIds, LinkRequest(l)
    PROVE  IInv'
<1>1. UNCHANGED <<outgoing, proofs, out_resources, session>>
  BY DEF LinkRequest
<1>2. CASE l \in Keys(links)
  <2>1. UNCHANGED <<links, initiator>>
    BY <1>2 DEF LinkRequest
  <2>2. SessionInv'
    BY <1>1, <2>1 DEF IInv, SessionInv, outgoing, proofs, initiator
  <2>3. KeyInv'
    BY <2>1 DEF IInv, KeyInv, initiator
  <2> QED BY <2>2, <2>3 DEF IInv
<1>3. CASE l \notin Keys(links)
  BY <1>1, <1>3, AcceptPreserves DEF LinkRequest
<1> QED BY <1>2, <1>3

LEMMA LocksPreserves ==
    ASSUME IInv, NEW l \in InIds, InitiatorLocks(l)
    PROVE  IInv'
<1>1. UNCHANGED <<links, outgoing, proofs, out_resources, session, sent>>
  BY DEF InitiatorLocks
<1>2. PICK k \in 1..sent[l] : locked' = [locked EXCEPT ![l] = k]
  BY DEF InitiatorLocks
<1>3. sent \in [InIds -> Nat] /\ locked \in [InIds -> Nat] /\ locked[l] = 0
  BY DEF InitiatorLocks, IInv, SessionInv
<1>4. locked' \in [InIds -> Nat]
  BY <1>2, <1>3
<1>5. SessionInv'
  BY <1>1, <1>4 DEF IInv, SessionInv, outgoing, proofs
<1>6. l \in Keys(links) /\ sent[l] = 1 /\ links.map[l].key = 1
  BY <1>2, <1>3, VoidNat DEF IInv, KeyInv
<1>7. k = 1
  BY <1>2, <1>6
<1>8. KeyInv'
  BY <1>1, <1>2, <1>3, <1>6, <1>7 DEF IInv, KeyInv, Keys, Void
<1> QED BY <1>5, <1>8 DEF IInv

LEMMA IdentifyPreserves ==
    ASSUME IInv, NEW l \in InIds, LinkIdentify(l)
    PROVE  IInv'
<1> DEFINE f == [links.map EXCEPT ![l] = [@ EXCEPT !.identified = TRUE]]
<1>1. UNCHANGED <<outgoing, proofs, out_resources, session, initiator>>
  BY DEF LinkIdentify
<1>2. /\ IsTable(links) /\ l \in Keys(links) /\ Made(links.map, session)
      /\ Keys(links) \subseteq InIds /\ \A x \in Keys(links) : links.map[x] \in LinkStates
      /\ sent \in [InIds -> Nat] /\ locked \in [InIds -> Nat]
  BY DEF LinkIdentify, IInv, SessionInv
<1>3. links' = [links EXCEPT !.map = f]
  BY DEF LinkIdentify
<1>4. /\ DOMAIN f = Keys(links)
      /\ \A x \in Keys(links) : /\ f[x] \in LinkStates
                                /\ f[x].key = links.map[x].key
                                /\ f[x].session = links.map[x].session
  BY <1>2 DEF LinkStates, Keys
<1> HIDE DEF f
<1>5. links' = [map |-> f, order |-> links.order]
  BY <1>2, <1>3 DEF IsTable
<1>6. /\ IsTable(links') /\ Keys(links') = Keys(links)
      /\ \A x \in Keys(links) : /\ links'.map[x] \in LinkStates
                                /\ links'.map[x].key = links.map[x].key
                                /\ links'.map[x].session = links.map[x].session
  BY <1>4, <1>5 DEF IsTable, Keys
<1>7. SessionInv'
  <2>1. Made(links'.map, session)
    BY <1>2, <1>6 DEF Made, Keys
  <2> QED BY <1>1, <1>2, <1>6, <2>1, InboundPreserve DEF IInv, initiator
<1>8. KeyInv'
  BY <1>1, <1>6 DEF IInv, KeyInv, initiator, Keys, Void
<1> QED BY <1>7, <1>8 DEF IInv

LEMMA ClosedPreserves ==
    ASSUME IInv, NEW l \in InIds, InLinkClosed(l)
    PROVE  IInv'
<1>1. UNCHANGED <<outgoing, proofs, out_resources, session, sent>>
  BY DEF InLinkClosed
<1>2. /\ Keys(links) \subseteq InIds /\ \A x \in Keys(links) : links.map[x] \in LinkStates
      /\ sent \in [InIds -> Nat] /\ locked \in [InIds -> Nat] /\ Made(links.map, session)
  BY DEF IInv, SessionInv
<1>3. /\ IsTable(links') /\ Keys(links') = Keys(links) \ {l} /\ Made(links'.map, session)
      /\ \A x \in Keys(links') : links'.map[x] = links.map[x]
  <2>1. links' = Drop(links, {l})
    BY DEF InLinkClosed
  <2>2. IsTable(links') /\ Made(links'.map, session)
    BY <1>2, <2>1, DropMade
  <2>3. Keys(links') = Keys(links) \ {l}
    BY <2>1, DropMap
  <2>4. \A x \in Keys(links) \ {l} : links'.map[x] = links.map[x]
    BY <2>1, DropMap
  <2> QED BY <2>2, <2>3, <2>4
<1>4. locked' = [x \in InIds |-> IF x = l THEN Void ELSE locked[x]]
  BY DEF InLinkClosed, Lose
<1>5. locked' \in [InIds -> Nat]
  BY <1>2, <1>4, VoidNat
<1>6. SessionInv'
  BY <1>1, <1>2, <1>3, <1>5, InboundPreserve DEF IInv
<1>7. KeyInv'
  BY <1>1, <1>3, <1>4 DEF IInv, KeyInv, Keys, Void
<1> QED BY <1>6, <1>7 DEF IInv

(* The reset empties every table that is scoped to the session.            *)
LEMMA ResetPreserves == ASSUME IInv, connection_reset PROVE IInv'
<1>1. /\ links' = Empty /\ pending_out' = Empty /\ out_links' = Empty
      /\ receipts' = Empty /\ opp_receipts' = Empty /\ out_resources' = NoMap
      /\ session' = 1 - session /\ sent' = sent
  BY DEF connection_reset
<1>2. session' \in {0, 1} /\ sent \in [InIds -> Nat] /\ locked \in [InIds -> Nat]
  BY <1>1 DEF IInv, SessionInv
<1>3. locked' = [x \in InIds |-> IF x \in Keys(links) THEN Void ELSE locked[x]]
  BY DEF connection_reset, Lose
<1>4. locked' \in [InIds -> Nat]
  BY <1>2, <1>3, VoidNat
<1>5. SessionInv'
  <2>1. Keys(links') = {}
    BY <1>1, EmptyTable
  <2>2. \A s : Made(Empty.map, s) /\ Made(NoMap, s)
    BY EmptyMade
  <2> QED BY <1>1, <1>2, <1>4, <2>1, <2>2, EmptyTable DEF SessionInv
<1>6. KeyInv'
  BY <1>1, <1>3, EmptyTable DEF IInv, KeyInv, Void
<1> QED BY <1>5, <1>6 DEF IInv

LEMMA NextInv == IInv /\ [Next]_vars => IInv'
<1> SUFFICES ASSUME IInv, [Next]_vars PROVE IInv'
  OBVIOUS
<1>1. CASE \/ \E d \in Dests : \/ remember(d) \/ expire_path(d)
                               \/ \E iface \in Ifaces : Announce(d, iface)
           \/ \E iface \in Ifaces : drop_paths_on(iface)
  BY <1>1, PeersPreserve
<1>2. CASE \/ make_link_request \/ pending_link_to
           \/ \E l \in OutIds : forget_pending_link(l)
  BY <1>2, LinkRequestsPreserve
<1>3. ASSUME NEW l \in OutIds, NEW valid \in BOOLEAN, Lrproof(l, valid) PROVE IInv'
  BY <1>3, LrproofPreserves
<1>4. ASSUME NEW ls \in SUBSET Keys(out_links), remove_out_links(ls) PROVE IInv'
  BY <1>4, RemovePreserves
<1>5. CASE \/ \E l \in OutIds : make_link_data(l)
           \/ \E l \in InIds : make_in_link_data(l)
           \/ make_opportunistic_tracked
  BY <1>5, SendsPreserve
<1>6. ASSUME NEW l \in InIds, LinkRequest(l) PROVE IInv'
  BY <1>6, LinkRequestPreserves
<1>7. ASSUME NEW l \in InIds, InitiatorLocks(l) PROVE IInv'
  BY <1>7, LocksPreserves
<1>8. ASSUME NEW l \in InIds, LinkIdentify(l) PROVE IInv'
  BY <1>8, IdentifyPreserves
<1>9. ASSUME NEW l \in InIds, InLinkClosed(l) PROVE IInv'
  BY <1>9, ClosedPreserves
<1>10. ASSUME NEW l \in InIds \cup OutIds, make_link_resource(l) \/ ResourceProof(l)
       PROVE  IInv'
  BY <1>10, ResourcesPreserve
<1>11. ASSUME NEW p \in Packets, PacketProof(p) \/ OppProof(p) PROVE IInv'
  BY <1>11, ProofsPreserve
<1>12. CASE connection_reset
  BY <1>12, ResetPreserves
<1>13. CASE UNCHANGED vars
  <2>1. SessionInv'
    BY <1>13 DEF IInv, SessionInv, vars, outgoing, proofs, initiator
  <2>2. KeyInv'
    BY <1>13 DEF IInv, KeyInv, vars, initiator
  <2> QED BY <2>1, <2>2 DEF IInv
<1> QED BY <1>1, <1>2, <1>3, <1>4, <1>5, <1>6, <1>7, <1>8, <1>9, <1>10, <1>11,
           <1>12, <1>13 DEF Next

(* Every entry of a table that is scoped to a hub session was made in the  *)
(* present one, whatever was evicted, answered or closed before: nothing   *)
(* escapes connection_reset.                                               *)
THEOREM NothingOutlivesItsSession == Spec => []OneSession
<1>1. IInv => OneSession
  BY DEF IInv, SessionInv, Made, OneSession
<1> QED BY <1>1, InitInv, NextInv, PTL DEF Spec

(* While an inbound link stays in our table, neither repeated LINKREQUESTs *)
(* nor late or repeated proofs leave its initiator with another key than    *)
(* the one we hold.  A link that was evicted, closed or reset in the        *)
(* meantime is excepted: a request repeated after that does get a second    *)
(* key (the look-up at transport.rs 804 finds no entry any more).          *)
THEOREM EndsAgreeOnKey == Spec => []KeyAgreed
<1>1. IInv => KeyAgreed
  BY DEF IInv, SessionInv, KeyInv, KeyAgreed
<1> QED BY <1>1, InitInv, NextInv, PTL DEF Spec

-----------------------------------------------------------------------------
(* The queues.                                                             *)

(* What retain leaves of a queue: the keys it keeps, each once if each was *)
(* there once.  The n-th place is filled because counting the kept places  *)
(* up to each of them is a bijection onto 1..n.                            *)
LEMMA RetainFacts ==
    ASSUME NEW S, NEW q \in Seq(S), NEW ks
    PROVE  /\ Retain(q, ks) \in Seq(S) /\ Len(Retain(q, ks)) <= Len(q)
           /\ Range(Retain(q, ks)) = Range(q) \ ks
           /\ IsInjective(q) => IsInjective(Retain(q, ks))
<1> DEFINE kept == {i \in DOMAIN q : q[i] \notin ks}
           below(i) == {j \in kept : j <= i}
           rank(i) == Cardinality(below(i))
           N == Cardinality(kept)
           place(n) == CHOOSE i \in kept : rank(i) = n
           r == [n \in 1..N |-> q[place(n)]]
<1>1. Len(q) \in Nat /\ DOMAIN q = 1..Len(q) /\ \A i \in 1..Len(q) : q[i] \in S
  BY LenProperties, ElementOfSeq
<1>2. /\ IsFiniteSet(kept) /\ N \in Nat /\ N <= Len(q)
      /\ kept \subseteq 1..Len(q)
  <2>1. IsFiniteSet(1..Len(q)) /\ Cardinality(1..Len(q)) = Len(q)
    <3>1. 1 \in Int /\ Len(q) \in Int /\ (1 > Len(q) => Len(q) = 0)
      BY <1>1
    <3>2. /\ IsFiniteSet(1..Len(q))
          /\ Cardinality(1..Len(q)) = IF 1 > Len(q) THEN 0 ELSE Len(q) - 1 + 1
      BY <3>1, FS_Interval
    <3> QED BY <3>1, <3>2, <1>1
  <2>2. kept \in SUBSET (1..Len(q))
    BY <1>1
  <2> HIDE DEF kept
  <2> QED BY <2>1, <2>2, FS_Subset, FS_CardinalityType
<1> HIDE DEF kept
<1>3. \A i \in kept : IsFiniteSet(below(i)) /\ rank(i) \in 1..N
  <2> SUFFICES ASSUME NEW i \in kept PROVE IsFiniteSet(below(i)) /\ rank(i) \in 1..N
    OBVIOUS
  <2>1. below(i) \in SUBSET kept /\ i \in below(i)
    BY <1>2
  <2> HIDE DEF below
  <2>2. IsFiniteSet(below(i)) /\ Cardinality(below(i)) <= N
    BY <1>2, <2>1, FS_Subset
  <2>3. Cardinality(below(i)) \in Nat /\ Cardinality(below(i)) # 0
    BY <2>1, <2>2, FS_CardinalityType, FS_EmptySet
  <2> QED BY <1>2, <2>2, <2>3
<1>4. \A i, j \in kept : i < j => rank(i) < rank(j)
  <2> SUFFICES ASSUME NEW i \in kept, NEW j \in kept, i < j PROVE rank(i) < rank(j)
    OBVIOUS
  <2>1. \A m \in kept : m \in Int
    BY <1>1, <1>2
  <2>2. below(i) \cup {j} \in SUBSET below(j) /\ j \notin below(i)
    BY <2>1
  <2>3. IsFiniteSet(below(i)) /\ IsFiniteSet(below(j)) /\ rank(i) \in 1..N /\ rank(j) \in 1..N
    BY <1>3
  <2> HIDE DEF below
  <2>4. Cardinality(below(i) \cup {j}) = Cardinality(below(i)) + 1
    BY <2>2, <2>3, FS_AddElement
  <2>5. Cardinality(below(i) \cup {j}) <= Cardinality(below(j))
    BY <2>2, <2>3, FS_Subset
  <2> QED BY <1>2, <2>3, <2>4, <2>5
<1> HIDE DEF below
<1>5. \A i, j \in kept : rank(i) = rank(j) => i = j
  <2> SUFFICES ASSUME NEW i \in kept, NEW j \in kept, rank(i) = rank(j) PROVE i = j
    OBVIOUS
  <2>1. rank(i) \in 1..N /\ ~(i < j) /\ ~(j < i)
    <3> HIDE DEF rank
    <3> QED BY <1>2, <1>3, <1>4
  <2> QED BY <2>1, <1>2
<1>6. \A n \in 1..N : \E i \in kept : rank(i) = n
  <2> DEFINE f == [i \in kept |-> rank(i)]
  <2> HIDE DEF rank
  <2>1. f \in Injection(kept, 1..N)
    BY <1>3, <1>5 DEF Injection, IsInjective
  <2>2. IsFiniteSet(1..N) /\ Cardinality(1..N) = N
    BY <1>2, FS_Interval
  <2>3. f \in Surjection(kept, 1..N)
    <3> HIDE DEF f
    <3> QED BY <2>1, <2>2, <1>2, FS_Injection
  <2> QED BY <2>3 DEF Surjection
<1> HIDE DEF rank
<1>7. \A n \in 1..N : place(n) \in kept /\ rank(place(n)) = n
  BY <1>6
<1>8. \A i \in kept : place(rank(i)) = i /\ rank(i) \in 1..N
  BY <1>3, <1>5, <1>7
<1> HIDE DEF place
<1>9. Retain(q, ks) = r
  BY DEF Retain, kept, place, rank, below
<1>10. r \in Seq(S) /\ Len(r) = N /\ DOMAIN r = 1..N
  <2>1. \A n \in 1..N : q[place(n)] \in S
    BY <1>1, <1>2, <1>7
  <2>2. r \in [1..N -> S]
    BY <2>1
  <2> QED BY <2>2, <1>2, LenProperties
<1>11. Range(r) = Range(q) \ ks
  <2>1. ASSUME NEW x \in Range(r) PROVE x \in Range(q) \ ks
    BY <1>7, <1>10 DEF Range, kept
  <2>2. ASSUME NEW x \in Range(q) \ ks PROVE x \in Range(r)
    <3>1. PICK i \in kept : q[i] = x
      BY DEF Range, kept
    <3> QED BY <3>1, <1>8, <1>10 DEF Range
  <2> QED BY <2>1, <2>2
<1>12. IsInjective(q) => IsInjective(r)
  <2> SUFFICES ASSUME IsInjective(q), NEW a \in 1..N, NEW b \in 1..N, r[a] = r[b]
               PROVE  a = b
    BY <1>10 DEF IsInjective
  <2>1. q[place(a)] = q[place(b)] /\ place(a) \in DOMAIN q /\ place(b) \in DOMAIN q
    BY <1>1, <1>2, <1>7
  <2>2. place(a) = place(b)
    BY <2>1 DEF IsInjective
  <2> QED BY <2>2, <1>7
<1> HIDE DEF r
<1> QED BY <1>2, <1>9, <1>10, <1>11, <1>12

(* A table whose queue is one of keys of ids.                              *)
Queued(t, ids) == IsTable(t) /\ t.order \in Seq(ids)

LEMMA DropBounded ==
    ASSUME NEW t, NEW ids, NEW cap \in Nat, NEW ks, Queued(t, ids), Bounded(t, ids, cap)
    PROVE  /\ Queued(Drop(t, ks), ids) /\ Bounded(Drop(t, ks), ids, cap)
           /\ Pruned(t, ids, cap) => Pruned(Drop(t, ks), ids, cap)
<1> DEFINE u == Drop(t, ks)
<1>1. t.order \in Seq(ids) /\ Len(t.order) \in Nat
  BY LenProperties DEF Queued
<1>2. u.order = Retain(t.order, ks)
  BY DEF Drop
<1>3. /\ u.order \in Seq(ids) /\ Len(u.order) <= Len(t.order)
      /\ Range(u.order) = Range(t.order) \ ks
      /\ IsInjective(t.order) => IsInjective(u.order)
  BY <1>1, <1>2, RetainFacts
<1>4. IsTable(u) /\ Keys(u) = Keys(t) \ ks
  BY DropMap
<1> HIDE DEF u
<1>5. Len(u.order) <= cap
  <2>1. Len(u.order) \in Nat /\ Len(t.order) <= cap
    BY <1>3, LenProperties DEF Bounded
  <2> QED BY <1>1, <1>3, <2>1
<1>6. Queued(u, ids) /\ Bounded(u, ids, cap)
  BY <1>3, <1>4, <1>5 DEF Queued, Bounded
<1>7. Pruned(t, ids, cap) => Pruned(u, ids, cap)
  BY <1>3, <1>4, <1>6 DEF Pruned
<1> QED BY <1>6, <1>7 DEF u

LEMMA ForgetBounded ==
    ASSUME NEW t, NEW ids, NEW cap, NEW k, Queued(t, ids), Bounded(t, ids, cap)
    PROVE  Queued(Forget(t, k), ids) /\ Bounded(Forget(t, k), ids, cap)
<1>1. Forget(t, k).order = t.order
  BY DEF Forget, Queued, IsTable
<1>2. IsTable(Forget(t, k)) /\ Keys(Forget(t, k)) = Keys(t) \ {k}
  BY ForgetMap DEF Queued
<1> QED BY <1>1, <1>2 DEF Queued, Bounded

LEMMA EmptyBounded ==
    ASSUME NEW ids, NEW cap \in Nat
    PROVE  Queued(Empty, ids) /\ Pruned(Empty, ids, cap)
<1>1. Empty.order = <<>> /\ Keys(Empty) = {} /\ IsTable(Empty)
  BY EmptyTable DEF Empty
<1>2. <<>> \in Seq(ids) /\ Len(<<>>) = 0 /\ DOMAIN <<>> = {}
  BY EmptySeq
<1>3. Range(<<>>) = {} /\ IsInjective(<<>>)
  BY <1>2 DEF Range, IsInjective
<1> QED BY <1>1, <1>2, <1>3 DEF Queued, Pruned, Bounded

(* A queue at its cap drops its oldest key, and only that.                 *)
LEMMA PutBounded ==
    ASSUME NEW t, NEW ids, NEW cap \in Nat \ {0}, NEW k \in ids, NEW v,
           Queued(t, ids), Bounded(t, ids, cap),
           k \in Keys(t) \/ k \notin Range(t.order)
    PROVE  /\ Queued(Put(t, k, v, cap), ids) /\ Bounded(Put(t, k, v, cap), ids, cap)
           /\ Pruned(t, ids, cap) => Pruned(Put(t, k, v, cap), ids, cap)
<1> DEFINE u == Put(t, k, v, cap)
           map == With(t.map, k, v)
           q == Append(t.order, k)
           over == IF Len(q) > cap THEN Len(q) - cap ELSE 0
           old == {q[i] : i \in 1..over} \ {k}
           rest == SubSeq(q, over + 1, Len(q))
           n == Len(t.order)
<1>1. /\ t.order \in Seq(ids) /\ n \in Nat /\ DOMAIN t.order = 1..n /\ n <= cap
      /\ Keys(t) \subseteq Range(t.order) /\ IsInjective(t.order)
  BY LenProperties DEF Queued, Bounded
<1>2. DOMAIN map = Keys(t) \cup {k}
  BY DEF With, Keys
<1>3. CASE k \in Keys(t)
  <2>1. u = [t EXCEPT !.map = map]
    BY <1>3 DEF Put
  <2> HIDE DEF map
  <2>2. u = [map |-> map, order |-> t.order]
    BY <2>1 DEF Queued, IsTable
  <2> HIDE DEF u
  <2>3. IsTable(u) /\ Keys(u) = Keys(t) /\ u.order = t.order
    BY <2>2, <1>2, <1>3 DEF IsTable, Keys
  <2> QED BY <2>3 DEF Queued, Bounded, Pruned, u
<1>4. CASE k \notin Keys(t)
  <2>1. u = [map |-> Without(map, old), order |-> rest]
    BY <1>4 DEF Put
  <2>2. /\ q \in Seq(ids) /\ Len(q) = n + 1 /\ q[n + 1] = k
        /\ \A i \in 1..n : q[i] = t.order[i]
    BY <1>1, AppendProperties
  <2>3. k \notin Range(t.order)
    BY <1>4
  <2> HIDE DEF q
  <2>4. /\ DOMAIN q = 1..(n + 1) /\ IsInjective(q)
        /\ \A i \in 1..(n + 1) : q[i] \in ids
    <3>1. DOMAIN q = 1..(n + 1) /\ \A i \in 1..(n + 1) : q[i] \in ids
      BY <2>2, LenProperties, ElementOfSeq
    <3>2. \A i \in 1..n : t.order[i] # k
      BY <1>1, <2>3 DEF Range
    <3>3. ASSUME NEW a \in 1..(n + 1), NEW b \in 1..(n + 1), q[a] = q[b] PROVE a = b
      <4>1. CASE a \in 1..n /\ b \in 1..n
        BY <4>1, <3>3, <1>1, <2>2 DEF IsInjective
      <4>2. CASE ~(a \in 1..n /\ b \in 1..n)
        BY <4>2, <3>2, <3>3, <1>1, <2>2
      <4> QED BY <4>1, <4>2
    <3> QED BY <3>1, <3>3 DEF IsInjective
  <2>5. over \in 0..1 /\ (n + 1) - over <= cap /\ over <= n
    BY <1>1, <2>2
  <2> HIDE DEF over
  <2>6. /\ rest \in Seq(ids) /\ Len(rest) = (n + 1) - over
        /\ \A i \in 1..((n + 1) - over) : rest[i] = q[over + i]
    <3>1. \A i \in (over + 1)..(n + 1) : q[i] \in ids
      BY <2>4, <2>5, <1>1
    <3>2. over + 1 \in Int /\ n + 1 \in Int /\ over + 1 <= n + 1
      BY <1>1, <2>5
    <3>3. /\ SubSeq(q, over + 1, n + 1) \in Seq(ids)
          /\ Len(SubSeq(q, over + 1, n + 1)) = (n + 1) - (over + 1) + 1
          /\ \A i \in 1..((n + 1) - (over + 1) + 1) :
                SubSeq(q, over + 1, n + 1)[i] = q[(over + 1) + i - 1]
      BY <3>1, <3>2, SubSeqProperties
    <3>4. (n + 1) - (over + 1) + 1 = (n + 1) - over /\ \A i \in Int : (over + 1) + i - 1 = over + i
      BY <1>1, <2>5
    <3>5. rest = SubSeq(q, over + 1, n + 1)
      BY <2>2
    <3> HIDE DEF rest
    <3> QED BY <3>3, <3>4, <3>5, <1>1, <2>5
  <2> HIDE DEF rest
  <2>7. DOMAIN rest = 1..((n + 1) - over) /\ IsInjective(rest)
    <3>1. DOMAIN rest = 1..((n + 1) - over)
      BY <2>6, LenProperties
    <3>2. ASSUME NEW a \in 1..((n + 1) - over), NEW b \in 1..((n + 1) - over), rest[a] = rest[b]
          PROVE  a = b
      <4>1. over + a \in 1..(n + 1) /\ over + b \in 1..(n + 1)
        BY <1>1, <2>5
      <4>2. over + a = over + b
        BY <4>1, <3>2, <2>4, <2>6 DEF IsInjective
      <4> QED BY <4>2, <2>5, <1>1
    <3> QED BY <3>1, <3>2 DEF IsInjective
  <2>8. Range(rest) = (Range(t.order) \cup {k}) \ old
    <3>1. ASSUME NEW x \in Range(rest) PROVE x \in (Range(t.order) \cup {k}) \ old
      <4>1. PICK i \in 1..((n + 1) - over) : x = rest[i]
        BY <2>7 DEF Range
      <4>2. x = q[over + i] /\ over + i \in 1..(n + 1)
        BY <4>1, <2>6, <2>5, <1>1
      <4>3. x \in Range(t.order) \cup {k}
        BY <4>2, <2>2, <1>1 DEF Range
      <4>4. x \notin old
        <5>1. \A j \in 1..over : j \in 1..(n + 1) /\ j # over + i
          BY <2>5, <1>1
        <5> QED BY <5>1, <4>2, <2>4 DEF IsInjective
      <4> QED BY <4>3, <4>4
    <3>2. ASSUME NEW x \in (Range(t.order) \cup {k}) \ old PROVE x \in Range(rest)
      <4>1. PICK j \in 1..(n + 1) : x = q[j]
        BY <2>2, <1>1 DEF Range
      <4>2. j > over
        <5>1. ASSUME j <= over PROVE FALSE
          <6>1. x = k
            BY <5>1, <4>1, <1>1, <2>5
          <6>2. j = n + 1
            BY <6>1, <4>1, <2>2, <2>4, <1>1 DEF IsInjective
          <6> QED BY <5>1, <6>2, <2>5, <1>1
        <5> QED BY <5>1, <2>5, <1>1
      <4>3. j - over \in 1..((n + 1) - over) /\ over + (j - over) = j
        BY <4>2, <2>5, <1>1
      <4>4. rest[j - over] = x
        BY <4>1, <4>3, <2>6
      <4> QED BY <4>3, <4>4, <2>7 DEF Range
    <3> QED BY <3>1, <3>2
  <2> HIDE DEF old, map
  <2>9. DOMAIN Without(map, old) = (Keys(t) \cup {k}) \ old
    BY <1>2 DEF Without, Restrict
  <2>10. IsTable(u) /\ Keys(u) = (Keys(t) \cup {k}) \ old /\ u.order = rest
    <3> HIDE DEF u
    <3> QED BY <2>1, <2>9 DEF IsTable, Keys
  <2> HIDE DEF u
  <2>11. Queued(u, ids)
    BY <2>6, <2>10 DEF Queued
  <2>12. Bounded(u, ids, cap)
    <3>1. Range(u.order) \subseteq ids
      BY <2>8, <2>10 DEF Bounded
    <3>2. Len(u.order) <= cap
      BY <2>5, <2>6, <2>10
    <3> QED BY <3>1, <3>2, <1>1, <2>7, <2>8, <2>10 DEF Bounded
  <2>13. Pruned(t, ids, cap) => Pruned(u, ids, cap)
    BY <2>8, <2>10, <2>12 DEF Pruned
  <2> QED BY <2>11, <2>12, <2>13 DEF u
<1> QED BY <1>3, <1>4

-----------------------------------------------------------------------------
Kept(t, ids, cap) == Queued(t, ids) /\ Pruned(t, ids, cap)
Held(t, ids, cap) == Queued(t, ids) /\ Bounded(t, ids, cap)

PeersInv == Kept(known, Dests, MAX_KNOWN) /\ Kept(paths, Dests, MAX_PATHS)
LinksInv == Kept(links, InIds, MAX_LINKS)
OutgoingInv ==
    /\ Held(pending_out, OutIds, MAX_PENDING_OUT)
    /\ Kept(out_links, OutIds, MAX_OUT_LINKS)
    /\ Keys(pending_out) \cap Keys(out_links) = {}
ProofsInv ==
    Held(receipts, Packets, MAX_RECEIPTS) /\ Held(opp_receipts, Packets, MAX_RECEIPTS)
ResourcesInv == DOMAIN out_resources \subseteq InIds \cup OutIds

(* TablesInv, and that a queue is a sequence of ids.                       *)
QueueInv == PeersInv /\ LinksInv /\ OutgoingInv /\ ProofsInv /\ ResourcesInv

LEMMA Caps ==
    /\ MAX_KNOWN \in Nat \ {0} /\ MAX_PATHS \in Nat \ {0} /\ MAX_LINKS \in Nat \ {0}
    /\ MAX_OUT_LINKS \in Nat \ {0} /\ MAX_PENDING_OUT \in Nat \ {0}
    /\ MAX_RECEIPTS \in Nat \ {0}
BY TableCaps

(* The two kinds of table under the three operations.                      *)
LEMMA KeptSteps ==
    ASSUME NEW t, NEW ids, NEW cap \in Nat \ {0}, Kept(t, ids, cap)
    PROVE  /\ \A k \in ids : \A v : Kept(Put(t, k, v, cap), ids, cap)
           /\ \A ks : Kept(Drop(t, ks), ids, cap)
<1>1. Queued(t, ids) /\ Bounded(t, ids, cap) /\ Pruned(t, ids, cap) /\ Range(t.order) = Keys(t)
  BY DEF Kept, Pruned
<1>2. ASSUME NEW k \in ids, NEW v PROVE Kept(Put(t, k, v, cap), ids, cap)
  BY <1>1, PutBounded DEF Kept
<1>3. ASSUME NEW ks PROVE Kept(Drop(t, ks), ids, cap)
  BY <1>1, DropBounded DEF Kept
<1> QED BY <1>2, <1>3

LEMMA HeldSteps ==
    ASSUME NEW t, NEW ids, NEW cap \in Nat \ {0}, Held(t, ids, cap)
    PROVE  /\ \A k \in ids \ Range(t.order) : \A v : Held(Put(t, k, v, cap), ids, cap)
           /\ \A ks : Held(Drop(t, ks), ids, cap)
           /\ \A k : Held(Forget(t, k), ids, cap)
<1>1. Queued(t, ids) /\ Bounded(t, ids, cap)
  BY DEF Held
<1>2. ASSUME NEW k \in ids \ Range(t.order), NEW v PROVE Held(Put(t, k, v, cap), ids, cap)
  BY <1>1, PutBounded DEF Held
<1>3. ASSUME NEW ks PROVE Held(Drop(t, ks), ids, cap)
  BY <1>1, DropBounded DEF Held
<1>4. ASSUME NEW k PROVE Held(Forget(t, k), ids, cap)
  BY <1>1, ForgetBounded DEF Held
<1> QED BY <1>2, <1>3, <1>4

LEMMA EmptyKept ==
    ASSUME NEW ids, NEW cap \in Nat \ {0}
    PROVE  Kept(Empty, ids, cap) /\ Held(Empty, ids, cap)
BY EmptyBounded DEF Kept, Held, Pruned

LEMMA QueueInit == Init => QueueInv
<1> SUFFICES ASSUME Init PROVE QueueInv
  OBVIOUS
<1>1. PeersInv
  BY Caps, EmptyKept DEF Init, PeersInv
<1>2. LinksInv
  BY Caps, EmptyKept DEF Init, LinksInv
<1>3. OutgoingInv
  BY Caps, EmptyKept, EmptyTable DEF Init, OutgoingInv
<1>4. ProofsInv
  BY Caps, EmptyKept DEF Init, ProofsInv
<1>5. ResourcesInv
  BY EmptyTable DEF Init, ResourcesInv
<1> QED BY <1>1, <1>2, <1>3, <1>4, <1>5 DEF QueueInv

(* What a step leaves alone stays as it is.                                *)
LEMMA SamePeers == ASSUME PeersInv, UNCHANGED peers PROVE PeersInv'
BY DEF PeersInv, peers
LEMMA SameLinks == ASSUME LinksInv, UNCHANGED links PROVE LinksInv'
BY DEF LinksInv
LEMMA SameOutgoing == ASSUME OutgoingInv, UNCHANGED outgoing PROVE OutgoingInv'
BY DEF OutgoingInv, outgoing
LEMMA SameProofs == ASSUME ProofsInv, UNCHANGED proofs PROVE ProofsInv'
BY DEF ProofsInv, proofs
LEMMA SameResources == ASSUME ResourcesInv, UNCHANGED out_resources PROVE ResourcesInv'
BY DEF ResourcesInv

LEMMA PeersQueue ==
    ASSUME QueueInv,
           \/ \E d \in Dests :
                 \/ remember(d) \/ expire_path(d)
                 \/ \E iface \in Ifaces : Announce(d, iface)
           \/ \E iface \in Ifaces : drop_paths_on(iface)
    PROVE  QueueInv'
<1>1. UNCHANGED <<links, outgoing, proofs, out_resources>>
  BY DEF remember, expire_path, Announce, drop_paths_on
<1>2. PeersInv /\ Kept(known, Dests, MAX_KNOWN) /\ Kept(paths, Dests, MAX_PATHS)
  BY DEF QueueInv, PeersInv
<1>3. \A d \in Dests : Kept(Put(known, d, TRUE, MAX_KNOWN), Dests, MAX_KNOWN)
  BY <1>2, Caps, KeptSteps
<1>4. /\ \A d \in Dests : \A v : Kept(Put(paths, d, v, MAX_PATHS), Dests, MAX_PATHS)
      /\ \A ks : Kept(Drop(paths, ks), Dests, MAX_PATHS)
  BY <1>2, Caps, KeptSteps
<1> DEFINE Done == Kept(known', Dests, MAX_KNOWN) /\ Kept(paths', Dests, MAX_PATHS)
<1>5. Done
  <2>1. ASSUME NEW d \in Dests, remember(d) PROVE Done
    BY <1>2, <1>3, <2>1 DEF remember
  <2>2. ASSUME NEW d \in Dests, expire_path(d) PROVE Done
    BY <1>2, <1>4, <2>2 DEF expire_path
  <2>3. ASSUME NEW d \in Dests, NEW iface \in Ifaces, Announce(d, iface) PROVE Done
    BY <1>3, <1>4, <2>3 DEF Announce
  <2>4. ASSUME NEW iface \in Ifaces, drop_paths_on(iface) PROVE Done
    BY <1>2, <1>4, <2>4 DEF drop_paths_on
  <2> QED BY <2>1, <2>2, <2>3, <2>4
<1>6. PeersInv'
  BY <1>5 DEF PeersInv
<1> QED BY <1>1, <1>6, SameLinks, SameOutgoing, SameProofs, SameResources DEF QueueInv

(* A link is asked for under an id no table refers to.                     *)
LEMMA OutgoingQueue ==
    ASSUME QueueInv, UNCHANGED <<peers, links, proofs>>,
           OutgoingInv', ResourcesInv'
    PROVE  QueueInv'
BY SamePeers, SameLinks, SameProofs DEF QueueInv

LEMMA LinkRequestsQueue ==
    ASSUME QueueInv,
           \/ make_link_request \/ pending_link_to
           \/ \E l \in OutIds : forget_pending_link(l)
    PROVE  QueueInv'
<1>1. UNCHANGED <<peers, links, out_links, proofs, out_resources>>
  BY DEF make_link_request, pending_link_to, forget_pending_link
<1>2. /\ Held(pending_out, OutIds, MAX_PENDING_OUT) /\ Kept(out_links, OutIds, MAX_OUT_LINKS)
      /\ Keys(pending_out) \cap Keys(out_links) = {} /\ ResourcesInv
  BY DEF QueueInv, OutgoingInv
<1>3. IsTable(pending_out) /\ Keys(out_links) \subseteq Range(out_links.order)
  BY <1>2 DEF Held, Kept, Queued, Pruned, Bounded
<1>4. \A ks : /\ Held(Drop(pending_out, ks), OutIds, MAX_PENDING_OUT)
              /\ Keys(Drop(pending_out, ks)) = Keys(pending_out) \ ks
  BY <1>2, Caps, HeldSteps, DropMap
<1>5. /\ Held(pending_out', OutIds, MAX_PENDING_OUT)
      /\ Keys(pending_out') \cap Keys(out_links) = {}
  <2>1. CASE make_link_request
    <3>1. PICK l \in FreshLink :
             pending_out' = Put(pending_out, l, [session |-> session], MAX_PENDING_OUT)
      BY <2>1 DEF make_link_request
    <3>2. l \in OutIds \ Range(pending_out.order) /\ l \notin Keys(out_links)
      BY <3>1, <1>3 DEF FreshLink
    <3>3. Held(pending_out', OutIds, MAX_PENDING_OUT)
      BY <1>2, <3>1, <3>2, Caps, HeldSteps
    <3>4. Keys(pending_out') \subseteq Keys(pending_out) \cup {l}
      BY <1>3, <3>1, PutMap
    <3> QED BY <1>2, <3>2, <3>3, <3>4
  <2>2. CASE pending_link_to
    <3>1. PICK ks : pending_out' = Drop(pending_out, ks)
      BY <2>2 DEF pending_link_to
    <3> QED BY <1>2, <1>4, <3>1
  <2>3. CASE \E l \in OutIds : forget_pending_link(l)
    <3>1. PICK ks : pending_out' = Drop(pending_out, ks)
      BY <2>3 DEF forget_pending_link
    <3> QED BY <1>2, <1>4, <3>1
  <2> QED BY <2>1, <2>2, <2>3
<1>6. OutgoingInv'
  BY <1>1, <1>2, <1>5 DEF OutgoingInv
<1> QED BY <1>1, <1>2, <1>6, SameResources, OutgoingQueue

(* A proved link moves from one table to the other.                        *)
LEMMA LrproofQueue ==
    ASSUME QueueInv, NEW l \in OutIds, NEW valid \in BOOLEAN, Lrproof(l, valid)
    PROVE  QueueInv'
<1>1. UNCHANGED <<peers, links, proofs, out_resources>>
  BY DEF Lrproof
<1>2. /\ Held(pending_out, OutIds, MAX_PENDING_OUT) /\ Kept(out_links, OutIds, MAX_OUT_LINKS)
      /\ Keys(pending_out) \cap Keys(out_links) = {} /\ ResourcesInv
  BY DEF QueueInv, OutgoingInv
<1>3. IsTable(pending_out) /\ IsTable(out_links)
  BY <1>2 DEF Held, Kept, Queued
<1>4. Held(pending_out', OutIds, MAX_PENDING_OUT) /\ Keys(pending_out') = Keys(pending_out) \ {l}
  BY <1>2, <1>3, Caps, HeldSteps, ForgetMap DEF Lrproof
<1>5. Kept(out_links', OutIds, MAX_OUT_LINKS) /\ Keys(out_links') \subseteq Keys(out_links) \cup {l}
  <2>1. CASE valid
    <3>1. PICK v : out_links' = Put(out_links, l, v, MAX_OUT_LINKS)
      BY <2>1 DEF Lrproof
    <3> QED BY <1>2, <1>3, <3>1, Caps, KeptSteps, PutMap
  <2>2. CASE ~valid
    BY <1>2, <2>2 DEF Lrproof
  <2> QED BY <2>1, <2>2
<1>6. OutgoingInv'
  <2>1. Keys(pending_out') \cap Keys(out_links') = {}
    BY <1>2, <1>4, <1>5
  <2> QED BY <2>1, <1>4, <1>5 DEF OutgoingInv
<1> QED BY <1>1, <1>2, <1>6, SameResources, OutgoingQueue

LEMMA RemoveQueue ==
    ASSUME QueueInv, NEW ls, remove_out_links(ls)
    PROVE  QueueInv'
<1>1. UNCHANGED <<peers, links, pending_out, proofs>>
  BY DEF remove_out_links
<1>2. /\ Held(pending_out, OutIds, MAX_PENDING_OUT) /\ Kept(out_links, OutIds, MAX_OUT_LINKS)
      /\ Keys(pending_out) \cap Keys(out_links) = {}
  BY DEF QueueInv, OutgoingInv
<1>3. Kept(out_links', OutIds, MAX_OUT_LINKS) /\ Keys(out_links') = Keys(out_links) \ ls
  BY <1>2, Caps, KeptSteps, DropMap DEF remove_out_links
<1>4. OutgoingInv'
  BY <1>1, <1>2, <1>3 DEF OutgoingInv
<1>5. ResourcesInv'
  BY DEF remove_out_links, Without, Restrict, QueueInv, ResourcesInv
<1> QED BY <1>1, <1>4, <1>5, OutgoingQueue

LEMMA ResourcesQueue ==
    ASSUME QueueInv, NEW l \in InIds \cup OutIds, make_link_resource(l) \/ ResourceProof(l)
    PROVE  QueueInv'
<1>1. UNCHANGED <<peers, links, outgoing, proofs>>
  BY DEF make_link_resource, ResourceProof
<1>2. ResourcesInv'
  BY DEF make_link_resource, ResourceProof, With, Without, Restrict, QueueInv, ResourcesInv
<1> QED BY <1>1, <1>2, SameOutgoing, OutgoingQueue DEF QueueInv

LEMMA LinksQueue ==
    ASSUME QueueInv, NEW l \in InIds,
           LinkRequest(l) \/ InitiatorLocks(l) \/ LinkIdentify(l) \/ InLinkClosed(l)
    PROVE  QueueInv'
<1>1. UNCHANGED <<peers, outgoing, proofs, out_resources>>
  BY DEF LinkRequest, InitiatorLocks, LinkIdentify, InLinkClosed
<1>2. Kept(links, InIds, MAX_LINKS) /\ IsTable(links)
  BY DEF QueueInv, LinksInv, Kept, Queued
<1>3. Kept(links', InIds, MAX_LINKS)
  <2>1. CASE LinkRequest(l)
    <3>1. CASE l \in Keys(links)
      BY <1>2, <2>1, <3>1 DEF LinkRequest
    <3>2. CASE l \notin Keys(links)
      <4>1. PICK v : links' = Put(links, l, v, MAX_LINKS)
        BY <2>1, <3>2 DEF LinkRequest, Accept
      <4> QED BY <1>2, <4>1, Caps, KeptSteps
    <3> QED BY <3>1, <3>2
  <2>2. CASE InitiatorLocks(l)
    BY <1>2, <2>2 DEF InitiatorLocks
  <2>3. CASE LinkIdentify(l)
    <3> DEFINE f == [links.map EXCEPT ![l] = [@ EXCEPT !.identified = TRUE]]
    <3>1. links' = [links EXCEPT !.map = f]
      BY <2>3 DEF LinkIdentify
    <3>2. DOMAIN f = Keys(links)
      BY DEF Keys
    <3> HIDE DEF f
    <3>3. links' = [map |-> f, order |-> links.order]
      BY <1>2, <3>1 DEF IsTable
    <3>4. IsTable(links') /\ Keys(links') = Keys(links) /\ links'.order = links.order
      BY <3>2, <3>3 DEF IsTable, Keys
    <3> QED BY <1>2, <3>4 DEF Kept, Queued, Pruned, Bounded
  <2>4. CASE InLinkClosed(l)
    BY <1>2, <2>4, Caps, KeptSteps DEF InLinkClosed
  <2> QED BY <2>1, <2>2, <2>3, <2>4
<1>4. LinksInv'
  BY <1>3 DEF LinksInv
<1> QED BY <1>1, <1>4, SamePeers, SameOutgoing, SameProofs, SameResources DEF QueueInv

(* A receipt is registered under the hash of a packet that is in no queue. *)
LEMMA ReceiptsQueue ==
    ASSUME QueueInv,
           \/ \E l \in OutIds : make_link_data(l)
           \/ \E l \in InIds : make_in_link_data(l)
           \/ make_opportunistic_tracked
           \/ \E p \in Packets : PacketProof(p) \/ OppProof(p)
    PROVE  QueueInv'
<1>1. UNCHANGED <<peers, links, outgoing, out_resources>>
  BY DEF make_link_data, make_in_link_data, make_opportunistic_tracked, PacketProof, OppProof
<1>2. Held(receipts, Packets, MAX_RECEIPTS) /\ Held(opp_receipts, Packets, MAX_RECEIPTS)
  BY DEF QueueInv, ProofsInv
<1>3. \A p \in FreshPacket : \A v : /\ Held(Put(receipts, p, v, MAX_RECEIPTS), Packets, MAX_RECEIPTS)
                                    /\ Held(Put(opp_receipts, p, v, MAX_RECEIPTS), Packets, MAX_RECEIPTS)
  BY <1>2, Caps, HeldSteps DEF FreshPacket
<1>4. \A p : /\ Held(Forget(receipts, p), Packets, MAX_RECEIPTS)
             /\ Held(Forget(opp_receipts, p), Packets, MAX_RECEIPTS)
  BY <1>2, Caps, HeldSteps
<1> DEFINE Done == /\ Held(receipts', Packets, MAX_RECEIPTS)
                   /\ Held(opp_receipts', Packets, MAX_RECEIPTS)
<1>5. Done
  <2>1. ASSUME NEW l, Register(l), UNCHANGED opp_receipts PROVE Done
    BY <1>2, <1>3, <2>1 DEF Register
  <2>2. CASE make_opportunistic_tracked
    BY <1>2, <1>3, <2>2 DEF make_opportunistic_tracked
  <2>3. ASSUME NEW p, PacketProof(p) \/ OppProof(p) PROVE Done
    BY <1>2, <1>4, <2>3 DEF PacketProof, OppProof
  <2> QED BY <2>1, <2>2, <2>3 DEF make_link_data, make_in_link_data
<1>6. ProofsInv'
  BY <1>5 DEF ProofsInv
<1> QED BY <1>1, <1>6, SamePeers, SameLinks, SameOutgoing, SameResources DEF QueueInv

LEMMA ResetQueue == ASSUME QueueInv, connection_reset PROVE QueueInv'
<1>1. /\ links' = Empty /\ pending_out' = Empty /\ out_links' = Empty
      /\ receipts' = Empty /\ opp_receipts' = Empty /\ out_resources' = NoMap
      /\ UNCHANGED peers
  BY DEF connection_reset
<1>2. LinksInv'
  BY <1>1, Caps, EmptyKept DEF LinksInv
<1>3. OutgoingInv'
  BY <1>1, Caps, EmptyKept, EmptyTable DEF OutgoingInv
<1>4. ProofsInv'
  BY <1>1, Caps, EmptyKept DEF ProofsInv
<1>5. ResourcesInv'
  BY <1>1, EmptyTable DEF ResourcesInv
<1> QED BY <1>1, <1>2, <1>3, <1>4, <1>5, SamePeers DEF QueueInv

LEMMA NextQueue == QueueInv /\ [Next]_vars => QueueInv'
<1> SUFFICES ASSUME QueueInv, [Next]_vars PROVE QueueInv'
  OBVIOUS
<1>1. CASE \/ \E d \in Dests : \/ remember(d) \/ expire_path(d)
                               \/ \E iface \in Ifaces : Announce(d, iface)
           \/ \E iface \in Ifaces : drop_paths_on(iface)
  BY <1>1, PeersQueue
<1>2. CASE \/ make_link_request \/ pending_link_to
           \/ \E l \in OutIds : forget_pending_link(l)
  BY <1>2, LinkRequestsQueue
<1>3. ASSUME NEW l \in OutIds, NEW valid \in BOOLEAN, Lrproof(l, valid) PROVE QueueInv'
  BY <1>3, LrproofQueue
<1>4. ASSUME NEW ls \in SUBSET Keys(out_links), remove_out_links(ls) PROVE QueueInv'
  BY <1>4, RemoveQueue
<1>5. CASE \/ \E l \in OutIds : make_link_data(l)
           \/ \E l \in InIds : make_in_link_data(l)
           \/ make_opportunistic_tracked
           \/ \E p \in Packets : PacketProof(p) \/ OppProof(p)
  BY <1>5, ReceiptsQueue
<1>6. ASSUME NEW l \in InIds,
             LinkRequest(l) \/ InitiatorLocks(l) \/ LinkIdentify(l) \/ InLinkClosed(l)
      PROVE  QueueInv'
  BY <1>6, LinksQueue
<1>7. ASSUME NEW l \in InIds \cup OutIds, make_link_resource(l) \/ ResourceProof(l)
      PROVE  QueueInv'
  BY <1>7, ResourcesQueue
<1>8. CASE connection_reset
  BY <1>8, ResetQueue
<1>9. CASE UNCHANGED vars
  BY <1>9, SamePeers, SameLinks, SameOutgoing, SameProofs, SameResources DEF QueueInv, vars
<1> QED BY <1>1, <1>2, <1>3, <1>4, <1>5, <1>6, <1>7, <1>8, <1>9 DEF Next

(* No table outgrows its cap, and each key of a map is in its queue, once, *)
(* whatever is inserted, evicted, answered, closed or reset in any order:  *)
(* the insert_ and remove_ helpers keep map and queue in step.             *)
THEOREM TablesHold == Spec => []TablesInv
<1>1. QueueInv => TablesInv
  BY DEF QueueInv, PeersInv, LinksInv, OutgoingInv, ProofsInv, ResourcesInv, TablesInv,
         Kept, Held
<1> QED BY <1>1, QueueInit, NextQueue, PTL DEF Spec
=============================================================================
