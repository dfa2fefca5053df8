----------------------- MODULE ResourceTransferProofs -----------------------
(***************************************************************************)
(* Theorems about ResourceTransfer for every number of resources, parts,   *)
(* pages, window sizes and receiving threads.                              *)
(***************************************************************************)
EXTENDS ResourceTransfer, FiniteSetTheorems, WellFoundedInduction, TLAPS

-----------------------------------------------------------------------------
(* Facts about the constants and about numbers.                              *)

\* The part indices of a resource are naturals below its part count.
LEMMA IdxFacts ==
  ASSUME NEW r \in Resources
  PROVE  /\ N[r] \in Nat /\ N[r] >= 1
         /\ Idx(r) \subseteq Nat
         /\ \A i \in Nat : i \in Idx(r) <=> i < N[r]
         /\ IsFiniteSet(Idx(r))
         /\ None \notin Idx(r)
         /\ MapHash[r] \in [Idx(r) -> Idx(r)]
         /\ \A i \in Idx(r) : MapHash[r][i] <= i
<1>1. N[r] \in Nat \ {0}  BY ConstantsAssumption
<1>2. Idx(r) \subseteq Nat  BY <1>1 DEF Idx
<1>3. IsFiniteSet(Idx(r))  BY <1>1, FS_Interval DEF Idx
<1>. QED  BY <1>1, <1>2, <1>3, ConstantsAssumption DEF Idx

\* Least picks the smallest element of a set of naturals that has one.
LEMMA LeastFacts ==
  ASSUME NEW S \in SUBSET Nat, S # {}
  PROVE  Least(S) \in S /\ \A j \in S : Least(S) <= j
<1>. DEFINE R == {ss \in Nat \X Nat : ss[1] < ss[2]}
<1>1. IsWellFoundedOn(R, Nat)
  BY NatLessThanWellFounded DEF OpToRel
<1>. HIDE DEF R
<1>2. PICK i \in S : \A j \in S : ~ (<<j, i>> \in R)
  BY <1>1, WFMin
<1>3. \A j \in S : i <= j
  <2>. TAKE j \in S
  <2>1. <<j, i>> \in Nat \X Nat  OBVIOUS
  <2>2. ~ (j < i)  BY <1>2, <2>1 DEF R
  <2>. QED  BY <2>2
<1>. QED  BY <1>3 DEF Least

\* The number of pages before a map-hash never exceeds the number of parts.
LEMMA DivFacts ==
  ASSUME NEW n \in Nat, NEW L \in Nat \ {0}
  PROVE  /\ n \div L \in Nat
         /\ n \div L <= n
         /\ (n \div L) * L <= n
         /\ n % L = 0 => (n \div L) * L = n
<1>1. n \div L \in Nat /\ (n % L) \in 0 .. L - 1 /\ n = L * (n \div L) + (n % L)
  OBVIOUS
<1>2. (n \div L) * L <= n /\ (n % L = 0 => (n \div L) * L = n)
  BY <1>1
<1>3. n \div L <= (n \div L) * L
  BY <1>1
<1>. QED  BY <1>1, <1>2, <1>3

\* Multiples of a page size are ordered as their factors are.
LEMMA MultipleFacts ==
  ASSUME NEW a \in Nat, NEW b \in Nat, NEW L \in Nat \ {0}
  PROVE  /\ a * L \in Nat
         /\ a < b => (a + 1) * L <= b * L
         /\ (a + 1) * L = a * L + L
         /\ a * L <= b * L => a <= b
<1>1. \A d \in Nat : d * L \in Nat  OBVIOUS
<1>2. (a + 1) * L = a * L + L  OBVIOUS
<1>3. \A d \in Nat : (b + d) * L = b * L + d * L  OBVIOUS
<1>4. \A d \in Nat : (a + 1 + d) * L = (a + 1) * L + d * L  OBVIOUS
<1>5. (b + 1) * L = b * L + L  OBVIOUS
<1>6. a < b => (a + 1) * L <= b * L
  <2>. SUFFICES ASSUME a < b  PROVE (a + 1) * L <= b * L  OBVIOUS
  <2>1. PICK d \in Nat : b = a + 1 + d
    <3>1. b - a - 1 \in Nat /\ b = a + 1 + (b - a - 1)  OBVIOUS
    <3>. QED  BY <3>1
  <2>2. d * L \in Nat /\ (a + 1) * L \in Nat /\ b * L = (a + 1) * L + d * L
    BY <1>1, <1>4, <2>1
  <2>. QED  BY <2>2
<1>7. a * L <= b * L => a <= b
  <2>. SUFFICES ASSUME b < a  PROVE b * L < a * L
    BY <1>1
  <2>1. PICK d \in Nat : a = b + 1 + d
    <3>1. a - b - 1 \in Nat /\ a = b + 1 + (a - b - 1)  OBVIOUS
    <3>. QED  BY <3>1
  <2>2. a * L = (b + 1) * L + d * L  BY <2>1
  <2>3. a * L = b * L + L + d * L /\ d * L \in Nat /\ b * L \in Nat
    BY <1>1, <1>5, <2>2
  <2>. QED  BY <2>3
<1>. QED  BY <1>1, <1>2, <1>6, <1>7

\* A multiple of the page size lies on a page boundary.
LEMMA MultipleRemainder ==
  ASSUME NEW a \in Nat, NEW L \in Nat \ {0}
  PROVE  (a * L) % L = 0
<1>. DEFINE n == a * L
            q == n \div L
            m == n % L
<1>1. n \in Nat  BY MultipleFacts
<1>. HIDE DEF n
<1>2. q \in Nat /\ m \in 0 .. L - 1 /\ n = L * q + m  BY <1>1
<1>3. L * q = q * L  BY <1>2
<1>. HIDE DEF q, m
<1>4. q * L \in Nat /\ (q + 1) * L = q * L + L  BY <1>2, MultipleFacts
<1>5. n = q * L + m  BY <1>2, <1>3
<1>6. n = a * L  BY DEF n
<1>7. ~(q < a)
  <2>1. q < a => (q + 1) * L <= a * L  BY <1>2, MultipleFacts
  <2>. QED  BY <1>2, <1>4, <1>5, <1>6, <2>1
<1>8. a * L >= q * L  BY <1>2, <1>4, <1>5, <1>6
<1>9. ~(a < q)
  <2>1. q * L <= a * L => q <= a  BY <1>2, MultipleFacts
  <2>. QED  BY <1>2, <1>8, <2>1
<1>10. q = a  BY <1>2, <1>7, <1>9
<1>11. m = 0  BY <1>2, <1>4, <1>5, <1>6, <1>10
<1>. QED  BY <1>11, <1>6 DEF m

-----------------------------------------------------------------------------
(* Type correctness.                                                         *)

\* What the constructors put into the network are packets.
LEMMA MessageTypes ==
  ASSUME NEW r \in Resources
  PROVE  /\ Adv(r) \in Messages
         /\ Prf(r) \in Messages
         /\ \A w \in SUBSET Idx(r), l \in Idx(r) \cup {None} : Req(r, w, l) \in Messages
         /\ \A i, d \in Idx(r) : Part(r, i, d) \in Messages
         /\ \A p \in 0 .. N[r] : Hmu(r, p) \in Messages
<1>1. Adv(r) \in Messages /\ Prf(r) \in Messages  BY DEF Messages
<1>2. ASSUME NEW w \in SUBSET Idx(r), NEW l \in Idx(r) \cup {None}
      PROVE  Req(r, w, l) \in Messages
  BY DEF Messages
<1>3. ASSUME NEW i \in Idx(r), NEW d \in Idx(r)
      PROVE  Part(r, i, d) \in Messages
  BY DEF Messages
<1>4. ASSUME NEW p \in 0 .. N[r]
      PROVE  Hmu(r, p) \in Messages
  BY DEF Messages
<1>. QED  BY <1>1, <1>2, <1>3, <1>4

\* The fields of the packets the handlers read.
LEMMA MessageFields ==
  ASSUME NEW m \in Messages
  PROVE  /\ m.res \in Resources
         /\ m.type = "ADV" => m = Adv(m.res)
         /\ m.type = "PRF" => m = Prf(m.res)
         /\ m.type = "REQ" => /\ m.wanted \in SUBSET Idx(m.res)
                              /\ m.last \in Idx(m.res) \cup {None}
         /\ m.type = "PART" => m.data \in Idx(m.res)
         /\ m.type = "HMU" => m.page \in 0 .. N[m.res]
<1>1. PICK r \in Resources :
        \/ m = Adv(r)
        \/ m = Prf(r)
        \/ \E w \in SUBSET Idx(r), l \in Idx(r) \cup {None} : m = Req(r, w, l)
        \/ \E i, d \in Idx(r) : m = Part(r, i, d)
        \/ \E p \in 0 .. N[r] : m = Hmu(r, p)
  BY DEF Messages
<1>. QED  BY <1>1 DEF Adv, Prf, Req, Part, Hmu

\* The sender's answers are packets.
LEMMA AnswerTypes ==
  ASSUME NEW m \in Messages, m.type = "REQ"
  PROVE  handle_request(m.res, m) \subseteq Messages
<1>. DEFINE r == m.res
<1>1. /\ r \in Resources /\ m.wanted \in SUBSET Idx(r)
      /\ m.last \in Idx(r) \cup {None}
  BY MessageFields
<1>2. ASSUME NEW i \in m.wanted
      PROVE  Part(r, i, MapHash[r][i]) \in Messages
  BY <1>1, IdxFacts, MessageTypes
<1>3. ASSUME m.last # None
      PROVE  Hmu(r, HmuPage(r, m.last)) \in Messages
  <2>1. /\ MapHash[r][m.last] + 1 \in Nat
        /\ MapHash[r][m.last] + 1 <= N[r]
    BY <1>1, <1>3, IdxFacts
  <2>2. HmuPage(r, m.last) \in 0 .. N[r]
    BY <1>1, <2>1, IdxFacts, DivFacts, ConstantsAssumption DEF HmuPage
  <2>. QED  BY <1>1, <2>2, MessageTypes
<1>. QED  BY <1>2, <1>3 DEF handle_request

\* Page 0 of the hashmap is never empty and starts at index 0.
LEMMA FirstPage ==
  ASSUME NEW r \in Resources
  PROVE  /\ Page(r, 0) = 0 .. Cardinality(Page(r, 0)) - 1
         /\ Cardinality(Page(r, 0)) \in 1 .. N[r]
         /\ \/ Cardinality(Page(r, 0)) = N[r]
            \/ Cardinality(Page(r, 0)) = HASHMAP_MAX_LEN
<1>. DEFINE n == IF N[r] <= HASHMAP_MAX_LEN THEN N[r] ELSE HASHMAP_MAX_LEN
<1>1. n \in 1 .. N[r] /\ (n = N[r] \/ n = HASHMAP_MAX_LEN)
  BY IdxFacts, ConstantsAssumption
<1>2. Page(r, 0) = 0 .. n - 1
  BY IdxFacts, ConstantsAssumption DEF Page, Idx
<1>3. Cardinality(0 .. n - 1) = n
  BY <1>1, FS_Interval
<1>. QED  BY <1>1, <1>2, <1>3

LEMMA AcceptType ==
  ASSUME NEW r \in Resources
  PROVE  /\ accept(r) \in Receiver(r)
         /\ accept(r).hashmap_height - 1 \in Idx(r)
<1>1. /\ Page(r, 0) \subseteq Idx(r)
      /\ Cardinality(Page(r, 0)) \in 1 .. N[r]
  BY FirstPage DEF Page
<1>. QED  BY <1>1, IdxFacts, ConstantsAssumption DEF accept, Receiver, Idx

\* What is requested lies in the window; its size is a number.
LEMMA RequestedFacts ==
  ASSUME NEW r \in Resources, NEW x \in Receiver(r)
  PROVE  /\ x.res = r
         /\ MissingInWindow(x) \subseteq Idx(r)
         /\ Requested(x) \subseteq Idx(r)
         /\ Cardinality(Requested(x)) \in Nat
         /\ Exhausted(x) \in BOOLEAN
<1>1. x.res = r  BY DEF Receiver
<1>2. MissingInWindow(x) \subseteq Idx(r)  BY <1>1 DEF MissingInWindow
<1>3. Requested(x) \subseteq Idx(r)  BY <1>2 DEF Requested
<1>4. IsFiniteSet(Requested(x))  BY <1>3, IdxFacts, FS_Subset
<1>. QED  BY <1>1, <1>2, <1>3, <1>4, FS_CardinalityType DEF Exhausted

LEMMA NextRequestType ==
  ASSUME NEW r \in Resources, NEW x \in Receiver(r)
  PROVE  next_request(x) \in Receiver(r)
BY RequestedFacts DEF next_request, Receiver

\* A request that does not panic is a packet.
LEMMA RequestType ==
  ASSUME NEW r \in Resources, NEW x \in Receiver(r),
         Exhausted(x) => x.hashmap_height - 1 \in Idx(r)
  PROVE  RequestOf(x) \subseteq Messages
BY RequestedFacts, MessageTypes DEF RequestOf

LEMMA PageFinite ==
  ASSUME NEW r \in Resources, NEW p \in Nat, NEW S
  PROVE  /\ Page(r, p) \subseteq Idx(r)
         /\ IsFiniteSet(Page(r, p) \ S)
         /\ Cardinality(Page(r, p) \ S) \in Nat
<1>1. Page(r, p) \subseteq Idx(r)  BY DEF Page
<1>2. Page(r, p) \ S \in SUBSET Idx(r)  BY <1>1
<1>3. IsFiniteSet(Page(r, p) \ S)  BY <1>2, IdxFacts, FS_Subset
<1>. QED  BY <1>1, <1>3, FS_CardinalityType

LEMMA HashmapUpdateType ==
  ASSUME NEW r \in Resources, NEW x \in Receiver(r), NEW p \in Nat
  PROVE  receive_hashmap_update(x, p) \in Receiver(r)
<1>. DEFINE k == x.known \cup Page(x.res, p)
            h == x.hashmap_height + Cardinality(Page(x.res, p) \ x.known)
<1>1. x.res = r /\ x.known \in SUBSET Idx(r) /\ x.hashmap_height \in Nat
  BY DEF Receiver
<1>2. k \in SUBSET Idx(r)  BY <1>1, PageFinite
<1>3. h \in Nat
  <2>1. Cardinality(Page(r, p) \ x.known) \in Nat  BY PageFinite
  <2>. QED  BY <1>1, <2>1
<1>4. receive_hashmap_update(x, p) =
        [x EXCEPT !.known = k, !.hashmap_height = h, !.waiting_for_hmu = FALSE]
  BY DEF receive_hashmap_update
<1>. HIDE DEF k, h
<1>. QED  BY <1>2, <1>3, <1>4 DEF Receiver

\* A stored part fills the lowest matching gap, and consecutive moves to the
\* first gap at or after its old value.
LEMMA ReceivePartFacts ==
  ASSUME NEW r \in Resources, NEW x \in Receiver(r), NEW d \in Idx(r),
         Matches(x, d) # {}
  PROVE  /\ Least(Matches(x, d)) \in Matches(x, d)
         /\ Matches(x, d) \subseteq Idx(r)
         /\ \A p \in [Idx(r) -> Idx(r) \cup {None}] :
              FirstGap(x, p) \in x.consecutive .. N[r]
<1>1. x.res = r /\ x.consecutive \in 0 .. N[r]  BY DEF Receiver
<1>2. Matches(x, d) \subseteq Idx(r)
  BY RequestedFacts DEF Matches
<1>3. Least(Matches(x, d)) \in Matches(x, d)
  BY <1>2, IdxFacts, LeastFacts
<1>4. ASSUME NEW p \in [Idx(r) -> Idx(r) \cup {None}]
      PROVE  FirstGap(x, p) \in x.consecutive .. N[r]
  <2>. DEFINE G == {k \in x.consecutive .. N[r] : k = N[r] \/ p[k] = None}
  <2>1. G \subseteq Nat /\ N[r] \in G  BY <1>1, IdxFacts
  <2>2. Least(G) \in G  BY <2>1, LeastFacts
  <2>. QED  BY <1>1, <2>2 DEF FirstGap
<1>. QED  BY <1>2, <1>3, <1>4

LEMMA ReceivePartType ==
  ASSUME NEW r \in Resources, NEW x \in Receiver(r), NEW d \in Idx(r)
  PROVE  receive_part(x, d) \in Receiver(r)
<1>1. CASE Matches(x, d) = {}
  BY <1>1 DEF receive_part
<1>2. CASE Matches(x, d) # {}
  <2>. DEFINE i == Least(Matches(x, d))
              p == [x.parts EXCEPT ![i] = d]
              left == IF x.outstanding = 0 THEN 0 ELSE x.outstanding - 1
              w == IF left = 0 /\ x.window < WINDOW_MAX THEN x.window + 1 ELSE x.window
  <2>1. p \in [Idx(r) -> Idx(r) \cup {None}]
    BY DEF Receiver
  <2>2. FirstGap(x, p) \in 0 .. N[r]
    BY <1>2, <2>1, ReceivePartFacts, IdxFacts DEF Receiver
  <2>3. left \in Nat /\ w \in 1 .. WINDOW_MAX /\ x.received + 1 \in Nat
    BY ConstantsAssumption DEF Receiver
  <2>4. receive_part(x, d) = [x EXCEPT !.parts = p, !.received = x.received + 1,
                                !.outstanding = left, !.consecutive = FirstGap(x, p),
                                !.window = w]
    BY <1>2 DEF receive_part
  <2>. HIDE DEF i, p, left, w
  <2>. QED  BY <2>1, <2>2, <2>3, <2>4 DEF Receiver
<1>. QED  BY <1>1, <1>2

\* What remains of the network is still made of packets that were in it.
LEMMA RestFacts ==
  ASSUME NEW m, NEW rest \in Rest(m)
  PROVE  /\ rest \subseteq net
         /\ "duplicate" \notin Faults => rest = net \ {m}
BY DEF Rest

\* Continuing an updated receiver keeps the types.
LEMMA ContinueType ==
  ASSUME NEW r \in Resources, NEW x \in Receiver(r),
         NEW rest \in SUBSET Messages,
         poisoned \in BOOLEAN,
         Continue(x, rest)
  PROVE  /\ net' \subseteq Messages
         /\ rx' \in Receiver(r)
         /\ poisoned' \in BOOLEAN
<1>1. CASE RequestPanics(x)
  BY <1>1 DEF Continue
<1>2. CASE ~RequestPanics(x)
  <2>1. rx' = next_request(x) /\ net' = rest \cup RequestOf(x) /\ poisoned' = poisoned
    BY <1>2 DEF Continue
  <2>2. CASE NothingToRequest(x)
    BY <2>1, <2>2, NextRequestType DEF RequestOf
  <2>3. CASE ~NothingToRequest(x)
    <3>1. Exhausted(x) => x.hashmap_height - 1 \in Idx(r)
      BY <1>2, <2>3 DEF RequestPanics, Receiver
    <3>. QED  BY <2>1, <3>1, NextRequestType, RequestType
  <2>. QED  BY <2>2, <2>3
<1>. QED  BY <1>1, <1>2

\* Every reachable state is well typed, with packets duplicated or not.
THEOREM TypeCorrect == Spec => []TypeOK
<1>1. Init => TypeOK
  <2>. SUFFICES ASSUME Init  PROVE TypeOK  OBVIOUS
  <2>1. /\ net \subseteq Messages /\ started \subseteq Resources
        /\ tx \in Resources \cup {None} /\ rx = None
        /\ accepted \subseteq Resources /\ confirmed \subseteq Resources
    BY DEF Init
  <2>2. txLink \in BOOLEAN /\ rxLink \in BOOLEAN /\ poisoned \in BOOLEAN
    BY DEF Init
  <2>3. /\ pc \in [RxThreads -> {"idle", "assemble", "deliver"}]
        /\ held \in [RxThreads -> Resources \cup {None}]
        /\ delivered \in [Resources -> Nat]
    BY DEF Init
  <2>. QED  BY <2>1, <2>2, <2>3 DEF TypeOK
<1>2. TypeOK /\ [Next]_vars => TypeOK'
  <2>. SUFFICES ASSUME TypeOK, [Next]_vars  PROVE TypeOK'
    OBVIOUS
  <2>. USE DEF senderVars, receiverVars
  <2>1. ASSUME NEW r \in Resources, SendResource(r)  PROVE TypeOK'
    BY <2>1, MessageTypes DEF SendResource, TypeOK
  <2>2. ASSUME NEW m \in net, ServeRequest(m)  PROVE TypeOK'
    <3>1. m \in Messages /\ m.type = "REQ"  BY <2>2 DEF ServeRequest, TypeOK
    <3>2. net' \subseteq Messages
      BY <2>2, <3>1, RestFacts, AnswerTypes DEF ServeRequest, TypeOK
    <3>. QED  BY <2>2, <3>2 DEF ServeRequest, TypeOK
  <2>3. ASSUME NEW m \in net, RecvProof(m)  PROVE TypeOK'
    <3>1. net' \subseteq Messages
      BY <2>3, RestFacts DEF RecvProof, TypeOK
    <3>. QED  BY <2>3, <3>1 DEF RecvProof, TypeOK
  <2>4. ASSUME NEW m \in net, Lose(m)  PROVE TypeOK'
    BY <2>4 DEF Lose, TypeOK
  <2>5. ASSUME NEW t \in RxThreads, NEW m \in net, RecvAdv(t, m)  PROVE TypeOK'
    <3>1. m.res \in Resources  BY MessageFields DEF TypeOK
    <3>2. net' \subseteq Messages /\ (rx' = None \/ \E r \in Resources : rx' \in Receiver(r))
      <4>1. PICK rest \in Rest(m) :
              IF Accepts(m.res)
                THEN /\ rx' = next_request(accept(m.res))
                     /\ net' = rest \cup RequestOf(accept(m.res))
                ELSE /\ net' = rest
                     /\ UNCHANGED rx
        BY <2>5 DEF RecvAdv
      <4>2. rest \subseteq Messages  BY RestFacts DEF TypeOK
      <4>3. CASE Accepts(m.res)
        <5>1. accept(m.res) \in Receiver(m.res)  BY <3>1, AcceptType
        <5>2. next_request(accept(m.res)) \in Receiver(m.res)
          BY <3>1, <5>1, NextRequestType
        <5>3. RequestOf(accept(m.res)) \subseteq Messages
          BY <3>1, <5>1, AcceptType, RequestType
        <5>. QED  BY <3>1, <4>1, <4>2, <4>3, <5>2, <5>3
      <4>4. CASE ~Accepts(m.res)
        BY <4>1, <4>2, <4>4 DEF TypeOK
      <4>. QED  BY <4>3, <4>4
    <3>. QED  BY <2>5, <3>2 DEF RecvAdv, TypeOK
  <2>6. ASSUME NEW t \in RxThreads, NEW m \in net, RecvPart(t, m)  PROVE TypeOK'
    <3>1. PICK rest \in Rest(m) :
            IF rx = None
              THEN net' = rest /\ UNCHANGED <<rx, poisoned, pc>>
              ELSE LET mine == rx.res = m.res
                       x    == IF mine THEN receive_part(rx, m.data) ELSE rx
                   IN  IF is_complete(x)
                         THEN /\ rx' = x
                              /\ net' = rest
                              /\ pc' = [pc EXCEPT ![t] = "assemble"]
                              /\ UNCHANGED poisoned
                       ELSE IF mine /\ WindowDone(rx, m.data)
                         THEN Continue(x, rest) /\ UNCHANGED pc
                         ELSE rx' = x /\ net' = rest /\ UNCHANGED <<poisoned, pc>>
      BY <2>6 DEF RecvPart
    <3>2. rest \in SUBSET Messages  BY RestFacts DEF TypeOK
    <3>3. m.type = "PART" /\ m \in Messages
      BY <2>6 DEF RecvPart, CanReceive, TypeOK
    <3>. DEFINE Goal == /\ net' \subseteq Messages
                        /\ rx' = None \/ \E r \in Resources : rx' \in Receiver(r)
                        /\ poisoned' \in BOOLEAN
                        /\ pc' \in [RxThreads -> {"idle", "assemble", "deliver"}]
    <3>. SUFFICES Goal  BY <2>6 DEF RecvPart, TypeOK
    <3>4. CASE rx = None
      BY <3>1, <3>2, <3>4 DEF TypeOK
    <3>5. CASE rx # None
      <4>1. PICK r \in Resources : rx \in Receiver(r)  BY <3>5 DEF TypeOK
      <4>. DEFINE x == IF rx.res = m.res THEN receive_part(rx, m.data) ELSE rx
      <4>2. rx.res = r  BY <4>1 DEF Receiver
      <4>3. rx.res = m.res => m.data \in Idx(r)
        BY <3>3, <4>2, MessageFields
      <4>4. x \in Receiver(r)
        BY <4>1, <4>3, ReceivePartType
      <4>5. \/ /\ rx' = x /\ net' = rest /\ poisoned' = poisoned
               /\ pc' = pc \/ pc' = [pc EXCEPT ![t] = "assemble"]
            \/ Continue(x, rest) /\ pc' = pc
        BY <3>1, <3>5
      <4>. HIDE DEF x
      <4>6. CASE Continue(x, rest) /\ pc' = pc
        <5>1. poisoned \in BOOLEAN  BY DEF TypeOK
        <5>. QED  BY <3>2, <4>4, <4>6, <5>1, ContinueType DEF TypeOK
      <4>7. CASE /\ rx' = x /\ net' = rest /\ poisoned' = poisoned
                 /\ pc' = pc \/ pc' = [pc EXCEPT ![t] = "assemble"]
        BY <3>2, <4>4, <4>7 DEF TypeOK
      <4>. QED  BY <4>5, <4>6, <4>7
    <3>. QED  BY <3>4, <3>5
  <2>7. ASSUME NEW t \in RxThreads, NEW m \in net, RecvHmu(t, m)  PROVE TypeOK'
    <3>1. PICK rest \in Rest(m) :
            IF rx # None /\ rx.res = m.res
              THEN Continue(receive_hashmap_update(rx, m.page), rest)
              ELSE net' = rest /\ UNCHANGED <<rx, poisoned>>
      BY <2>7 DEF RecvHmu
    <3>2. rest \in SUBSET Messages  BY RestFacts DEF TypeOK
    <3>3. m.type = "HMU" /\ m \in Messages
      BY <2>7 DEF RecvHmu, CanReceive, TypeOK
    <3>. DEFINE Goal == /\ net' \subseteq Messages
                        /\ rx' = None \/ \E r \in Resources : rx' \in Receiver(r)
                        /\ poisoned' \in BOOLEAN
    <3>. SUFFICES Goal  BY <2>7 DEF RecvHmu, TypeOK
    <3>4. CASE rx # None /\ rx.res = m.res
      <4>1. PICK r \in Resources : rx \in Receiver(r)  BY <3>4 DEF TypeOK
      <4>2. rx.res = r  BY <4>1 DEF Receiver
      <4>3. m.page \in Nat  BY <3>3, <3>4, <4>2, MessageFields, IdxFacts
      <4>4. receive_hashmap_update(rx, m.page) \in Receiver(r)
        BY <4>1, <4>3, HashmapUpdateType
      <4>5. poisoned \in BOOLEAN  BY DEF TypeOK
      <4>. QED  BY <3>1, <3>2, <3>4, <4>4, <4>5, ContinueType
    <3>5. CASE ~(rx # None /\ rx.res = m.res)
      BY <3>1, <3>2, <3>5 DEF TypeOK
    <3>. QED  BY <3>4, <3>5
  <2>8. ASSUME NEW t \in RxThreads, Assemble(t)  PROVE TypeOK'
    <3>1. rx # None => rx.res \in Resources
      BY DEF TypeOK, Receiver
    <3>. QED  BY <2>8, <3>1, MessageTypes DEF Assemble, TypeOK
  <2>9. ASSUME NEW t \in RxThreads, Deliver(t)  PROVE TypeOK'
    <3>1. delivered \in [Resources -> Nat]  BY DEF TypeOK
    <3>2. delivered' = [delivered EXCEPT ![held[t]] = delivered[held[t]] + 1]
      BY <2>9 DEF Deliver
    <3>3. delivered' \in [Resources -> Nat]
      <4>1. delivered' = [r \in Resources |-> IF r = held[t] THEN delivered[r] + 1
                                              ELSE delivered[r]]
        BY <3>1, <3>2
      <4>. QED  BY <3>1, <4>1
    <3>4. /\ pc' \in [RxThreads -> {"idle", "assemble", "deliver"}]
          /\ held' \in [RxThreads -> Resources \cup {None}]
      BY <2>9 DEF Deliver, TypeOK
    <3>. QED  BY <2>9, <3>3, <3>4 DEF Deliver, TypeOK
  <2>10. CASE SenderLosesLink
    BY <2>10 DEF SenderLosesLink, TypeOK
  <2>11. CASE ReceiverLosesLink
    BY <2>11 DEF ReceiverLosesLink, TypeOK
  <2>12. CASE EvictReceiver
    BY <2>12 DEF EvictReceiver, TypeOK
  <2>13. CASE UNCHANGED vars
    BY <2>13 DEF vars, TypeOK
  <2>. QED
    BY <2>1, <2>2, <2>3, <2>4, <2>5, <2>6, <2>7, <2>8, <2>9, <2>10, <2>11, <2>12, <2>13
       DEF Next
<1>. QED  BY <1>1, <1>2, PTL DEF Spec

-----------------------------------------------------------------------------
(* The known hashmap stays a prefix, and nobody runs ahead of it.            *)

\* A receiver whose known map-hashes are a prefix ending on a page boundary.
HasPrefix(r, x) ==
  /\ x \in Receiver(r)
  /\ x.known = 0 .. x.hashmap_height - 1
  /\ PageBoundary(r, x.hashmap_height)

LEMMA AcceptPrefix ==
  ASSUME NEW r \in Resources
  PROVE  HasPrefix(r, accept(r))
<1>1. accept(r) \in Receiver(r)  BY AcceptType
<1>2. HASHMAP_MAX_LEN % HASHMAP_MAX_LEN = 0  BY ConstantsAssumption
<1>. QED  BY <1>1, <1>2, FirstPage DEF HasPrefix, PageBoundary, accept

\* An update that leaves no gap extends the prefix by what is new in its page.
LEMMA UpdatePrefix ==
  ASSUME NEW r \in Resources, NEW x, HasPrefix(r, x),
         NEW p \in Nat, p * HASHMAP_MAX_LEN <= x.hashmap_height
  PROVE  /\ HasPrefix(r, receive_hashmap_update(x, p))
         /\ receive_hashmap_update(x, p).hashmap_height >= x.hashmap_height
<1>. DEFINE L == HASHMAP_MAX_LEN
            h == x.hashmap_height
            y == receive_hashmap_update(x, p)
<1>1. /\ x \in Receiver(r) /\ x.res = r /\ x.known = 0 .. h - 1
      /\ h \in 1 .. N[r] /\ (h = N[r] \/ h % L = 0)
      /\ L \in Nat \ {0} /\ N[r] \in Nat
  BY ConstantsAssumption, IdxFacts DEF HasPrefix, PageBoundary, Receiver
<1>2. /\ y \in Receiver(r)
      /\ y.known = x.known \cup Page(r, p)
      /\ y.hashmap_height = h + Cardinality(Page(r, p) \ x.known)
  BY <1>1, HashmapUpdateType DEF receive_hashmap_update, Receiver
<1>. HIDE DEF y
<1>3. CASE Page(r, p) \subseteq x.known
  <2>1. Cardinality(Page(r, p) \ x.known) = 0
    <3>1. Page(r, p) \ x.known = {}  BY <1>3
    <3>. QED  BY <3>1, FS_EmptySet
  <2>2. y.hashmap_height = h  BY <1>1, <1>2, <2>1
  <2>3. y.known = x.known  BY <1>2, <1>3
  <2>. QED  BY <1>1, <1>2, <2>2, <2>3 DEF HasPrefix, PageBoundary, y
<1>4. CASE ~(Page(r, p) \subseteq x.known)
  <2>. DEFINE e == IF h + L <= N[r] THEN h + L ELSE N[r]
  <2>1. h # N[r]
    BY <1>1, <1>4, IdxFacts DEF Page
  <2>2. h = (h \div L) * L /\ h \div L \in Nat
    <3>1. h \in Nat /\ h % L = 0 /\ L \in Nat \ {0}  BY <1>1, <2>1
    <3>. QED  BY <3>1, DivFacts
  <2>3. p <= h \div L
    <3>1. p * L <= (h \div L) * L  BY <2>2
    <3>. QED  BY <1>1, <2>2, <3>1, MultipleFacts
  <2>4. ~(p < h \div L)
    <3>. SUFFICES ASSUME p < h \div L  PROVE FALSE  OBVIOUS
    <3>1. (p + 1) * L <= h
      <4>1. (p + 1) * L <= (h \div L) * L  BY <1>1, <2>2, MultipleFacts
      <4>. QED  BY <2>2, <4>1
    <3>. QED  BY <1>1, <1>4, <3>1, IdxFacts DEF Page
  <2>5. p * L = h /\ (p + 1) * L = h + L
    <3>1. p = h \div L  BY <2>2, <2>3, <2>4
    <3>2. (p + 1) * L = p * L + L  BY <1>1, MultipleFacts
    <3>. QED  BY <2>2, <3>1, <3>2
  <2>6. Page(r, p) = h .. e - 1
    BY <1>1, <2>5, IdxFacts DEF Page, Idx
  <2>7. e \in Nat /\ e >= h + 1 /\ e <= N[r]  BY <1>1, <2>1
  <2>7a. e = N[r] \/ e = h + L  OBVIOUS
  <2>. HIDE DEF e
  <2>8. Page(r, p) \ x.known = h .. e - 1  BY <1>1, <2>6, <2>7
  <2>9. Cardinality(h .. e - 1) = e - h
    <3>1. h \in Int /\ e - 1 \in Int /\ ~(h > e - 1)  BY <1>1, <2>7
    <3>2. Cardinality(h .. e - 1) = (e - 1) - h + 1
      BY <3>1, FS_Interval
    <3>. QED  BY <1>1, <2>7, <3>2
  <2>10. y.hashmap_height = e
    <3>1. y.hashmap_height = h + (e - h)  BY <1>2, <2>8, <2>9
    <3>. QED  BY <1>1, <2>7, <3>1
  <2>11. y.known = 0 .. e - 1  BY <1>1, <1>2, <2>6, <2>7
  <2>12. e = N[r] \/ e % L = 0
    <3>1. ((p + 1) * L) % L = 0
      <4>1. p + 1 \in Nat  OBVIOUS
      <4>. QED  BY <1>1, <4>1, MultipleRemainder
    <3>. QED  BY <2>5, <2>7a, <3>1
  <2>. QED  BY <1>1, <1>2, <2>7, <2>10, <2>11, <2>12 DEF HasPrefix, PageBoundary, y
<1>. QED  BY <1>3, <1>4

\* Receiving a part and building a request leave the hashmap alone.
LEMMA HashmapUntouched ==
  ASSUME NEW r \in Resources, NEW x, HasPrefix(r, x)
  PROVE  /\ HasPrefix(r, next_request(x))
         /\ next_request(x).hashmap_height = x.hashmap_height
         /\ \A d \in Idx(r) :
              /\ HasPrefix(r, receive_part(x, d))
              /\ receive_part(x, d).hashmap_height = x.hashmap_height
<1>1. x \in Receiver(r)  BY DEF HasPrefix
<1>2. /\ next_request(x) \in Receiver(r)
      /\ next_request(x).hashmap_height = x.hashmap_height
      /\ next_request(x).known = x.known
  BY <1>1, NextRequestType DEF next_request, Receiver
<1>3. ASSUME NEW d \in Idx(r)
      PROVE  /\ receive_part(x, d) \in Receiver(r)
             /\ receive_part(x, d).hashmap_height = x.hashmap_height
             /\ receive_part(x, d).known = x.known
  <2>1. receive_part(x, d) \in Receiver(r)  BY <1>1, ReceivePartType
  <2>2. CASE Matches(x, d) = {}
    BY <2>1, <2>2 DEF receive_part
  <2>3. CASE Matches(x, d) # {}
    <3>. DEFINE i == Least(Matches(x, d))
                p == [x.parts EXCEPT ![i] = d]
                left == IF x.outstanding = 0 THEN 0 ELSE x.outstanding - 1
                w == IF left = 0 /\ x.window < WINDOW_MAX THEN x.window + 1 ELSE x.window
    <3>1. receive_part(x, d) = [x EXCEPT !.parts = p, !.received = x.received + 1,
                                  !.outstanding = left, !.consecutive = FirstGap(x, p),
                                  !.window = w]
      BY <2>3 DEF receive_part
    <3>. HIDE DEF i, p, left, w
    <3>. QED  BY <1>1, <2>1, <3>1 DEF Receiver
  <2>. QED  BY <2>2, <2>3
<1>. QED  BY <1>2, <1>3 DEF HasPrefix

\* The expect("known prefix") cannot fire on such a receiver, and its request
\* names a known map-hash.
LEMMA PrefixRequest ==
  ASSUME NEW r \in Resources, NEW x, HasPrefix(r, x)
  PROVE  /\ ~RequestPanics(x)
         /\ \A q \in RequestOf(x) : /\ q.type = "REQ"
                                    /\ q.res = r
                                    /\ q.last # None => q.last < x.hashmap_height
<1>1. /\ x \in Receiver(r) /\ x.res = r
      /\ x.hashmap_height \in Nat \ {0}
      /\ x.known = 0 .. x.hashmap_height - 1
  BY IdxFacts DEF HasPrefix, PageBoundary, Receiver
<1>2. ~RequestPanics(x)  BY <1>1 DEF RequestPanics
<1>. QED  BY <1>1, <1>2 DEF RequestOf, Req

\* The sender serves the page that follows the one a request names.
LEMMA AnswerFacts ==
  ASSUME NEW m \in Messages, m.type = "REQ", NEW q \in handle_request(m.res, m)
  PROVE  /\ q.type = "PART" \/ q.type = "HMU"
         /\ q.res = m.res
         /\ q.type = "HMU" => /\ m.last # None
                              /\ q.page * HASHMAP_MAX_LEN <= m.last + 1
<1>. DEFINE r == m.res
<1>1. r \in Resources /\ m.last \in Idx(r) \cup {None}
  BY MessageFields
<1>2. CASE \E i \in m.wanted : q = Part(r, i, MapHash[r][i])
  BY <1>2 DEF Part
<1>3. CASE m.last # None /\ q = Hmu(r, HmuPage(r, m.last))
  <2>1. m.last \in Idx(r)  BY <1>1, <1>3
  <2>2. /\ MapHash[r][m.last] + 1 \in Nat /\ m.last \in Nat
        /\ MapHash[r][m.last] + 1 <= m.last + 1
    BY <1>1, <2>1, IdxFacts
  <2>3. HmuPage(r, m.last) * HASHMAP_MAX_LEN <= MapHash[r][m.last] + 1
    BY <2>2, DivFacts, ConstantsAssumption DEF HmuPage
  <2>4. HmuPage(r, m.last) \in Nat
    BY <2>2, DivFacts, ConstantsAssumption DEF HmuPage
  <2>5. HmuPage(r, m.last) * HASHMAP_MAX_LEN \in Nat
    BY <2>4, ConstantsAssumption
  <2>6. HmuPage(r, m.last) * HASHMAP_MAX_LEN <= m.last + 1
    BY <2>2, <2>3, <2>5
  <2>. QED  BY <1>3, <2>6 DEF Hmu
<1>. QED  BY <1>2, <1>3 DEF handle_request

-----------------------------------------------------------------------------
(* The inductive invariant TransferInv, one lemma per action.                *)

\* A step of the receiver that updates the transfer in progress to y, sends
\* only a request for known map-hashes, and hands nothing over.
LEMMA ReceiverAdvances ==
  ASSUME TypeOK, TransferInv,
         NEW r \in Resources, rx \in Receiver(r), rx # None,
         NEW y, HasPrefix(r, y), y.hashmap_height >= rx.hashmap_height,
         rx' = y,
         NEW m \in net, NEW sent,
         net' = (net \ {m}) \cup sent,
         \A q \in sent : /\ q.type = "REQ"
                         /\ q.res = r
                         /\ q.last # None => q.last < y.hashmap_height,
         \A t \in RxThreads : pc'[t] = "deliver" <=> pc[t] = "deliver",
         UNCHANGED <<started, poisoned, held, accepted, delivered, confirmed>>
  PROVE  TransferInv'
<1>1. /\ rx.res = r /\ y.res = r
      /\ rx.hashmap_height \in Nat /\ y.hashmap_height \in Nat
  BY DEF Receiver, HasPrefix
<1>2. PrefixKnown'
  BY <1>1 DEF HasPrefix, PrefixKnown
<1>3. NoPageAhead'
  <2>. SUFFICES ASSUME NEW q \in net', q.res = r
                PROVE  /\ q.type = "HMU" => q.page * HASHMAP_MAX_LEN <= y.hashmap_height
                       /\ q.type = "REQ" /\ q.last # None => q.last < y.hashmap_height
    BY <1>1 DEF NoPageAhead
  <2>1. CASE q \in sent  BY <2>1
  <2>2. CASE q \in net
    <3>1. /\ q \in Messages
          /\ q.type = "HMU" => q.page * HASHMAP_MAX_LEN <= rx.hashmap_height
          /\ q.type = "REQ" /\ q.last # None => q.last < rx.hashmap_height
      BY <1>1, <2>2 DEF TypeOK, TransferInv, NoPageAhead
    <3>2. q.type = "HMU" => q.page * HASHMAP_MAX_LEN \in Nat
      BY <3>1, MessageFields, IdxFacts, ConstantsAssumption
    <3>3. q.type = "REQ" /\ q.last # None => q.last \in Nat
      BY <3>1, MessageFields, IdxFacts
    <3>. QED  BY <1>1, <3>1, <3>2, <3>3
  <2>. QED  BY <2>1, <2>2
<1>4. ExpectHolds'
  BY DEF TransferInv, ExpectHolds
<1>5. AdvIsFirst'
  <2>1. \A q \in Resources : Adv(q) \in net' => Adv(q) \in net
    BY DEF Adv
  <2>2. Adv(r) \notin net /\ r \in started
    BY <1>1 DEF TransferInv, AdvIsFirst
  <2>. QED  BY <1>1, <2>1, <2>2 DEF TransferInv, AdvIsFirst
<1>6. HandedOnce'
  BY <1>1 DEF TransferInv, HandedOnce
<1>7. ProofsAreTrue'
  BY DEF TransferInv, ProofsAreTrue
<1>. QED  BY <1>2, <1>3, <1>4, <1>5, <1>6, <1>7 DEF TransferInv

\* A step that only takes packets away from the network, and perhaps the
\* transfer in progress away from the receiver's table.
LEMMA OnlyRemoves ==
  ASSUME TransferInv,
         net' \subseteq net,
         rx' = rx \/ rx' = None,
         \A t \in RxThreads : pc'[t] = "deliver" <=> pc[t] = "deliver",
         UNCHANGED <<started, poisoned, held, accepted, delivered>>,
         confirmed' \subseteq accepted
  PROVE  TransferInv'
<1>1. PrefixKnown' /\ NoPageAhead'
  BY DEF TransferInv, PrefixKnown, NoPageAhead, PageBoundary
<1>2. ExpectHolds'
  BY DEF TransferInv, ExpectHolds
<1>3. AdvIsFirst'
  BY DEF TransferInv, AdvIsFirst
<1>4. HandedOnce'
  BY DEF TransferInv, HandedOnce
<1>5. ProofsAreTrue'
  BY DEF TransferInv, ProofsAreTrue
<1>. QED  BY <1>1, <1>2, <1>3, <1>4, <1>5 DEF TransferInv

\* None is not a record.
LEMMA NotNone ==
  ASSUME TypeOK, rx # None
  PROVE  \E r \in Resources : rx \in Receiver(r) /\ rx.res = r
BY DEF TypeOK, Receiver

\* A fresh resource is advertised: nothing of it existed before.
LEMMA SendStep ==
  ASSUME TypeOK, TransferInv, NEW r \in Resources, SendResource(r)
  PROVE  TransferInv'
<1>. USE DEF SendResource, receiverVars
<1>1. /\ r \notin started
      /\ \A m \in net : m.res # r
      /\ rx = None \/ rx.res # r
      /\ r \notin accepted
  BY DEF TransferInv, AdvIsFirst
<1>2. PrefixKnown' /\ ExpectHolds' /\ HandedOnce'
  BY DEF TransferInv, PrefixKnown, PageBoundary, ExpectHolds, HandedOnce
<1>3. NoPageAhead'
  BY <1>1 DEF TransferInv, NoPageAhead, Adv
<1>4. AdvIsFirst'
  <2>. SUFFICES ASSUME NEW q \in Resources
                PROVE  /\ Adv(q) \in net' => /\ \A m \in net' : m.res = q => m = Adv(q)
                                             /\ rx' = None \/ rx'.res # q
                                             /\ q \notin accepted'
                       /\ q \notin started' => /\ \A m \in net' : m.res # q
                                               /\ rx' = None \/ rx'.res # q
                                               /\ q \notin accepted'
    BY DEF AdvIsFirst
  <2>1. CASE q = r
    BY <1>1, <2>1 DEF Adv
  <2>2. CASE q # r
    <3>1. Adv(q) \in net' => Adv(q) \in net  BY <2>2 DEF Adv
    <3>2. Adv(r).res = r  BY DEF Adv
    <3>. QED  BY <2>2, <3>1, <3>2 DEF TransferInv, AdvIsFirst
  <2>. QED  BY <2>1, <2>2
<1>5. ProofsAreTrue'
  BY DEF TransferInv, ProofsAreTrue, Adv
<1>. QED  BY <1>2, <1>3, <1>4, <1>5 DEF TransferInv

\* The sender answers a request: the page it serves is not ahead.
LEMMA ServeStep ==
  ASSUME TypeOK, TransferInv, "duplicate" \notin Faults,
         NEW m \in net, ServeRequest(m)
  PROVE  TransferInv'
<1>1. /\ m \in Messages /\ m.type = "REQ" /\ m.res \in Resources
      /\ UNCHANGED <<started, rx, poisoned, pc, held, accepted, delivered, confirmed>>
  BY MessageFields DEF ServeRequest, TypeOK, senderVars, receiverVars
<1>. DEFINE sent == IF tx = m.res THEN handle_request(m.res, m) ELSE {}
<1>2. /\ net' = (net \ {m}) \cup sent
      /\ sent \subseteq handle_request(m.res, m)
  BY RestFacts DEF ServeRequest
<1>. HIDE DEF sent
<1>3. \A q \in sent : /\ q.type = "PART" \/ q.type = "HMU"
                      /\ q.res = m.res
                      /\ q.type = "HMU" => /\ m.last # None
                                           /\ q.page * HASHMAP_MAX_LEN <= m.last + 1
                      /\ q \in Messages
  BY <1>1, <1>2, AnswerFacts, AnswerTypes
<1>4. PrefixKnown' /\ ExpectHolds' /\ HandedOnce'
  BY <1>1 DEF TransferInv, PrefixKnown, PageBoundary, ExpectHolds, HandedOnce
<1>5. NoPageAhead'
  <2>. SUFFICES ASSUME rx # None, NEW q \in net', q.res = rx.res
                PROVE  /\ q.type = "HMU" => q.page * HASHMAP_MAX_LEN <= rx.hashmap_height
                       /\ q.type = "REQ" /\ q.last # None => q.last < rx.hashmap_height
    BY <1>1 DEF NoPageAhead
  <2>1. CASE q \in net
    BY <2>1 DEF TransferInv, NoPageAhead
  <2>2. CASE q \in sent
    <3>1. m.last # None => m.last < rx.hashmap_height
      BY <1>1, <1>3, <2>2 DEF TransferInv, NoPageAhead
    <3>2. m.last # None => m.last \in Nat
      BY <1>1, MessageFields, IdxFacts
    <3>3. rx.hashmap_height \in Nat
      BY NotNone DEF Receiver
    <3>4. q.type = "HMU" => q.page * HASHMAP_MAX_LEN \in Nat
      BY <1>3, <2>2, MessageFields, IdxFacts, ConstantsAssumption
    <3>. QED  BY <1>3, <2>2, <3>1, <3>2, <3>3, <3>4
  <2>. QED  BY <1>2, <2>1, <2>2
<1>6. AdvIsFirst'
  <2>1. \A q \in Resources : Adv(q) \in net' => Adv(q) \in net
    BY <1>2, <1>3 DEF Adv
  <2>2. Adv(m.res) \notin net /\ m.res \in started
    BY <1>1 DEF TransferInv, AdvIsFirst, Adv
  <2>. QED  BY <1>1, <1>2, <1>3, <2>1, <2>2 DEF TransferInv, AdvIsFirst
<1>7. ProofsAreTrue'
  BY <1>1, <1>2, <1>3 DEF TransferInv, ProofsAreTrue
<1>. QED  BY <1>4, <1>5, <1>6, <1>7 DEF TransferInv

\* A proof confirms only what was accepted.
LEMMA ProofStep ==
  ASSUME TypeOK, TransferInv, NEW m \in net, RecvProof(m)
  PROVE  TransferInv'
<1>1. net' \subseteq net  BY RestFacts DEF RecvProof
<1>2. m.type = "PRF" /\ m.res \in accepted
  BY DEF RecvProof, TransferInv, ProofsAreTrue
<1>3. confirmed' \subseteq accepted
  BY <1>2 DEF RecvProof, ProofIsValid, TransferInv, ProofsAreTrue
<1>. QED  BY <1>1, <1>3, OnlyRemoves DEF RecvProof, receiverVars

\* A new receiver knows the first page and meets nothing older.
LEMMA AdvStep ==
  ASSUME TypeOK, TransferInv, "duplicate" \notin Faults,
         NEW t \in RxThreads, NEW m \in net, RecvAdv(t, m)
  PROVE  TransferInv'
<1>. DEFINE r == m.res
            x == accept(r)
<1>1. /\ m = Adv(r) /\ r \in Resources
      /\ UNCHANGED <<started, poisoned, pc, held, accepted, delivered, confirmed>>
  BY MessageFields DEF RecvAdv, CanReceive, TypeOK, senderVars
<1>2. \/ net' = net \ {m} /\ rx' = rx
      \/ net' = (net \ {m}) \cup RequestOf(x) /\ rx' = next_request(x)
  BY RestFacts DEF RecvAdv
<1>3. CASE net' = net \ {m} /\ rx' = rx
  BY <1>1, <1>3, OnlyRemoves DEF TransferInv, ProofsAreTrue
<1>4. CASE net' = (net \ {m}) \cup RequestOf(x) /\ rx' = next_request(x)
  <2>. DEFINE y == next_request(x)
  <2>1. /\ \A q \in net \ {m} : q.res # r
        /\ r \notin accepted /\ r \in started
    BY <1>1 DEF TransferInv, AdvIsFirst, Adv
  <2>2. HasPrefix(r, x) /\ HasPrefix(r, y) /\ y.hashmap_height = x.hashmap_height
    BY <1>1, AcceptPrefix, HashmapUntouched
  <2>3. y.res = r  BY <2>2 DEF HasPrefix, Receiver
  <2>4. \A q \in RequestOf(x) : /\ q.type = "REQ"
                                /\ q.res = r
                                /\ q.last # None => q.last < y.hashmap_height
    BY <1>1, <2>2, PrefixRequest
  <2>. HIDE DEF x, y
  <2>5. PrefixKnown'
    BY <1>4, <2>2, <2>3 DEF PrefixKnown, HasPrefix, y
  <2>6. NoPageAhead'
    BY <1>4, <2>1, <2>3, <2>4 DEF NoPageAhead, y
  <2>7. ExpectHolds'  BY <1>1 DEF TransferInv, ExpectHolds
  <2>8. AdvIsFirst'
    <3>1. \A q \in Resources : Adv(q) \in net' => Adv(q) \in net /\ q # r
      BY <1>1, <1>4, <2>4 DEF Adv
    <3>. QED  BY <1>1, <1>4, <2>1, <2>3, <2>4, <3>1 DEF TransferInv, AdvIsFirst, y
  <2>9. HandedOnce'
    BY <1>1, <1>4, <2>1, <2>3 DEF TransferInv, HandedOnce, y
  <2>10. ProofsAreTrue'
    BY <1>1, <1>4, <2>4 DEF TransferInv, ProofsAreTrue
  <2>. QED  BY <2>5, <2>6, <2>7, <2>8, <2>9, <2>10 DEF TransferInv
<1>. QED  BY <1>2, <1>3, <1>4

\* Requesting again never panics on a prefix, and asks for known parts only.
LEMMA ContinuePrefix ==
  ASSUME NEW r \in Resources, NEW x, HasPrefix(r, x), NEW rest, Continue(x, rest)
  PROVE  /\ poisoned' = poisoned
         /\ rx' = next_request(x)
         /\ net' = rest \cup RequestOf(x)
BY PrefixRequest DEF Continue

\* The receiver of the resource in progress, as the invariant describes it.
LEMMA CurrentPrefix ==
  ASSUME TypeOK, TransferInv, rx # None
  PROVE  rx.res \in Resources /\ HasPrefix(rx.res, rx)
BY NotNone DEF TransferInv, PrefixKnown, HasPrefix

\* A part leaves the hashmap alone; a finished window asks for the next one.
LEMMA PartStep ==
  ASSUME TypeOK, TransferInv, "duplicate" \notin Faults,
         NEW t \in RxThreads, NEW m \in net, RecvPart(t, m)
  PROVE  TransferInv'
<1>1. /\ m \in Messages /\ m.type = "PART" /\ pc[t] = "idle"
      /\ UNCHANGED <<started, held, accepted, delivered, confirmed>>
  BY DEF RecvPart, CanReceive, TypeOK, senderVars
<1>2. CASE rx = None
  <2>1. net' = net \ {m} /\ UNCHANGED <<rx, poisoned, pc>>
    BY <1>2, RestFacts DEF RecvPart
  <2>. QED  BY <1>1, <2>1, OnlyRemoves DEF TransferInv, ProofsAreTrue
<1>3. CASE rx # None
  <2>. DEFINE r == rx.res
              x == IF r = m.res THEN receive_part(rx, m.data) ELSE rx
  <2>1. r \in Resources /\ HasPrefix(r, rx) /\ rx \in Receiver(r)
    BY <1>3, CurrentPrefix DEF HasPrefix
  <2>2. HasPrefix(r, x) /\ x.hashmap_height = rx.hashmap_height
    BY <1>1, <2>1, HashmapUntouched, MessageFields
  <2>3. rx.hashmap_height \in Nat  BY <2>1 DEF Receiver
  <2>4. \/ /\ rx' = x /\ net' = net \ {m} /\ poisoned' = poisoned
           /\ pc' = pc \/ pc' = [pc EXCEPT ![t] = "assemble"]
        \/ Continue(x, net \ {m}) /\ pc' = pc
    BY <1>3, RestFacts DEF RecvPart
  <2>5. \A u \in RxThreads : pc'[u] = "deliver" <=> pc[u] = "deliver"
    BY <1>1, <2>4 DEF TypeOK
  <2>. HIDE DEF x
  <2>6. CASE rx' = x /\ net' = net \ {m} /\ poisoned' = poisoned
    <3>. DEFINE sent == {}
    <3>1. net' = (net \ {m}) \cup sent  BY <2>6
    <3>2. \A q \in sent : /\ q.type = "REQ"
                          /\ q.res = r
                          /\ q.last # None => q.last < x.hashmap_height
      OBVIOUS
    <3>3. x.hashmap_height >= rx.hashmap_height  BY <2>2, <2>3
    <3>. HIDE DEF sent
    <3>. QED  BY <1>1, <1>3, <2>1, <2>2, <2>5, <2>6, <3>1, <3>2, <3>3, ReceiverAdvances
  <2>7. CASE Continue(x, net \ {m})
    <3>. DEFINE y == next_request(x)
                sent == RequestOf(x)
    <3>1. poisoned' = poisoned /\ rx' = y /\ net' = (net \ {m}) \cup sent
      BY <2>1, <2>2, <2>7, ContinuePrefix
    <3>2. HasPrefix(r, y) /\ y.hashmap_height >= rx.hashmap_height
      BY <2>1, <2>2, <2>3, HashmapUntouched
    <3>3. \A q \in sent : /\ q.type = "REQ"
                          /\ q.res = r
                          /\ q.last # None => q.last < y.hashmap_height
      BY <2>1, <2>2, PrefixRequest, HashmapUntouched
    <3>. HIDE DEF y, sent
    <3>. QED  BY <1>1, <1>3, <2>1, <2>5, <3>1, <3>2, <3>3, ReceiverAdvances
  <2>. QED  BY <2>4, <2>6, <2>7
<1>. QED  BY <1>2, <1>3

\* An update extends the prefix, because it is not ahead of it.
LEMMA HmuStep ==
  ASSUME TypeOK, TransferInv, "duplicate" \notin Faults,
         NEW t \in RxThreads, NEW m \in net, RecvHmu(t, m)
  PROVE  TransferInv'
<1>1. /\ m \in Messages /\ m.type = "HMU"
      /\ UNCHANGED <<started, pc, held, accepted, delivered, confirmed>>
  BY DEF RecvHmu, CanReceive, TypeOK, senderVars
<1>2. CASE ~(rx # None /\ rx.res = m.res)
  <2>1. net' = net \ {m} /\ UNCHANGED <<rx, poisoned>>
    BY <1>2, RestFacts DEF RecvHmu
  <2>. QED  BY <1>1, <2>1, OnlyRemoves DEF TransferInv, ProofsAreTrue
<1>3. CASE rx # None /\ rx.res = m.res
  <2>. DEFINE r == rx.res
              x == receive_hashmap_update(rx, m.page)
              y == next_request(x)
              sent == RequestOf(x)
  <2>1. r \in Resources /\ HasPrefix(r, rx) /\ rx \in Receiver(r)
    BY <1>3, CurrentPrefix DEF HasPrefix
  <2>2. m.page \in Nat /\ m.page * HASHMAP_MAX_LEN <= rx.hashmap_height
    BY <1>1, <1>3, <2>1, MessageFields, IdxFacts DEF TransferInv, NoPageAhead
  <2>3. HasPrefix(r, x) /\ x.hashmap_height >= rx.hashmap_height
    BY <2>1, <2>2, UpdatePrefix
  <2>4. Continue(x, net \ {m})
    BY <1>3, RestFacts DEF RecvHmu
  <2>. HIDE DEF x
  <2>5. poisoned' = poisoned /\ rx' = y /\ net' = (net \ {m}) \cup sent
    BY <2>1, <2>3, <2>4, ContinuePrefix
  <2>6. HasPrefix(r, y) /\ y.hashmap_height >= rx.hashmap_height
    BY <2>1, <2>3, HashmapUntouched
  <2>7. \A q \in sent : /\ q.type = "REQ"
                        /\ q.res = r
                        /\ q.last # None => q.last < y.hashmap_height
    BY <2>1, <2>3, PrefixRequest, HashmapUntouched
  <2>. HIDE DEF y, sent
  <2>. QED  BY <1>1, <1>3, <2>1, <2>5, <2>6, <2>7, ReceiverAdvances
<1>. QED  BY <1>2, <1>3

\* Assembly takes the receiver away and puts its payload in one thread's hands.
LEMMA AssembleStep ==
  ASSUME TypeOK, TransferInv, NEW t \in RxThreads, Assemble(t)
  PROVE  TransferInv'
<1>1. /\ pc[t] = "assemble" /\ rx' = None
      /\ UNCHANGED <<started, poisoned, delivered, confirmed>>
  BY DEF Assemble, senderVars
<1>2. CASE ~(rx # None /\ rxLink /\ Intact(rx))
  <2>1. /\ pc' = [pc EXCEPT ![t] = "idle"]
        /\ UNCHANGED <<held, accepted, net>>
    BY <1>2 DEF Assemble
  <2>2. \A u \in RxThreads : pc'[u] = "deliver" <=> pc[u] = "deliver"
    BY <1>1, <2>1 DEF TypeOK
  <2>. QED  BY <1>1, <2>1, <2>2, OnlyRemoves DEF TransferInv, ProofsAreTrue
<1>3. CASE rx # None /\ rxLink /\ Intact(rx)
  <2>. DEFINE r == rx.res
  <2>1. /\ pc' = [pc EXCEPT ![t] = "deliver"]
        /\ held' = [held EXCEPT ![t] = r]
        /\ accepted' = accepted \cup {r}
        /\ net' = net \cup {Prf(r)}
    BY <1>3 DEF Assemble
  <2>2. r \in Resources /\ r # None
    BY <1>3, NotNone, ConstantsAssumption
  <2>3. /\ r \notin accepted /\ r \in started /\ Adv(r) \notin net
        /\ delivered[r] = 0 /\ held[t] = None
        /\ \A u \in RxThreads : held[u] # r
    BY <1>1, <1>3, <2>2 DEF TransferInv, HandedOnce, AdvIsFirst
  <2>. HIDE DEF r
  <2>4. PrefixKnown' /\ NoPageAhead'
    BY <1>1 DEF PrefixKnown, NoPageAhead
  <2>5. ExpectHolds'  BY <1>1 DEF TransferInv, ExpectHolds
  <2>6. AdvIsFirst'
    <3>1. \A q \in Resources : Adv(q) \in net' => Adv(q) \in net
      BY <2>1 DEF Adv, Prf
    <3>2. Prf(r).res = r  BY DEF Prf
    <3>. QED  BY <1>1, <2>1, <2>2, <2>3, <3>1, <3>2 DEF TransferInv, AdvIsFirst
  <2>7. HandedOnce'
    <3>1. pc'[t] = "deliver" /\ held'[t] = r
      BY <2>1 DEF TypeOK
    <3>2. \A u \in RxThreads : u # t => pc'[u] = pc[u] /\ held'[u] = held[u]
      BY <2>1 DEF TypeOK
    <3>3. \A q \in accepted' : /\ rx' = None \/ rx'.res # q
                               /\ delivered'[q] <= 1
                               /\ delivered'[q] = 0 <=> \E u \in RxThreads : held'[u] = q
      <4>. SUFFICES ASSUME NEW q \in accepted'
                    PROVE  /\ delivered[q] <= 1
                           /\ delivered[q] = 0 <=> \E u \in RxThreads : held'[u] = q
        BY <1>1
      <4>1. CASE q = r
        BY <2>3, <3>1, <4>1
      <4>2. CASE q # r
        <5>1. q \in accepted /\ q # None
          BY <2>1, <4>2, ConstantsAssumption DEF TypeOK
        <5>2. \A u \in RxThreads : held'[u] = q <=> held[u] = q
          BY <2>3, <3>1, <3>2, <4>2, <5>1
        <5>. QED  BY <5>1, <5>2 DEF TransferInv, HandedOnce
      <4>. QED  BY <4>1, <4>2
    <3>4. \A q \in Resources \ accepted' : delivered'[q] = 0
      BY <1>1, <2>1 DEF TransferInv, HandedOnce
    <3>5. \A u \in RxThreads : /\ pc'[u] = "deliver" <=> held'[u] # None
                               /\ held'[u] # None => held'[u] \in accepted'
      BY <2>1, <2>2, <3>1, <3>2 DEF TransferInv, HandedOnce
    <3>6. \A u, v \in RxThreads : held'[u] = held'[v] /\ held'[u] # None => u = v
      BY <2>3, <3>1, <3>2 DEF TransferInv, HandedOnce
    <3>. QED  BY <3>3, <3>4, <3>5, <3>6 DEF HandedOnce
  <2>8. ProofsAreTrue'
    BY <1>1, <2>1 DEF TransferInv, ProofsAreTrue, Prf
  <2>. QED  BY <2>4, <2>5, <2>6, <2>7, <2>8 DEF TransferInv
<1>. QED  BY <1>2, <1>3

\* A thread hands over what it alone holds.
LEMMA DeliverStep ==
  ASSUME TypeOK, TransferInv, NEW t \in RxThreads, Deliver(t)
  PROVE  TransferInv'
<1>. DEFINE r == held[t]
<1>1. /\ pc[t] = "deliver"
      /\ delivered' = [delivered EXCEPT ![r] = delivered[r] + 1]
      /\ pc' = [pc EXCEPT ![t] = "idle"]
      /\ held' = [held EXCEPT ![t] = None]
      /\ UNCHANGED <<net, started, rx, poisoned, accepted, confirmed>>
  BY DEF Deliver, senderVars
<1>2. /\ r \in accepted /\ r \in Resources /\ delivered[r] = 0 /\ r # None
      /\ \A u \in RxThreads : u # t => held[u] # r
  BY <1>1 DEF TransferInv, HandedOnce, TypeOK
<1>. HIDE DEF r
<1>3. /\ delivered'[r] = 1
      /\ \A q \in Resources : q # r => delivered'[q] = delivered[q]
      /\ pc'[t] = "idle" /\ held'[t] = None
      /\ \A u \in RxThreads : u # t => pc'[u] = pc[u] /\ held'[u] = held[u]
  BY <1>1, <1>2 DEF TypeOK
<1>4. PrefixKnown' /\ NoPageAhead' /\ AdvIsFirst' /\ ProofsAreTrue' /\ ExpectHolds'
  BY <1>1 DEF TransferInv, PrefixKnown, PageBoundary, NoPageAhead, AdvIsFirst,
              ProofsAreTrue, ExpectHolds
<1>5. HandedOnce'
  <2>1. \A q \in accepted' : /\ rx' = None \/ rx'.res # q
                             /\ delivered'[q] <= 1
                             /\ delivered'[q] = 0 <=> \E u \in RxThreads : held'[u] = q
    <3>. SUFFICES ASSUME NEW q \in accepted
                  PROVE  /\ rx = None \/ rx.res # q
                         /\ delivered'[q] <= 1
                         /\ delivered'[q] = 0 <=> \E u \in RxThreads : held'[u] = q
      BY <1>1
    <3>1. q \in Resources /\ q # None  BY ConstantsAssumption DEF TypeOK
    <3>2. CASE q = r
      BY <1>2, <1>3, <3>1, <3>2 DEF TransferInv, HandedOnce
    <3>3. CASE q # r
      BY <1>2, <1>3, <3>1, <3>3 DEF TransferInv, HandedOnce, r
    <3>. QED  BY <3>2, <3>3
  <2>2. \A q \in Resources \ accepted' : delivered'[q] = 0
    BY <1>1, <1>2, <1>3 DEF TransferInv, HandedOnce
  <2>3. \A u \in RxThreads : /\ pc'[u] = "deliver" <=> held'[u] # None
                             /\ held'[u] # None => held'[u] \in accepted'
    BY <1>1, <1>3 DEF TransferInv, HandedOnce
  <2>4. \A u, v \in RxThreads : held'[u] = held'[v] /\ held'[u] # None => u = v
    BY <1>3 DEF TransferInv, HandedOnce
  <2>. QED  BY <2>1, <2>2, <2>3, <2>4 DEF HandedOnce
<1>. QED  BY <1>4, <1>5 DEF TransferInv

\* While no packet arrives twice, whatever else is lost, reordered, evicted or
\* torn down, TransferInv holds: for any number of parts, pages and threads.
THEOREM TransferInvariant ==
  ASSUME "duplicate" \notin Faults
  PROVE  Spec => []TransferInv
<1>1. Init => TransferInv
  BY DEF Init, TransferInv, PrefixKnown, NoPageAhead, ExpectHolds, AdvIsFirst,
         HandedOnce, ProofsAreTrue
<1>2. TypeOK /\ TransferInv /\ [Next]_vars => TransferInv'
  <2>. SUFFICES ASSUME TypeOK, TransferInv, [Next]_vars  PROVE TransferInv'
    OBVIOUS
  <2>1. confirmed \subseteq accepted  BY DEF TransferInv, ProofsAreTrue
  <2>2. ASSUME NEW m \in net, Lose(m)  PROVE TransferInv'
    BY <2>1, <2>2, OnlyRemoves DEF Lose, senderVars, receiverVars
  <2>3. CASE SenderLosesLink
    BY <2>1, <2>3, OnlyRemoves DEF SenderLosesLink, receiverVars
  <2>4. CASE ReceiverLosesLink
    BY <2>1, <2>4, OnlyRemoves DEF ReceiverLosesLink, senderVars
  <2>5. CASE EvictReceiver
    BY <2>1, <2>5, OnlyRemoves DEF EvictReceiver, senderVars
  <2>6. CASE UNCHANGED vars
    BY <2>1, <2>6, OnlyRemoves DEF vars
  <2>. QED
    BY <2>2, <2>3, <2>4, <2>5, <2>6, SendStep, ServeStep, ProofStep, AdvStep, PartStep,
       HmuStep, AssembleStep, DeliverStep
       DEF Next
<1>. QED  BY <1>1, <1>2, TypeCorrect, PTL DEF Spec

\* resource.rs:100-101 is right about such a network, and the expect() of
\* next_request never panics under the in_resources mutex.
THEOREM PrefixSafe ==
  ASSUME "duplicate" \notin Faults
  PROVE  Spec => [](KnownPrefix /\ ExpectHolds)
<1>1. TransferInv => KnownPrefix /\ ExpectHolds
  BY DEF TransferInv, PrefixKnown, PageBoundary, KnownPrefix
<1>. QED  BY <1>1, TransferInvariant, PTL

\* A payload reaches deliver_lxmf at most once, and a sender that is told
\* "delivered" has been told the truth, up to the thread that is delivering.
THEOREM DeliverySafe ==
  ASSUME "duplicate" \notin Faults
  PROVE  Spec => [](DeliveredOnce /\ ConfirmedIsDelivered)
<1>1. TypeOK /\ TransferInv => DeliveredOnce /\ ConfirmedIsDelivered
  <2>. SUFFICES ASSUME TypeOK, TransferInv
                PROVE  DeliveredOnce /\ ConfirmedIsDelivered
    OBVIOUS
  <2>1. DeliveredOnce
    BY DEF TransferInv, HandedOnce, DeliveredOnce
  <2>2. ASSUME NEW r \in confirmed
        PROVE  /\ r \in accepted
               /\ delivered[r] > 0 \/ \E t \in RxThreads : held[t] = r
    <3>1. r \in accepted /\ delivered[r] \in Nat
      BY DEF TransferInv, ProofsAreTrue, TypeOK
    <3>. QED  BY <3>1 DEF TransferInv, HandedOnce
  <2>. QED  BY <2>1, <2>2 DEF ConfirmedIsDelivered
<1>. QED  BY <1>1, TransferInvariant, TypeCorrect, PTL

-----------------------------------------------------------------------------
(* The counters of the receiver.                                             *)

\* The slots of receiver x that hold a part, and the ones a part that answers
\* a request may still fill.
Stored(x) == {i \in Idx(x.res) : x.parts[i] # None}
Fillable(x) == MissingInWindow(x) \cap x.known

\* The counters of receiver x agree with its slots.
Counts(x) ==
  /\ x.received = Cardinality(Stored(x))
  /\ 0 .. x.consecutive - 1 \subseteq Stored(x)
  /\ x.consecutive \notin Stored(x)
  /\ x.outstanding <= Cardinality(Fillable(x))

\* Both are finite sets of indices.
LEMMA SlotsFinite ==
  ASSUME NEW r \in Resources, NEW x \in Receiver(r)
  PROVE  /\ Stored(x) \subseteq Idx(r) /\ IsFiniteSet(Stored(x))
         /\ Fillable(x) \subseteq Idx(r) /\ IsFiniteSet(Fillable(x))
         /\ Cardinality(Stored(x)) \in Nat
         /\ Cardinality(Fillable(x)) \in Nat
<1>1. Stored(x) \subseteq Idx(r) /\ Fillable(x) \subseteq Idx(r)
  BY RequestedFacts DEF Stored, Fillable
<1>2. IsFiniteSet(Stored(x)) /\ IsFiniteSet(Fillable(x))
  BY <1>1, IdxFacts, FS_Subset
<1>. QED  BY <1>1, <1>2, FS_CardinalityType

\* A new receiver has nothing and waits for nothing.
LEMMA AcceptCounts ==
  ASSUME NEW r \in Resources
  PROVE  Counts(accept(r))
<1>. DEFINE x == accept(r)
<1>1. /\ x \in Receiver(r) /\ x.received = 0 /\ x.consecutive = 0 /\ x.outstanding = 0
      /\ x.res = r /\ \A i \in Idx(r) : x.parts[i] = None
  BY AcceptType DEF accept
<1>. HIDE DEF x
<1>2. Stored(x) = {}  BY <1>1 DEF Stored
<1>3. Cardinality({}) = 0  BY FS_EmptySet
<1>4. Cardinality(Fillable(x)) \in Nat  BY <1>1, SlotsFinite
<1>5. 0 .. x.consecutive - 1 \subseteq Stored(x)  BY <1>1
<1>6. Counts(x)
  BY <1>1, <1>2, <1>3, <1>4, <1>5 DEF Counts
<1>. QED  BY <1>6 DEF x

\* A request asks only for slots that can be filled, each once.
LEMMA NextRequestCounts ==
  ASSUME NEW r \in Resources, NEW x \in Receiver(r), Counts(x)
  PROVE  Counts(next_request(x))
<1>1. CASE is_complete(x) \/ x.waiting_for_hmu
  BY <1>1 DEF next_request
<1>2. CASE ~(is_complete(x) \/ x.waiting_for_hmu)
  <2>. DEFINE y == next_request(x)
  <2>1. /\ y.res = x.res /\ y.parts = x.parts /\ y.received = x.received
        /\ y.consecutive = x.consecutive /\ y.known = x.known /\ y.window = x.window
        /\ y.outstanding = Cardinality(Requested(x))
    BY <1>2 DEF next_request, Receiver
  <2>. HIDE DEF y
  <2>2. Stored(y) = Stored(x) /\ Fillable(y) = Fillable(x)
    BY <2>1 DEF Stored, Fillable, MissingInWindow
  <2>3. Requested(x) \subseteq Fillable(x)
    <3>. SUFFICES ASSUME NEW i \in Requested(x)  PROVE i \in Fillable(x)
      OBVIOUS
    <3>1. i \in MissingInWindow(x) /\ i \in Nat
      BY RequestedFacts, IdxFacts DEF Requested
    <3>2. i <= i  BY <3>1
    <3>. QED  BY <3>1, <3>2 DEF Requested, Fillable
  <2>4. Cardinality(Requested(x)) <= Cardinality(Fillable(x))
    BY <2>3, SlotsFinite, FS_Subset
  <2>5. Counts(y)  BY <2>1, <2>2, <2>4 DEF Counts
  <2>. QED  BY <2>5 DEF y
<1>. QED  BY <1>1, <1>2

\* A page of map-hashes only makes more slots fillable.
LEMMA HashmapUpdateCounts ==
  ASSUME NEW r \in Resources, NEW x \in Receiver(r), NEW p \in Nat, Counts(x)
  PROVE  Counts(receive_hashmap_update(x, p))
<1>. DEFINE y == receive_hashmap_update(x, p)
<1>1. y \in Receiver(r)  BY HashmapUpdateType
<1>2. /\ y.res = x.res /\ y.parts = x.parts /\ y.received = x.received
      /\ y.consecutive = x.consecutive /\ y.window = x.window
      /\ y.outstanding = x.outstanding
      /\ x.known \subseteq y.known
  BY DEF receive_hashmap_update, Receiver
<1>. HIDE DEF y
<1>3. Stored(y) = Stored(x) /\ Fillable(x) \subseteq Fillable(y)
  BY <1>2 DEF Stored, Fillable, MissingInWindow
<1>4. Cardinality(Fillable(x)) <= Cardinality(Fillable(y))
  BY <1>1, <1>3, SlotsFinite, FS_Subset
<1>5. Cardinality(Fillable(x)) \in Nat /\ Cardinality(Fillable(y)) \in Nat
      /\ x.outstanding \in Nat
  BY <1>1, SlotsFinite DEF Receiver
<1>6. Counts(y)  BY <1>2, <1>3, <1>4, <1>5 DEF Counts
<1>. QED  BY <1>6 DEF y

\* A part that is stored takes one slot, and no other, out of the fillable ones.
LEMMA PartFills ==
  ASSUME NEW r \in Resources, NEW x \in Receiver(r), NEW d \in Idx(r),
         Matches(x, d) # {}
  PROVE  LET i == Least(Matches(x, d))
             y == receive_part(x, d)
         IN  /\ i \in Matches(x, d)
             /\ Fillable(x) \ {i} \subseteq Fillable(y)
             /\ y.outstanding = IF x.outstanding = 0 THEN 0 ELSE x.outstanding - 1
             /\ y.received = x.received + 1
             /\ y.waiting_for_hmu = x.waiting_for_hmu
             /\ y.hashmap_height = x.hashmap_height
             /\ y.res = r
<1>. DEFINE i == Least(Matches(x, d))
            p == [x.parts EXCEPT ![i] = d]
            left == IF x.outstanding = 0 THEN 0 ELSE x.outstanding - 1
            w == IF left = 0 /\ x.window < WINDOW_MAX THEN x.window + 1 ELSE x.window
            c == FirstGap(x, p)
            y == receive_part(x, d)
<1>1. /\ x.res = r /\ x.parts \in [Idx(r) -> Idx(r) \cup {None}]
      /\ x.consecutive \in 0 .. N[r] /\ x.window \in Nat /\ x.outstanding \in Nat
  BY DEF Receiver
<1>2. i \in Matches(x, d) /\ i \in Idx(r)  BY ReceivePartFacts
<1>3. p \in [Idx(r) -> Idx(r) \cup {None}] /\ \A j \in Idx(r) : j # i => p[j] = x.parts[j]
  BY <1>1, <1>2
<1>4. c \in x.consecutive .. N[r] /\ \A k \in x.consecutive .. N[r] : p[k] = None => c <= k
  <2>. DEFINE G == {k \in x.consecutive .. N[r] : k = N[r] \/ p[k] = None}
  <2>1. G \subseteq Nat /\ N[r] \in G  BY <1>1, IdxFacts
  <2>2. Least(G) \in G /\ \A k \in G : Least(G) <= k  BY <2>1, LeastFacts
  <2>3. c = Least(G)  BY <1>1 DEF FirstGap
  <2>. QED  BY <2>2, <2>3
<1>5. w \in Nat /\ x.window <= w  BY <1>1
<1>6. /\ y.res = r /\ y.known = x.known /\ y.parts = p /\ y.received = x.received + 1
      /\ y.outstanding = left /\ y.consecutive = c /\ y.window = w
      /\ y.waiting_for_hmu = x.waiting_for_hmu /\ y.hashmap_height = x.hashmap_height
  <2>1. y = [x EXCEPT !.parts = p, !.received = x.received + 1, !.outstanding = left,
                      !.consecutive = c, !.window = w]
    BY DEF receive_part
  <2>. HIDE DEF y, p, left, c, w
  <2>. QED  BY <1>1, <2>1 DEF Receiver
<1>. HIDE DEF i, p, c, w, y
<1>7. Fillable(x) \ {i} \subseteq Fillable(y)
  <2>. SUFFICES ASSUME NEW j \in Fillable(x), j # i  PROVE j \in Fillable(y)
    OBVIOUS
  <2>1. /\ j \in Idx(r) /\ x.consecutive <= j /\ j < x.consecutive + x.window
        /\ x.parts[j] = None /\ j \in x.known
    BY <1>1 DEF Fillable, MissingInWindow
  <2>2. p[j] = None  BY <1>3, <2>1
  <2>3. j \in Nat /\ j < N[r] /\ N[r] \in Nat  BY <2>1, IdxFacts
  <2>4. j \in x.consecutive .. N[r]  BY <1>1, <2>1, <2>3
  <2>5. c <= j  BY <1>4, <2>2, <2>4
  <2>6. j < c + w  BY <1>1, <1>4, <1>5, <2>1, <2>3
  <2>. QED  BY <1>6, <2>1, <2>2, <2>5, <2>6 DEF Fillable, MissingInWindow
<1>. QED  BY <1>2, <1>6, <1>7 DEF i, y

\* A part fills one fillable slot, moves consecutive to the first gap left and
\* takes at most that one slot out of the window.
LEMMA ReceivePartCounts ==
  ASSUME NEW r \in Resources, NEW x \in Receiver(r), NEW d \in Idx(r), Counts(x)
  PROVE  Counts(receive_part(x, d))
<1>1. CASE Matches(x, d) = {}
  BY <1>1 DEF receive_part
<1>2. CASE Matches(x, d) # {}
  <2>. DEFINE i == Least(Matches(x, d))
              p == [x.parts EXCEPT ![i] = d]
              left == IF x.outstanding = 0 THEN 0 ELSE x.outstanding - 1
              w == IF left = 0 /\ x.window < WINDOW_MAX THEN x.window + 1 ELSE x.window
              c == FirstGap(x, p)
              y == receive_part(x, d)
  <2>1. /\ x.res = r /\ x.parts \in [Idx(r) -> Idx(r) \cup {None}]
        /\ x.consecutive \in 0 .. N[r] /\ x.window \in Nat /\ x.outstanding \in Nat
        /\ x.received \in Nat /\ x.known \subseteq Idx(r)
    BY DEF Receiver
  <2>2. y \in Receiver(r)  BY ReceivePartType
  <2>3. i \in Fillable(x) /\ i \in Idx(r)
    BY <1>2, ReceivePartFacts DEF Matches, Fillable
  <2>4. p \in [Idx(r) -> Idx(r) \cup {None}]  BY <2>1
  <2>5. /\ p[i] # None
        /\ \A j \in Idx(r) : j # i => p[j] = x.parts[j]
    BY <2>1, <2>3, IdxFacts
  <2>6. c \in x.consecutive .. N[r]  BY <1>2, <2>4, ReceivePartFacts
  <2>7. /\ c = N[r] \/ p[c] = None
        /\ \A k \in x.consecutive .. N[r] : k < c => k # N[r] /\ p[k] # None
        /\ \A k \in x.consecutive .. N[r] : p[k] = None => c <= k
    <3>. DEFINE G == {k \in x.consecutive .. N[r] : k = N[r] \/ p[k] = None}
    <3>1. G \subseteq Nat /\ N[r] \in G  BY <2>1, IdxFacts
    <3>2. Least(G) \in G /\ \A k \in G : Least(G) <= k  BY <3>1, LeastFacts
    <3>3. c = Least(G)  BY <2>1 DEF FirstGap
    <3>. HIDE DEF c
    <3>4. c \in G /\ \A k \in G : c <= k  BY <3>2, <3>3
    <3>5. ASSUME NEW k \in x.consecutive .. N[r], k < c
          PROVE  k # N[r] /\ p[k] # None
      <4>1. k \in Nat /\ c \in Nat  BY <2>1, <2>6, <3>1, <3>4
      <4>2. k \notin G  BY <3>4, <3>5, <4>1
      <4>. QED  BY <4>2
    <3>. QED  BY <3>4, <3>5
  <2>8. left \in Nat /\ left <= x.outstanding /\ (x.outstanding = 0 \/ left = x.outstanding - 1)
        /\ (x.outstanding = 0 => left = 0)
    BY <2>1
  <2>9. w \in Nat /\ x.window <= w  BY <2>1
  <2>10. /\ y.res = r /\ y.known = x.known /\ y.parts = p /\ y.received = x.received + 1
         /\ y.outstanding = left /\ y.consecutive = c /\ y.window = w
    <3>1. y = [x EXCEPT !.parts = p, !.received = x.received + 1, !.outstanding = left,
                        !.consecutive = c, !.window = w]
      BY <1>2 DEF receive_part
    <3>. HIDE DEF y, p, left, c, w
    <3>. QED  BY <2>1, <3>1 DEF Receiver
  <2>. HIDE DEF i, p, left, c, w, y
  <2>11. i \notin Stored(x) /\ Stored(y) = Stored(x) \cup {i}
    <3>1. x.parts[i] = None  BY <2>3 DEF Fillable, MissingInWindow
    <3>2. i \notin Stored(x)  BY <3>1 DEF Stored
    <3>3. \A j \in Idx(r) : p[j] # None <=> (x.parts[j] # None \/ j = i)
      BY <2>3, <2>5
    <3>. QED  BY <2>1, <2>3, <2>10, <3>2, <3>3 DEF Stored
  <2>12. y.received = Cardinality(Stored(y))
    <3>1. Cardinality(Stored(x) \cup {i}) = Cardinality(Stored(x)) + 1
      BY <2>11, SlotsFinite, FS_AddElement
    <3>. QED  BY <2>10, <2>11, <3>1 DEF Counts
  <2>13. 0 .. c - 1 \subseteq Stored(y)
    <3>. SUFFICES ASSUME NEW k \in 0 .. c - 1  PROVE k \in Stored(y)
      OBVIOUS
    <3>1. k \in Nat /\ k < c /\ c \in Nat /\ c <= N[r] /\ N[r] \in Nat
      BY <2>1, <2>6, IdxFacts
    <3>2. k \in Idx(r)  BY <3>1, IdxFacts
    <3>3. CASE k < x.consecutive
      <4>1. k \in 0 .. x.consecutive - 1  BY <2>1, <3>1, <3>3
      <4>. QED  BY <2>11, <4>1 DEF Counts
    <3>4. CASE x.consecutive <= k
      <4>1. k \in x.consecutive .. N[r]  BY <2>1, <3>1, <3>4
      <4>. QED  BY <2>7, <2>10, <3>1, <3>2, <4>1 DEF Stored
    <3>. QED  BY <2>1, <3>1, <3>3, <3>4
  <2>14. c \notin Stored(y)
    <3>1. N[r] \notin Idx(r)  BY IdxFacts
    <3>. QED  BY <2>7, <2>10, <3>1 DEF Stored
  <2>15. Fillable(x) \ {i} \subseteq Fillable(y)
    BY <1>2, PartFills DEF i, y
  <2>16. left <= Cardinality(Fillable(y))
    <3>1. /\ IsFiniteSet(Fillable(x)) /\ Cardinality(Fillable(x)) \in Nat
          /\ IsFiniteSet(Fillable(y)) /\ Cardinality(Fillable(y)) \in Nat
      BY <2>2, SlotsFinite
    <3>2. Cardinality(Fillable(x) \ {i}) = Cardinality(Fillable(x)) - 1
      BY <2>3, <3>1, FS_RemoveElement
    <3>3. Cardinality(Fillable(x) \ {i}) <= Cardinality(Fillable(y))
      BY <2>15, <3>1, FS_Subset
    <3>. QED  BY <2>1, <2>8, <3>1, <3>2, <3>3 DEF Counts
  <2>17. Counts(y)  BY <2>10, <2>12, <2>13, <2>14, <2>16 DEF Counts
  <2>. QED  BY <2>17 DEF y
<1>. QED  BY <1>1, <1>2

\* The receiver's three counters tell the truth about its slots, whatever is
\* lost, reordered, duplicated or re-requested: is_complete counts no slot
\* twice, consecutive is the length of the received prefix, and as many parts
\* as outstanding counts down can still be stored.
THEOREM AccountingHolds == Spec => []Accounting
<1>. DEFINE Good == rx # None => Counts(rx)
<1>1. Init => Good
  BY DEF Init
<1>2. TypeOK /\ Good /\ [Next]_vars => Good'
  <2>. SUFFICES ASSUME TypeOK, Good, [Next]_vars  PROVE Good'
    OBVIOUS
  <2>. USE DEF senderVars, receiverVars
  <2>1. ASSUME UNCHANGED rx \/ rx' = None  PROVE Good'
    BY <2>1
  <2>2. ASSUME NEW r \in Resources, NEW x \in Receiver(r), Counts(x),
               rx' = x \/ rx' = next_request(x)
        PROVE  Good'
    BY <2>2, NextRequestCounts
  <2>. HIDE DEF Good
  <2>3. ASSUME NEW t \in RxThreads, NEW m \in net, RecvAdv(t, m)  PROVE Good'
    <3>1. m.res \in Resources  BY MessageFields DEF TypeOK
    <3>2. UNCHANGED rx \/ rx' = next_request(accept(m.res))
      BY <2>3 DEF RecvAdv
    <3>. QED  BY <2>1, <2>2, <3>1, <3>2, AcceptType, AcceptCounts
  <2>4. ASSUME rx # None
        PROVE  /\ rx.res \in Resources
               /\ rx \in Receiver(rx.res)
               /\ Counts(rx)
    BY <2>4, NotNone DEF Good
  <2>5. ASSUME NEW t \in RxThreads, NEW m \in net, RecvPart(t, m)  PROVE Good'
    <3>1. m \in Messages /\ m.type = "PART"
      BY <2>5 DEF RecvPart, CanReceive, TypeOK
    <3>2. CASE rx = None
      BY <2>1, <2>5, <3>2 DEF RecvPart
    <3>3. CASE rx # None
      <4>. DEFINE x == IF rx.res = m.res THEN receive_part(rx, m.data) ELSE rx
      <4>1. x \in Receiver(rx.res) /\ Counts(x)
        BY <2>4, <3>1, <3>3, MessageFields, ReceivePartType, ReceivePartCounts
      <4>2. rx' = x \/ rx' = next_request(x)
        BY <2>5, <3>3 DEF RecvPart, Continue
      <4>. HIDE DEF x
      <4>. QED  BY <2>2, <2>4, <3>3, <4>1, <4>2
    <3>. QED  BY <3>2, <3>3
  <2>6. ASSUME NEW t \in RxThreads, NEW m \in net, RecvHmu(t, m)  PROVE Good'
    <3>1. m \in Messages /\ m.type = "HMU"
      BY <2>6 DEF RecvHmu, CanReceive, TypeOK
    <3>2. CASE ~(rx # None /\ rx.res = m.res)
      BY <2>1, <2>6, <3>2 DEF RecvHmu
    <3>3. CASE rx # None /\ rx.res = m.res
      <4>. DEFINE x == receive_hashmap_update(rx, m.page)
      <4>1. m.page \in Nat  BY <3>1, MessageFields, IdxFacts
      <4>2. x \in Receiver(rx.res) /\ Counts(x)
        BY <2>4, <3>3, <4>1, HashmapUpdateType, HashmapUpdateCounts
      <4>3. rx' = x \/ rx' = next_request(x)
        BY <2>6, <3>3 DEF RecvHmu, Continue
      <4>. HIDE DEF x
      <4>. QED  BY <2>2, <2>4, <3>3, <4>2, <4>3
    <3>. QED  BY <3>2, <3>3
  <2>7. ASSUME NEW m \in net, ServeRequest(m) \/ RecvProof(m) \/ Lose(m)  PROVE Good'
    BY <2>1, <2>7 DEF ServeRequest, RecvProof, Lose
  <2>8. ASSUME NEW t \in RxThreads, Assemble(t) \/ Deliver(t)  PROVE Good'
    BY <2>1, <2>8 DEF Assemble, Deliver
  <2>9. ASSUME \/ \E r \in Resources : SendResource(r)
               \/ SenderLosesLink \/ ReceiverLosesLink \/ EvictReceiver
               \/ UNCHANGED vars
        PROVE  Good'
    BY <2>1, <2>9 DEF SendResource, SenderLosesLink, ReceiverLosesLink, EvictReceiver, vars
  <2>. QED  BY <2>3, <2>5, <2>6, <2>7, <2>8, <2>9 DEF Next
<1>3. Good => Accounting
  BY DEF Counts, Stored, Fillable, Accounting
<1>. QED  BY <1>1, <1>2, <1>3, TypeCorrect, PTL DEF Spec

-----------------------------------------------------------------------------
(* An unfinished transfer has something on the way.                          *)

\* The fillable slots whose part is in a packet or asked for in one.
Arriving(x, packets) ==
  {i \in Fillable(x) :
     \/ Part(x.res, i, i) \in packets
     \/ \E m \in packets : m.type = "REQ" /\ m.res = x.res /\ i \in m.wanted}

\* What receiver x waits for: the page after its prefix, or as many parts as it
\* counts outstanding.
Awaited(x, packets) ==
  IF x.waiting_for_hmu
    THEN /\ x.hashmap_height < N[x.res]
         /\ \/ Hmu(x.res, x.hashmap_height \div HASHMAP_MAX_LEN) \in packets
            \/ \E m \in packets : /\ m.type = "REQ"
                                  /\ m.res = x.res
                                  /\ m.last = x.hashmap_height - 1
    ELSE x.outstanding \in 1 .. Cardinality(Arriving(x, packets))

SomethingAwaited ==
  rx # None /\ tx = rx.res /\ ~is_complete(rx) => Awaited(rx, net)

\* No two parts of a resource share a map-hash.
HashesDiffer == \A r \in Resources : \A i \in Idx(r) : MapHash[r][i] = i

LEMMA ArrivingFinite ==
  ASSUME NEW r \in Resources, NEW x \in Receiver(r), NEW packets
  PROVE  /\ Arriving(x, packets) \subseteq Fillable(x)
         /\ IsFiniteSet(Arriving(x, packets))
         /\ Cardinality(Arriving(x, packets)) \in Nat
<1>1. Arriving(x, packets) \in SUBSET Fillable(x)  BY DEF Arriving
<1>2. IsFiniteSet(Fillable(x))  BY SlotsFinite
<1>3. IsFiniteSet(Arriving(x, packets))  BY <1>1, <1>2, FS_Subset
<1>. QED  BY <1>1, <1>3, FS_CardinalityType

\* A receiver that is not complete misses the part after its prefix.
LEMMA NextIsMissing ==
  ASSUME NEW r \in Resources, NEW x \in Receiver(r), Counts(x)
  PROVE  /\ ~is_complete(x) => x.consecutive \in MissingInWindow(x)
         /\ x.received <= N[r]
<1>1. /\ x.res = r /\ x.consecutive \in 0 .. N[r] /\ x.window \in Nat \ {0}
      /\ x.parts \in [Idx(r) -> Idx(r) \cup {None}]
  BY DEF Receiver
<1>2. N[r] \in Nat /\ Idx(r) = 0 .. N[r] - 1 /\ N[r] >= 1
  BY IdxFacts DEF Idx
<1>3. IsFiniteSet(Idx(r)) /\ Cardinality(Idx(r)) = N[r]
  <2>1. 0 \in Int /\ N[r] - 1 \in Int /\ ~(0 > N[r] - 1) /\ N[r] - 1 - 0 + 1 = N[r]
    BY <1>2
  <2>2. /\ IsFiniteSet(0 .. N[r] - 1)
        /\ Cardinality(0 .. N[r] - 1) = IF 0 > N[r] - 1 THEN 0 ELSE N[r] - 1 - 0 + 1
    BY <2>1, FS_Interval
  <2>. QED  BY <1>2, <2>1, <2>2
<1>4. Stored(x) \in SUBSET Idx(r)  BY SlotsFinite
<1>5. x.received = Cardinality(Stored(x)) /\ x.received <= N[r]
  BY <1>3, <1>4, FS_Subset DEF Counts
<1>6. ASSUME ~is_complete(x)  PROVE x.consecutive \in MissingInWindow(x)
  <2>1. x.consecutive # N[r]
    <3>. SUFFICES ASSUME x.consecutive = N[r]  PROVE FALSE
      OBVIOUS
    <3>1. Stored(x) = Idx(r)  BY <1>2, <1>4 DEF Counts
    <3>. QED  BY <1>1, <1>3, <1>5, <1>6, <3>1 DEF is_complete
  <2>2. x.consecutive \in Idx(r)  BY <1>1, <1>2, <2>1
  <2>3. x.parts[x.consecutive] = None  BY <1>1, <2>2 DEF Counts, Stored
  <2>4. x.consecutive <= x.consecutive /\ x.consecutive < x.consecutive + x.window
    BY <1>1
  <2>. QED  BY <1>1, <2>2, <2>3, <2>4 DEF MissingInWindow
<1>. QED  BY <1>5, <1>6

\* A request asks for what the receiver will count, or for the next page.
LEMMA RequestAwaited ==
  ASSUME NEW r \in Resources, NEW x, HasPrefix(r, x), Counts(x),
         ~is_complete(x), ~x.waiting_for_hmu,
         NEW packets, RequestOf(x) \subseteq packets
  PROVE  Awaited(next_request(x), packets)
<1>. DEFINE y == next_request(x)
            q == Req(r, Requested(x), IF Exhausted(x) THEN x.hashmap_height - 1 ELSE None)
<1>1. /\ x \in Receiver(r) /\ x.res = r /\ x.known = 0 .. x.hashmap_height - 1
      /\ x.hashmap_height \in Nat
  BY DEF HasPrefix, Receiver
<1>2. x.consecutive \in MissingInWindow(x)  BY <1>1, NextIsMissing
<1>3. ~Exhausted(x) => Requested(x) = MissingInWindow(x)
  BY DEF Exhausted, Requested
<1>4. ~NothingToRequest(x)
  BY <1>2, <1>3 DEF NothingToRequest
<1>5. q \in packets  BY <1>1, <1>4 DEF RequestOf
<1>6. /\ y.res = r /\ y.parts = x.parts /\ y.consecutive = x.consecutive
      /\ y.known = x.known /\ y.window = x.window /\ y.hashmap_height = x.hashmap_height
      /\ y.outstanding = Cardinality(Requested(x)) /\ y.waiting_for_hmu = Exhausted(x)
  BY <1>1 DEF next_request, Receiver
<1>7. y \in Receiver(r)  BY <1>1, NextRequestType
<1>8. /\ q.type = "REQ" /\ q.res = r /\ q.wanted = Requested(x)
      /\ Exhausted(x) => q.last = x.hashmap_height - 1
  BY DEF Req
<1>. HIDE DEF y, q
<1>9. CASE Exhausted(x)
  <2>1. PICK j \in MissingInWindow(x) : j \notin x.known
    BY <1>9 DEF Exhausted
  <2>2. j \in Nat /\ j < N[r] /\ N[r] \in Nat
    BY <1>1, RequestedFacts, IdxFacts
  <2>3. x.hashmap_height < N[r]  BY <1>1, <2>1, <2>2
  <2>4. Awaited(y, packets)  BY <1>5, <1>6, <1>8, <1>9, <2>3 DEF Awaited
  <2>. QED  BY <2>4 DEF y
<1>10. CASE ~Exhausted(x)
  <2>1. MissingInWindow(y) = MissingInWindow(x)
    BY <1>1, <1>6 DEF MissingInWindow
  <2>2. Requested(x) \subseteq Fillable(y)
    BY <1>3, <1>6, <1>10, <2>1 DEF Fillable, Exhausted
  <2>3. Requested(x) \in SUBSET Arriving(y, packets)
    BY <1>5, <1>6, <1>8, <2>2 DEF Arriving
  <2>4. /\ IsFiniteSet(Arriving(y, packets)) /\ Cardinality(Arriving(y, packets)) \in Nat
    BY <1>7, ArrivingFinite
  <2>5. /\ Cardinality(Requested(x)) <= Cardinality(Arriving(y, packets))
        /\ IsFiniteSet(Requested(x))
    BY <2>3, <2>4, FS_Subset
  <2>6. Cardinality(Requested(x)) \in Nat /\ Cardinality(Requested(x)) # 0
    BY <1>2, <1>3, <1>10, <2>5, FS_CardinalityType, FS_EmptySet
  <2>7. y.outstanding \in 1 .. Cardinality(Arriving(y, packets))
    BY <1>6, <2>4, <2>5, <2>6
  <2>8. Awaited(y, packets)  BY <1>6, <1>10, <2>7 DEF Awaited
  <2>. QED  BY <2>8 DEF y
<1>. QED  BY <1>9, <1>10

\* What is not for this receiver may leave the network.
LEMMA OthersLeave ==
  ASSUME SomethingAwaited, rx' = rx, tx' = tx \/ tx' = None, NEW m,
         rx # None => rx.res # None,
         net' = net \ {m}, m.type # "REQ",
         rx # None /\ m.type \in {"PART", "HMU"} => m.res # rx.res
  PROVE  SomethingAwaited'
<1>. SUFFICES ASSUME rx # None, tx' = rx.res, ~is_complete(rx)
              PROVE  Awaited(rx, net')
  BY DEF SomethingAwaited, is_complete, Awaited, Arriving, Fillable, MissingInWindow
<1>1. Awaited(rx, net)  BY DEF SomethingAwaited
<1>2. Hmu(rx.res, rx.hashmap_height \div HASHMAP_MAX_LEN) # m
  BY DEF Hmu
<1>3. \A i : Part(rx.res, i, i) # m  BY DEF Part
<1>4. Arriving(rx, net') = Arriving(rx, net)  BY <1>3 DEF Arriving
<1>. QED  BY <1>1, <1>2, <1>4 DEF Awaited

\* A request that is served leaves its answer behind.
LEMMA ServedAwaited ==
  ASSUME TypeOK, TransferInv, SomethingAwaited, HashesDiffer, "duplicate" \notin Faults,
         NEW m \in net, ServeRequest(m)
  PROVE  SomethingAwaited'
<1>1. /\ m \in Messages /\ m.type = "REQ" /\ m.res \in Resources
      /\ UNCHANGED <<tx, rx>>
  BY MessageFields DEF ServeRequest, TypeOK, senderVars, receiverVars
<1>. SUFFICES ASSUME rx # None, tx = rx.res, ~is_complete(rx)
              PROVE  Awaited(rx, net')
  BY <1>1 DEF SomethingAwaited, is_complete, Awaited, Arriving, Fillable, MissingInWindow
<1>. DEFINE r == rx.res
            h == rx.hashmap_height
<1>2. Awaited(rx, net)  BY DEF SomethingAwaited
<1>3. r \in Resources /\ HasPrefix(r, rx) /\ rx \in Receiver(r)
  BY CurrentPrefix DEF HasPrefix
<1>4. /\ net \ {m} \subseteq net'
      /\ m.res = r => handle_request(r, m) \subseteq net'
  BY RestFacts DEF ServeRequest
<1>5. CASE rx.waiting_for_hmu
  <2>1. /\ h < N[r] /\ h \in 1 .. N[r] /\ h % HASHMAP_MAX_LEN = 0 /\ N[r] \in Nat
    BY <1>2, <1>3, <1>5, IdxFacts DEF Awaited, HasPrefix, PageBoundary
  <2>2. h - 1 \in Idx(r) /\ h - 1 # None
    BY <1>3, <2>1, IdxFacts
  <2>3. CASE Hmu(r, h \div HASHMAP_MAX_LEN) \in net
    <3>1. Hmu(r, h \div HASHMAP_MAX_LEN) # m  BY <1>1 DEF Hmu
    <3>. QED  BY <1>4, <1>5, <2>1, <2>3, <3>1 DEF Awaited
  <2>4. ASSUME NEW q \in net, q.type = "REQ", q.res = r, q.last = h - 1
        PROVE  Awaited(rx, net')
    <3>1. CASE q # m
      BY <1>4, <1>5, <2>1, <2>4, <3>1 DEF Awaited
    <3>2. CASE q = m
      <4>1. MapHash[r][m.last] = h - 1 /\ MapHash[r][m.last] + 1 = h
        BY <1>3, <2>1, <2>2, <2>4, <3>2 DEF HashesDiffer
      <4>2. Hmu(r, h \div HASHMAP_MAX_LEN) \in handle_request(r, m)
        BY <2>1, <2>2, <2>4, <3>2, <4>1 DEF handle_request, HmuPage
      <4>. QED  BY <1>4, <1>5, <2>1, <2>4, <3>2, <4>2 DEF Awaited
    <3>. QED  BY <3>1, <3>2
  <2>. QED  BY <1>2, <1>5, <2>3, <2>4 DEF Awaited
<1>6. CASE ~rx.waiting_for_hmu
  <2>1. Arriving(rx, net) \subseteq Arriving(rx, net')
    <3>. SUFFICES ASSUME NEW i \in Arriving(rx, net)
                  PROVE  \/ Part(r, i, i) \in net'
                         \/ \E q \in net' : q.type = "REQ" /\ q.res = r /\ i \in q.wanted
      BY DEF Arriving
    <3>1. CASE Part(r, i, i) \in net
      <4>1. Part(r, i, i) # m  BY <1>1 DEF Part
      <4>. QED  BY <1>4, <3>1, <4>1
    <3>2. ASSUME NEW q \in net, q.type = "REQ", q.res = r, i \in q.wanted
          PROVE  \/ Part(r, i, i) \in net'
                 \/ \E k \in net' : k.type = "REQ" /\ k.res = r /\ i \in k.wanted
      <4>1. CASE q # m  BY <1>4, <3>2, <4>1
      <4>2. CASE q = m
        <5>1. i \in Idx(r) /\ MapHash[r][i] = i
          BY <1>1, <1>3, <3>2, <4>2, MessageFields DEF HashesDiffer
        <5>2. Part(r, i, i) \in handle_request(r, m)
          BY <3>2, <4>2, <5>1 DEF handle_request
        <5>. QED  BY <1>4, <3>2, <4>2, <5>2
      <4>. QED  BY <4>1, <4>2
    <3>. QED  BY <3>1, <3>2 DEF Arriving
  <2>2. /\ IsFiniteSet(Arriving(rx, net')) /\ Cardinality(Arriving(rx, net')) \in Nat
        /\ Cardinality(Arriving(rx, net)) \in Nat
    BY <1>3, ArrivingFinite
  <2>3. Cardinality(Arriving(rx, net)) <= Cardinality(Arriving(rx, net'))
    BY <2>1, <2>2, FS_Subset
  <2>. QED  BY <1>2, <1>6, <2>2, <2>3 DEF Awaited
<1>. QED  BY <1>5, <1>6

\* A stored part was one of those counted; one that is not stored was none.
LEMMA StoredAwaited ==
  ASSUME NEW r \in Resources, NEW x \in Receiver(r), Counts(x), HashesDiffer,
         NEW packets \in SUBSET Messages, NEW m \in packets, m.type = "PART", m.res = r,
         Awaited(x, packets), ~WindowDone(x, m.data) \/ x.waiting_for_hmu
  PROVE  Awaited(receive_part(x, m.data), packets \ {m})
<1>. DEFINE d == m.data
            y == receive_part(x, d)
            rest == packets \ {m}
<1>1. d \in Idx(r) /\ x.res = r /\ x.outstanding \in Nat
  BY MessageFields DEF Receiver
<1>2. \A h \in packets : h.type # "PART" => h \in rest
  OBVIOUS
<1>3. \A p : Hmu(r, p).type # "PART"  BY DEF Hmu
<1>4. \A i : i # d => Part(r, i, i) # m  BY DEF Part
<1>5. y \in Receiver(r)  BY <1>1, ReceivePartType
<1>6. CASE Matches(x, d) = {}
  <2>1. y = x  BY <1>6 DEF receive_part
  <2>2. d \notin Fillable(x)
    BY <1>1, <1>6 DEF Matches, Fillable
  <2>3. Arriving(x, rest) = Arriving(x, packets)
    BY <1>1, <1>2, <1>4, <2>2 DEF Arriving
  <2>. QED  BY <1>1, <1>2, <1>3, <2>1, <2>3 DEF Awaited
<1>7. CASE Matches(x, d) # {}
  <2>. DEFINE i == Least(Matches(x, d))
  <2>1. /\ i \in Matches(x, d) /\ Fillable(x) \ {i} \subseteq Fillable(y)
        /\ y.outstanding = IF x.outstanding = 0 THEN 0 ELSE x.outstanding - 1
        /\ y.waiting_for_hmu = x.waiting_for_hmu
        /\ y.hashmap_height = x.hashmap_height /\ y.res = r
    BY <1>1, <1>7, PartFills
  <2>2. i = d
    <3>1. i \in Idx(r) /\ MapHash[r][i] = MapHash[r][d]
      <4>1. Matches(x, d) \subseteq Idx(r)  BY <1>1, <1>7, ReceivePartFacts
      <4>. HIDE DEF i
      <4>. QED  BY <1>1, <2>1, <4>1 DEF Matches
    <3>. QED  BY <1>1, <3>1 DEF HashesDiffer
  <2>3. WindowDone(x, d) <=> y.outstanding = 0  BY <1>7 DEF WindowDone
  <2>. HIDE DEF i, y
  <2>4. CASE x.waiting_for_hmu
    <3>. DEFINE Asked(P) == \/ Hmu(r, x.hashmap_height \div HASHMAP_MAX_LEN) \in P
                           \/ \E q \in P : /\ q.type = "REQ"
                                          /\ q.res = r
                                          /\ q.last = x.hashmap_height - 1
    <3>1. x.hashmap_height < N[r] /\ Asked(packets)
      BY <1>1, <2>4 DEF Awaited
    <3>2. Asked(rest)
      BY <1>2, <1>3, <3>1
    <3>. QED  BY <2>1, <2>4, <3>1, <3>2 DEF Awaited, y
  <2>5. CASE ~x.waiting_for_hmu
    <3>1. /\ x.outstanding \in 1 .. Cardinality(Arriving(x, packets))
          /\ y.outstanding # 0
      BY <2>3, <2>5 DEF Awaited, y
    <3>2. Arriving(x, packets) \ {d} \subseteq Arriving(y, rest)
      <4>. SUFFICES ASSUME NEW j \in Arriving(x, packets), j # d
                    PROVE  j \in Arriving(y, rest)
        OBVIOUS
      <4>1. j \in Fillable(y)  BY <2>1, <2>2 DEF Arriving
      <4>. QED  BY <1>1, <1>2, <1>4, <2>1, <4>1 DEF Arriving
    <3>3. /\ IsFiniteSet(Arriving(x, packets)) /\ Cardinality(Arriving(x, packets)) \in Nat
          /\ IsFiniteSet(Arriving(y, rest)) /\ Cardinality(Arriving(y, rest)) \in Nat
      BY <1>5, ArrivingFinite
    <3>4. Cardinality(Arriving(x, packets) \ {d}) >= Cardinality(Arriving(x, packets)) - 1
      BY <3>3, FS_RemoveElement
    <3>5. Cardinality(Arriving(x, packets) \ {d}) <= Cardinality(Arriving(y, rest))
      BY <3>2, <3>3, FS_Subset
    <3>6. Cardinality(Arriving(x, packets) \ {d}) \in Nat
      BY <3>3, FS_RemoveElement, FS_CardinalityType
    <3>7. y.outstanding \in 1 .. Cardinality(Arriving(y, rest))
      BY <1>1, <2>1, <3>1, <3>3, <3>4, <3>5, <3>6
    <3>. QED  BY <2>1, <2>5, <3>7 DEF Awaited, y
  <2>. QED  BY <2>4, <2>5 DEF y
<1>. QED  BY <1>6, <1>7

LEMMA PartAwaited ==
  ASSUME TypeOK, TransferInv, Accounting, SomethingAwaited, HashesDiffer,
         "duplicate" \notin Faults, NEW t \in RxThreads, NEW m \in net, RecvPart(t, m)
  PROVE  SomethingAwaited'
<1>1. /\ m \in Messages /\ m.type = "PART" /\ UNCHANGED tx /\ net \in SUBSET Messages
  BY DEF RecvPart, CanReceive, TypeOK, senderVars
<1>2. CASE rx = None \/ rx.res # m.res
  <2>1. CASE rx = None
    BY <2>1, RestFacts DEF RecvPart, SomethingAwaited
  <2>2. CASE rx # None /\ rx.res # m.res
    <3>1. net' = net \ {m} /\ UNCHANGED rx
      BY <2>2, RestFacts DEF RecvPart
    <3>2. rx.res # None  BY <2>2, NotNone, ConstantsAssumption
    <3>. QED  BY <1>1, <2>2, <3>1, <3>2, OthersLeave
  <2>. QED  BY <1>2, <2>1, <2>2
<1>3. CASE rx # None /\ rx.res = m.res
  <2>. DEFINE r == rx.res
              d == m.data
              x == receive_part(rx, d)
  <2>1. /\ r \in Resources /\ HasPrefix(r, rx) /\ rx \in Receiver(r) /\ Counts(rx)
        /\ d \in Idx(r)
    BY <1>1, <1>3, CurrentPrefix, MessageFields
       DEF HasPrefix, Accounting, Counts, Stored, Fillable
  <2>2. HasPrefix(r, x) /\ x \in Receiver(r) /\ Counts(x) /\ x.res = r
    <3>1. HasPrefix(r, x)  BY <2>1, HashmapUntouched
    <3>2. Counts(x)  BY <2>1, ReceivePartCounts
    <3>. QED  BY <3>1, <3>2 DEF HasPrefix, Receiver
  <2>3. is_complete(rx) => is_complete(x)
    <3>1. x = rx \/ x.received = rx.received + 1
      <4>1. Matches(rx, d) = {} => x = rx  BY DEF receive_part
      <4>2. Matches(rx, d) # {} => x.received = rx.received + 1  BY <2>1, PartFills
      <4>. QED  BY <4>1, <4>2
    <3>2. x.received <= N[r] /\ x.received \in Nat /\ rx.received \in Nat /\ N[r] \in Nat
      BY <2>1, <2>2, NextIsMissing, IdxFacts DEF Receiver
    <3>. QED  BY <2>2, <3>1, <3>2 DEF is_complete
  <2>4. Awaited(rx, net) \/ is_complete(x) \/ tx # r
    BY <1>3, <2>3 DEF SomethingAwaited
  <2>5. \/ is_complete(x) /\ rx' = x
        \/ ~is_complete(x) /\ WindowDone(rx, d) /\ Continue(x, net \ {m})
        \/ ~is_complete(x) /\ ~WindowDone(rx, d) /\ rx' = x /\ net' = net \ {m}
    BY <1>3, RestFacts DEF RecvPart
  <2>6. x.waiting_for_hmu = rx.waiting_for_hmu
    <3>1. Matches(rx, d) = {} => x = rx  BY DEF receive_part
    <3>2. Matches(rx, d) # {} => x.waiting_for_hmu = rx.waiting_for_hmu
      BY <2>1, PartFills
    <3>. QED  BY <3>1, <3>2
  <2>. HIDE DEF x
  <2>7. CASE is_complete(x) /\ rx' = x
    BY <2>7 DEF SomethingAwaited, is_complete
  <2>8. CASE ~is_complete(x) /\ WindowDone(rx, d) /\ Continue(x, net \ {m})
    <3>1. rx' = next_request(x) /\ net' = (net \ {m}) \cup RequestOf(x)
      BY <2>1, <2>2, <2>8, ContinuePrefix
    <3>2. CASE ~x.waiting_for_hmu
      <4>1. Awaited(next_request(x), net')
        BY <2>1, <2>2, <2>8, <3>1, <3>2, RequestAwaited
      <4>. QED  BY <3>1, <4>1 DEF SomethingAwaited, Awaited, Arriving, Fillable, MissingInWindow
    <3>3. CASE x.waiting_for_hmu
      <4>1. next_request(x) = x /\ RequestOf(x) = {}
        BY <3>3 DEF next_request, RequestOf, NothingToRequest
      <4>2. rx' = x /\ net' = net \ {m}  BY <3>1, <4>1
      <4>3. tx = r => Awaited(x, net \ {m})
        BY <1>1, <1>3, <2>1, <2>4, <2>6, <2>8, <3>3, StoredAwaited DEF x
      <4>. QED  BY <1>1, <2>2, <4>2, <4>3
                DEF SomethingAwaited, Awaited, Arriving, Fillable, MissingInWindow
    <3>. QED  BY <3>2, <3>3
  <2>9. CASE ~is_complete(x) /\ ~WindowDone(rx, d) /\ rx' = x /\ net' = net \ {m}
    <3>1. tx = r => Awaited(x, net \ {m})
      BY <1>1, <1>3, <2>1, <2>4, <2>9, StoredAwaited DEF x
    <3>. QED  BY <1>1, <2>2, <2>9, <3>1
              DEF SomethingAwaited, Awaited, Arriving, Fillable, MissingInWindow
  <2>. QED  BY <2>5, <2>7, <2>8, <2>9
<1>. QED  BY <1>2, <1>3

\* A page ends the wait, and the next request goes out at once.
LEMMA HmuAwaited ==
  ASSUME TypeOK, TransferInv, Accounting, SomethingAwaited,
         "duplicate" \notin Faults, NEW t \in RxThreads, NEW m \in net, RecvHmu(t, m)
  PROVE  SomethingAwaited'
<1>1. /\ m \in Messages /\ m.type = "HMU" /\ UNCHANGED tx
  BY DEF RecvHmu, CanReceive, TypeOK, senderVars
<1>2. CASE ~(rx # None /\ rx.res = m.res)
  <2>1. net' = net \ {m} /\ UNCHANGED rx
    BY <1>2, RestFacts DEF RecvHmu
  <2>2. rx # None => rx.res # None  BY NotNone, ConstantsAssumption
  <2>. QED  BY <1>1, <1>2, <2>1, <2>2, OthersLeave
<1>3. CASE rx # None /\ rx.res = m.res
  <2>. DEFINE r == rx.res
              x == receive_hashmap_update(rx, m.page)
  <2>1. /\ r \in Resources /\ HasPrefix(r, rx) /\ rx \in Receiver(r) /\ Counts(rx)
        /\ m.page \in Nat
    BY <1>1, <1>3, CurrentPrefix, MessageFields, IdxFacts
       DEF HasPrefix, Accounting, Counts, Stored, Fillable
  <2>2. m.page * HASHMAP_MAX_LEN <= rx.hashmap_height
    BY <1>1, <1>3 DEF TransferInv, NoPageAhead
  <2>3. HasPrefix(r, x) /\ Counts(x) /\ x.res = r /\ x \in Receiver(r)
    <3>1. HasPrefix(r, x)  BY <2>1, <2>2, UpdatePrefix
    <3>2. Counts(x)  BY <2>1, HashmapUpdateCounts
    <3>. QED  BY <3>1, <3>2 DEF HasPrefix, Receiver
  <2>4. ~x.waiting_for_hmu
    BY <2>1 DEF receive_hashmap_update, Receiver
  <2>5. Continue(x, net \ {m})
    BY <1>3, RestFacts DEF RecvHmu
  <2>. HIDE DEF x
  <2>6. rx' = next_request(x) /\ net' = (net \ {m}) \cup RequestOf(x)
    BY <2>1, <2>3, <2>5, ContinuePrefix
  <2>7. CASE is_complete(x)
    <3>1. rx' = x  BY <2>6, <2>7 DEF next_request
    <3>. QED  BY <2>7, <3>1 DEF SomethingAwaited, is_complete
  <2>8. CASE ~is_complete(x)
    <3>1. Awaited(next_request(x), net')
      BY <2>1, <2>3, <2>4, <2>6, <2>8, RequestAwaited
    <3>. QED  BY <2>6, <3>1 DEF SomethingAwaited, Awaited, Arriving, Fillable, MissingInWindow
  <2>. QED  BY <2>7, <2>8
<1>. QED  BY <1>2, <1>3

\* A new receiver asks for its first window.
LEMMA AdvAwaited ==
  ASSUME TypeOK, SomethingAwaited,
         "duplicate" \notin Faults, NEW t \in RxThreads, NEW m \in net, RecvAdv(t, m)
  PROVE  SomethingAwaited'
<1>1. m \in Messages /\ m.type = "ADV" /\ m.res \in Resources /\ UNCHANGED tx
  BY MessageFields DEF RecvAdv, CanReceive, TypeOK, senderVars
<1>2. CASE ~Accepts(m.res)
  <2>1. net' = net \ {m} /\ UNCHANGED rx
    BY <1>2, RestFacts DEF RecvAdv
  <2>2. rx # None => rx.res # None  BY NotNone, ConstantsAssumption
  <2>. QED  BY <1>1, <2>1, <2>2, OthersLeave
<1>3. CASE Accepts(m.res)
  <2>. DEFINE x == accept(m.res)
  <2>1. rx' = next_request(x) /\ RequestOf(x) \subseteq net'
    BY <1>3 DEF RecvAdv
  <2>2. HasPrefix(m.res, x) /\ Counts(x)  BY <1>1, AcceptPrefix, AcceptCounts
  <2>3. ~x.waiting_for_hmu /\ ~is_complete(x)
    BY <1>1, IdxFacts DEF accept, is_complete
  <2>. HIDE DEF x
  <2>4. Awaited(next_request(x), net')
    BY <1>1, <2>1, <2>2, <2>3, RequestAwaited
  <2>. QED  BY <2>1, <2>4 DEF SomethingAwaited, Awaited, Arriving, Fillable, MissingInWindow
<1>. QED  BY <1>2, <1>3

\* On a network that only reorders, and for parts whose map-hashes differ, an
\* unfinished transfer always has on the way the request, the page or a part
\* that it waits for: next_request, handle_request and the countdown of
\* outstanding never leave both sides waiting, however many parts, pages,
\* resources and receiving threads there are.
THEOREM NeverSilentHolds ==
  ASSUME HashesDiffer
  PROVE  Spec => []NeverSilent
<1>1. CASE Faults # {}
  <2>1. NeverSilent  BY <1>1 DEF NeverSilent
  <2>. QED  BY <2>1, PTL
<1>2. CASE Faults = {}
  <2>. USE <1>2
  <2>1. Init => SomethingAwaited  BY DEF Init, SomethingAwaited
  <2>2. TypeOK /\ TransferInv /\ Accounting /\ SomethingAwaited /\ [Next]_vars
          => SomethingAwaited'
    <3>. SUFFICES ASSUME TypeOK, TransferInv, Accounting, SomethingAwaited, [Next]_vars
                  PROVE  SomethingAwaited'
      OBVIOUS
    <3>. USE HashesDiffer
    <3>1. ASSUME NEW r \in Resources, SendResource(r)  PROVE SomethingAwaited'
      <4>1. rx' = rx /\ tx' = r /\ (rx = None \/ rx.res # r)
        BY <3>1 DEF SendResource, receiverVars, TransferInv, AdvIsFirst
      <4>. QED  BY <4>1 DEF SomethingAwaited
    <3>2. ASSUME NEW m \in net, RecvProof(m)  PROVE SomethingAwaited'
      <4>1. rx # None => rx.res # None  BY NotNone, ConstantsAssumption
      <4>2. rx' = rx /\ (tx' = tx \/ tx' = None) /\ net' = net \ {m} /\ m.type = "PRF"
        BY <3>2 DEF RecvProof, receiverVars, Rest
      <4>. QED  BY <4>1, <4>2, OthersLeave
    <3>3. ASSUME NEW t \in RxThreads, Assemble(t)  PROVE SomethingAwaited'
      BY <3>3 DEF Assemble, SomethingAwaited
    <3>4. ASSUME NEW t \in RxThreads, Deliver(t)  PROVE SomethingAwaited'
      BY <3>4 DEF Deliver, senderVars, SomethingAwaited, is_complete, Awaited, Arriving,
                  Fillable, MissingInWindow
    <3>5. CASE UNCHANGED vars
      BY <3>5 DEF vars, SomethingAwaited, is_complete, Awaited, Arriving, Fillable,
                  MissingInWindow
    <3>6. ~SenderLosesLink /\ ~ReceiverLosesLink /\ ~EvictReceiver /\ \A m : ~Lose(m)
      BY DEF SenderLosesLink, ReceiverLosesLink, EvictReceiver, Lose
    <3>7. ASSUME NEW m \in net, ServeRequest(m)  PROVE SomethingAwaited'
      BY <3>7, ServedAwaited
    <3>8. ASSUME NEW t \in RxThreads, NEW m \in net,
                 RecvAdv(t, m) \/ RecvPart(t, m) \/ RecvHmu(t, m)
          PROVE  SomethingAwaited'
      BY <3>8, AdvAwaited, PartAwaited, HmuAwaited
    <3>. QED  BY <3>1, <3>2, <3>3, <3>4, <3>5, <3>6, <3>7, <3>8 DEF Next
  <2>3. TypeOK /\ SomethingAwaited => NeverSilent
    <3>. SUFFICES ASSUME TypeOK, SomethingAwaited, rx # None, tx = rx.res, ~is_complete(rx)
                  PROVE  NeverSilent
      BY DEF NeverSilent
    <3>1. Awaited(rx, net)  BY DEF SomethingAwaited
    <3>2. CASE rx.waiting_for_hmu
      BY <3>1, <3>2 DEF Awaited, NeverSilent
    <3>3. CASE ~rx.waiting_for_hmu
      <4>1. PICK r \in Resources : rx \in Receiver(r) /\ rx.res = r  BY NotNone
      <4>2. Arriving(rx, net) # {}
        BY <3>1, <3>3, FS_EmptySet DEF Awaited
      <4>3. PICK i : i \in Arriving(rx, net)  BY <4>2
      <4>4. i \in Matches(rx, i)
        BY <4>3 DEF Arriving, Fillable, Matches
      <4>5. \E m \in net : /\ m.res = rx.res
                           /\ \/ m.type = "REQ"
                              \/ m.type = "PART" /\ Matches(rx, m.data) # {}
        BY <4>3, <4>4 DEF Arriving, Part
      <4>. QED  BY <3>3, <4>5 DEF NeverSilent
    <3>. QED  BY <3>2, <3>3
  <2>4. "duplicate" \notin Faults  OBVIOUS
  <2>. QED  BY <2>1, <2>2, <2>3, <2>4, TypeCorrect, TransferInvariant, AccountingHolds, PTL
            DEF Spec
<1>. QED  BY <1>1, <1>2

-----------------------------------------------------------------------------
(* Refinement.                                                               *)

\* The resources handed over, as the refinement mapping reads them.
Handed == {r \in Resources : delivered[r] > 0}

\* Every step of the transfer is a step of LargeDelivery or invisible to it.
LEMMA StepRefines ==
  ASSUME TypeOK, TransferInv, [Next]_vars
  PROVE  [Abstract!Next]_(Abstract!absVars)
<1>. DEFINE Same == UNCHANGED <<started, accepted, delivered, confirmed>>
<1>. USE DEF senderVars, receiverVars
<1>1. ASSUME Same  PROVE UNCHANGED Abstract!absVars
  BY <1>1 DEF Abstract!absVars
<1>2. ASSUME NEW r \in Resources, SendResource(r)  PROVE Abstract!Next
  <2>1. Abstract!Offer(r)
    BY <1>2 DEF SendResource, Abstract!Offer
  <2>. QED  BY <2>1 DEF Abstract!Next
<1>3. ASSUME NEW m \in net, RecvProof(m)
      PROVE  [Abstract!Next]_(Abstract!absVars)
  <2>1. CASE confirmed' = confirmed
    BY <1>1, <1>3, <2>1 DEF RecvProof
  <2>2. CASE confirmed' # confirmed
    <3>1. m.res \in accepted /\ confirmed' = confirmed \cup {m.res}
      BY <1>3, <2>2 DEF RecvProof, ProofIsValid, TransferInv, ProofsAreTrue
    <3>2. m.res \in Resources  BY <3>1 DEF TypeOK
    <3>3. Abstract!Confirm(m.res)
      BY <1>3, <2>2, <3>1 DEF RecvProof, Abstract!Confirm
    <3>. QED  BY <3>2, <3>3 DEF Abstract!Next
  <2>. QED  BY <2>1, <2>2
<1>4. ASSUME NEW t \in RxThreads, Assemble(t)
      PROVE  [Abstract!Next]_(Abstract!absVars)
  <2>1. CASE rx # None /\ rxLink /\ Intact(rx)
    <3>1. rx.res \in Resources  BY <2>1, NotNone
    <3>2. rx.res \in started \ accepted
      BY <2>1, <3>1 DEF TransferInv, AdvIsFirst, HandedOnce
    <3>3. Abstract!Accept(rx.res)
      BY <1>4, <2>1, <3>2 DEF Assemble, Abstract!Accept
    <3>. QED  BY <3>1, <3>3 DEF Abstract!Next
  <2>2. CASE ~(rx # None /\ rxLink /\ Intact(rx))
    BY <1>1, <1>4, <2>2 DEF Assemble
  <2>. QED  BY <2>1, <2>2
<1>5. ASSUME NEW t \in RxThreads, Deliver(t)  PROVE Abstract!Next
  <2>1. PICK r \in Resources : r = held[t] /\ r \in accepted /\ delivered[r] = 0
    BY <1>5 DEF Deliver, TransferInv, HandedOnce, TypeOK
  <2>2. /\ delivered' = [delivered EXCEPT ![r] = delivered[r] + 1]
        /\ UNCHANGED <<started, accepted, confirmed>>
    BY <1>5, <2>1 DEF Deliver
  <2>3. /\ delivered'[r] = 1
        /\ \A q \in Resources : q # r => delivered'[q] = delivered[q]
    BY <2>1, <2>2 DEF TypeOK
  <2>4. Handed' = Handed \cup {r} /\ r \notin Handed
    BY <2>1, <2>3 DEF Handed
  <2>5. Abstract!HandOver(r)
    BY <2>1, <2>2, <2>4 DEF Abstract!HandOver, Handed
  <2>. QED  BY <2>1, <2>5 DEF Abstract!Next
<1>6. ASSUME NEW m \in net, ServeRequest(m) \/ Lose(m)  PROVE Same
  BY <1>6 DEF ServeRequest, Lose
<1>7. ASSUME NEW t \in RxThreads, NEW m \in net,
             RecvAdv(t, m) \/ RecvPart(t, m) \/ RecvHmu(t, m)
      PROVE  Same
  BY <1>7 DEF RecvAdv, RecvPart, RecvHmu
<1>8. CASE SenderLosesLink \/ ReceiverLosesLink \/ EvictReceiver \/ UNCHANGED vars
  <2>1. Same
    BY <1>8 DEF SenderLosesLink, ReceiverLosesLink, EvictReceiver, vars
  <2>. QED  BY <1>1, <2>1
<1>. HIDE DEF Same
<1>. QED  BY <1>1, <1>2, <1>3, <1>4, <1>5, <1>6, <1>7, <1>8 DEF Next

\* The transfer protocol keeps the promise of LargeDelivery: only what was
\* offered is accepted, each payload is handed on once, and the sender is told
\* only about accepted payloads.
THEOREM RefinesLargeDelivery ==
  ASSUME "duplicate" \notin Faults
  PROVE  Spec => ImplementsLargeDelivery
<1>1. Init => Abstract!Init
  BY DEF Init, Abstract!Init
<1>2. TypeOK /\ TransferInv /\ [Next]_vars => [Abstract!Next]_(Abstract!absVars)
  BY StepRefines
<1>. QED
  BY <1>1, <1>2, TypeCorrect, TransferInvariant, PTL
     DEF Spec, ImplementsLargeDelivery, Abstract!Spec
=============================================================================
