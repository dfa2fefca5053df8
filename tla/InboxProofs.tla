----------------------------- MODULE InboxProofs -----------------------------
(***************************************************************************)
(* Proofs about Inbox, for any messages, peers, reader threads and bounds. *)
(*                                                                         *)
(* The invariants, each with the facts it rests on:                        *)
(*   Shape      the types (TypeCorrect);                                   *)
(*   ThreadInv  an unraced post is queued only where its sender's thread   *)
(*              will be open (RightThreadHolds);                           *)
(*   KeepInv    a known message is in the PDDB or on its way there (a list *)
(*              or dialogue deleted to be written again is in memory until *)
(*              it is), and a held copy is deleted for good only when the  *)
(*              message has moved on (KeptWhenQuietHolds);                 *)
(*   BadgeInv   badge, held list and its copy in the PDDB agree, but for   *)
(*              readers half-way and while the UI empties them; the UI and *)
(*              a reader meet at one peer only if it is blurred            *)
(*              (BadgeIsTrueHolds);                                        *)
(*   GoneInv    no save can find a cleared message (ClearedIsGoneHolds);   *)
(*   DupInv     the copies of a message, and what a crash could add to     *)
(*              them, are within its budget (NoDuplicateHolds).            *)
(* A step is cited by what it does to one piece of the state: the lemmas   *)
(* ...Moves for a thread's stage, ...Kinds and SendSource for the rest.    *)
(***************************************************************************)
EXTENDS Inbox, SequenceTheorems, FiniteSetTheorems, TLAPS

-----------------------------------------------------------------------------
(* The shape of the state.                                                 *)

Stages == {"dedup", "route", "post", "save", "hold", "persist", "badge"}
Deliveries == [at : Stages, m : Msgs]
UiStages == {"key", "rekey", "set", "take", "flush", "forget", "resave", "reset", "drop", "unbadge",
             "undict"}
UiWorks == [at : UiStages, p : Peers, batch : [Msgs -> Nat], had : BOOLEAN]
Ops == {Add(m) : m \in Msgs} \cup {Save} \cup {Set(t) : t \in Peers}

Lists ==
    /\ pending \in [Msgs -> Nat] /\ unread \in [Msgs -> Nat]
    /\ open \in [Msgs -> Nat] /\ savedHeld \in [Msgs -> Nat]
    /\ saved \in [Dialogues -> [Msgs -> Nat]] /\ saving \in BOOLEAN
Threads ==
    current \in Dialogues /\ shown \in Dialogues /\ savedPeer \in Dialogues
Readings == rd \in [Readers -> {Idle} \cup Deliveries]
Uis == ui \in {Idle} \cup UiWorks
Queue == queue \in Seq(Ops)
Recents == recent \in Seq(Msgs) /\ Len(recent) <= MAX_RECENT
Ghosts ==
    /\ acked \subseteq Msgs /\ raced \subseteq Msgs /\ caught \subseteq Msgs /\ wiped \subseteq Msgs
    /\ blurred \subseteq Peers
Shape == Lists /\ Threads /\ Readings /\ Uis /\ Queue /\ Recents /\ Ghosts

ReaderStep(r) ==
    \/ Dedup(r) \/ Route(r) \/ PostToChat(r) \/ SavePost(r)
    \/ Hold(r) \/ PersistHeld(r) \/ Badge(r)
UiStep ==
    \/ DeletePeerKey \/ WritePeerKey \/ SwitchDialogue \/ TakeHeld \/ (\E m \in Msgs : FlushOne(m))
    \/ ClearBadge \/ DeletePending \/ SaveFlushed
    \/ ReopenCleared \/ DropHeld \/ DropBadge \/ DropPending
Serve == ServeAdd \/ ServeSave \/ ServeSet

\* Every step is one of these.
LEMMA Steps ==
    ASSUME [Next]_vars
    PROVE  \/ \E r \in Readers, m \in Msgs, live \in BOOLEAN : Arrive(r, m, live)
           \/ \E r \in Readers : ReaderStep(r)
           \/ \E p \in Peers : ActivatePeer(p)
           \/ ClearHistory \/ UiStep \/ Serve \/ DeleteDialogue \/ Crash \/ UNCHANGED vars
BY DEF Next, ReaderStep, UiStep, Serve

LEMMA NothingType == Nothing \in [Msgs -> Nat] /\ \A m \in Msgs : Nothing[m] = 0
BY DEF Nothing

LEMMA WithoutType ==
    ASSUME NEW h \in [Msgs -> Nat], NEW p
    PROVE  /\ Without(h, p) \in [Msgs -> Nat]
           /\ \A m \in Msgs : Without(h, p)[m] = IF Sender[m] = p THEN 0 ELSE h[m]
BY DEF Without

LEMMA OnlyType ==
    ASSUME NEW h \in [Msgs -> Nat], NEW p
    PROVE  /\ Only(h, p) \in [Msgs -> Nat]
           /\ \A m \in Msgs : Only(h, p)[m] = IF Sender[m] = p THEN h[m] ELSE 0
BY DEF Only

LEMMA SenderType == \A m \in Msgs : Sender[m] \in Peers /\ Sender[m] \in Dialogues
BY SenderAssumption DEF Dialogues

LEMMA OpFacts ==
    /\ \A m : Add(m).op = "add" /\ Add(m).m = m
    /\ \A t : Set(t).op = "set" /\ Set(t).to = t
    /\ Save.op = "save"
    /\ \A m \in Msgs : Add(m) \in Ops
    /\ \A t \in Peers : Set(t) \in Ops
    /\ Save \in Ops
    /\ \A o \in Ops : /\ o.op = "add" => o.m \in Msgs /\ o = Add(o.m)
                      /\ o.op = "set" => o.to \in Peers /\ o = Set(o.to)
                      /\ o.op = "save" => o = Save
                      /\ o.op \in {"add", "set", "save"}
<1>1. /\ \A m : Add(m).op = "add" /\ Add(m).m = m
      /\ \A t : Set(t).op = "set" /\ Set(t).to = t
      /\ Save.op = "save"
  BY DEF Add, Set, Save
<1>2. /\ \A m \in Msgs : Add(m) \in Ops
      /\ \A t \in Peers : Set(t) \in Ops
      /\ Save \in Ops
  BY DEF Ops
<1>3. ASSUME NEW o \in Ops
      PROVE  /\ o.op = "add" => o.m \in Msgs /\ o = Add(o.m)
             /\ o.op = "set" => o.to \in Peers /\ o = Set(o.to)
             /\ o.op = "save" => o = Save
             /\ o.op \in {"add", "set", "save"}
  <2>1. (\E m \in Msgs : o = Add(m)) \/ o = Save \/ (\E t \in Peers : o = Set(t))
    BY DEF Ops
  <2> QED BY <1>1, <2>1
<1> QED BY <1>1, <1>2, <1>3

-----------------------------------------------------------------------------
(* What a step does to the readers, the UI and the queue.                  *)

IdleOrBusy(w) == w = Idle \/ w \in Deliveries

LEMMA ReadingFacts ==
    ASSUME Readings, NEW r \in Readers
    PROVE  /\ rd[r].at # "idle" <=> rd[r] # Idle
           /\ rd[r].at = "idle" <=> rd[r] = Idle
           /\ rd[r].at # "idle" => rd[r] \in Deliveries /\ rd[r].m \in Msgs /\ rd[r].at \in Stages
           /\ rd[r].at # "idle" => rd[r] = [at |-> rd[r].at, m |-> rd[r].m]
<1>1. rd[r] = Idle \/ rd[r] \in Deliveries  BY DEF Readings
<1>2. Idle.at = "idle"  BY DEF Idle
<1> QED BY <1>1, <1>2 DEF Deliveries, Stages

\* Reader r goes to stage s with the message it has, and nobody else moves.
Goes(r, s) ==
    /\ rd' \in [Readers -> {Idle} \cup Deliveries]
    /\ rd'[r] = [at |-> s, m |-> rd[r].m]
    /\ \A o \in Readers : o # r => rd'[o] = rd[o]
Rests(r) ==
    /\ rd' \in [Readers -> {Idle} \cup Deliveries]
    /\ rd'[r] = Idle
    /\ \A o \in Readers : o # r => rd'[o] = rd[o]

LEMMA GoesStep ==
    ASSUME Readings, NEW r \in Readers, rd[r].at # "idle", NEW s \in Stages,
           rd' = [rd EXCEPT ![r].at = s]
    PROVE  Goes(r, s)
<1>1. rd[r] \in Deliveries  BY ReadingFacts
<1>2. rd' = [rd EXCEPT ![r] = [rd[r] EXCEPT !.at = s]]  OBVIOUS
<1>3. [rd[r] EXCEPT !.at = s] = [at |-> s, m |-> rd[r].m]  BY <1>1 DEF Deliveries
<1>4. [at |-> s, m |-> rd[r].m] \in Deliveries  BY <1>1 DEF Deliveries
<1> QED BY <1>2, <1>3, <1>4 DEF Goes, Readings

LEMMA RestsStep ==
    ASSUME Readings, NEW r \in Readers, rd' = [rd EXCEPT ![r] = Idle]
    PROVE  Rests(r)
BY DEF Rests, Readings

LEMMA MoveFacts ==
    ASSUME NEW r \in Readers
    PROVE  /\ \A s : Goes(r, s) => /\ rd'[r].at = s /\ rd'[r].m = rd[r].m
                                   /\ \A o \in Readers : o # r => rd'[o] = rd[o]
           /\ Rests(r) => /\ rd'[r] = Idle /\ rd'[r].at = "idle"
                          /\ \A o \in Readers : o # r => rd'[o] = rd[o]
BY DEF Goes, Rests, Idle

LEMMA DedupMoves ==
    ASSUME Readings, NEW r \in Readers, Dedup(r)
    PROVE  /\ rd[r].at = "dedup" /\ rd[r].m \in Msgs
           /\ rd[r].m \in Range(recent) => Rests(r) /\ acked' = acked \cup {rd[r].m}
           /\ rd[r].m \notin Range(recent) => Goes(r, "route") /\ acked' = acked
<1>1. rd[r].at = "dedup"  BY DEF Dedup
<1>2. rd[r].m \in Range(recent) => Rests(r) /\ acked' = acked \cup {rd[r].m}
  BY RestsStep DEF Dedup, Done
<1>3. rd[r].m \notin Range(recent) => Goes(r, "route") /\ acked' = acked
  BY <1>1, GoesStep DEF Dedup, Stages
<1> QED BY <1>1, <1>2, <1>3, ReadingFacts

LEMMA RouteMoves ==
    ASSUME Readings, NEW r \in Readers, Route(r)
    PROVE  /\ rd[r].at = "route" /\ rd[r].m \in Msgs
           /\ Goes(r, IF current = Sender[rd[r].m] THEN "post" ELSE "hold")
<1>1. rd[r].at = "route"  BY DEF Route
<1> DEFINE s == IF current = Sender[rd[r].m] THEN "post" ELSE "hold"
<1>2. s \in Stages /\ rd' = [rd EXCEPT ![r].at = s]  BY DEF Route, Stages
<1> HIDE DEF s
<1>3. Goes(r, s)  BY <1>1, <1>2, GoesStep
<1> QED BY <1>1, <1>3, ReadingFacts DEF s

LEMMA PostMoves ==
    ASSUME Readings, NEW r \in Readers, PostToChat(r)
    PROVE  rd[r].at = "post" /\ rd[r].m \in Msgs /\ Goes(r, "save")
BY GoesStep, ReadingFacts DEF PostToChat, Stages

LEMMA SaveMoves ==
    ASSUME Readings, NEW r \in Readers, SavePost(r)
    PROVE  rd[r].at = "save" /\ rd[r].m \in Msgs /\ Rests(r)
BY RestsStep, ReadingFacts DEF SavePost, Done

LEMMA HoldMoves ==
    ASSUME Readings, NEW r \in Readers, Hold(r)
    PROVE  rd[r].at = "hold" /\ rd[r].m \in Msgs /\ Goes(r, "persist")
BY GoesStep, ReadingFacts DEF Hold, Stages

LEMMA PersistMoves ==
    ASSUME Readings, NEW r \in Readers, PersistHeld(r)
    PROVE  rd[r].at = "persist" /\ rd[r].m \in Msgs /\ Goes(r, "badge")
BY GoesStep, ReadingFacts DEF PersistHeld, Stages

LEMMA BadgeMoves ==
    ASSUME Readings, NEW r \in Readers, Badge(r)
    PROVE  rd[r].at = "badge" /\ rd[r].m \in Msgs /\ Rests(r)
BY RestsStep, ReadingFacts DEF Badge, Done

LEMMA UiFacts ==
    ASSUME Uis
    PROVE  /\ ui.at = "idle" <=> ui = Idle
           /\ ui # Idle => /\ ui \in UiWorks /\ ui.at \in UiStages /\ ui.p \in Peers
                           /\ ui.batch \in [Msgs -> Nat] /\ ui.had \in BOOLEAN
BY DEF Uis, Idle, UiWorks, UiStages

\* The UI goes to stage s with the rest of its work as it was.
UiAt(s) ==
    ui' \in UiWorks /\ ui'.at = s /\ ui'.p = ui.p /\ ui'.batch = ui.batch /\ ui'.had = ui.had

LEMMA UiGoesStep ==
    ASSUME Uis, ui # Idle, NEW s \in UiStages, UiGoes(s)
    PROVE  UiAt(s)
<1>1. ui \in UiWorks  BY UiFacts
<1>2. ui' = [ui EXCEPT !.at = s]  BY DEF UiGoes
<1> QED BY <1>1, <1>2 DEF UiAt, UiWorks

LEMMA UnkeyMoves ==
    ASSUME Uis, DeletePeerKey
    PROVE  ui.at = "key" /\ ui \in UiWorks /\ UiAt("rekey")
BY UiFacts, UiGoesStep DEF DeletePeerKey, UiStages, Idle

LEMMA KeyMoves ==
    ASSUME Uis, WritePeerKey
    PROVE  ui.at = "rekey" /\ ui \in UiWorks /\ UiAt("set")
BY UiFacts, UiGoesStep DEF WritePeerKey, UiStages, Idle

LEMMA SwitchMoves ==
    ASSUME Uis, SwitchDialogue
    PROVE  ui.at = "set" /\ ui \in UiWorks /\ UiAt("take")
BY UiFacts, UiGoesStep DEF SwitchDialogue, UiStages, Idle

LEMMA TakeMoves ==
    ASSUME Uis, Lists, TakeHeld
    PROVE  /\ ui.at = "take" /\ ui \in UiWorks
           /\ ui' \in UiWorks /\ ui'.at = "flush" /\ ui'.p = ui.p
           /\ ui'.batch = Only(pending, ui.p)
           /\ ui'.had = (Only(pending, ui.p) # Nothing)
<1>1. ui.at = "take" /\ ui \in UiWorks  BY UiFacts DEF TakeHeld, Idle
<1> DEFINE B == Only(pending, ui.p)
           H == B # Nothing
           u1 == [ui EXCEPT !.at = "flush"]
           u2 == [u1 EXCEPT !.batch = B]
<1>2. B \in [Msgs -> Nat] /\ H \in BOOLEAN  BY OnlyType DEF Lists
<1>3. ui' = [u2 EXCEPT !.had = H]  BY DEF TakeHeld
<1> HIDE DEF B, H
<1>4. u1 \in UiWorks /\ u1.at = "flush" /\ u1.p = ui.p  BY <1>1 DEF UiWorks, UiStages
<1> HIDE DEF u1
<1>5. u2 \in UiWorks /\ u2.at = "flush" /\ u2.p = ui.p /\ u2.batch = B
  BY <1>2, <1>4 DEF UiWorks, UiStages
<1> HIDE DEF u2
<1>6. ui' \in UiWorks /\ ui'.at = "flush" /\ ui'.p = ui.p /\ ui'.batch = B /\ ui'.had = H
  BY <1>2, <1>3, <1>5 DEF UiWorks
<1> QED BY <1>1, <1>6 DEF B, H

LEMMA FlushMoves ==
    ASSUME Uis, NEW m \in Msgs, FlushOne(m)
    PROVE  /\ ui.at = "flush" /\ ui \in UiWorks /\ ui.batch[m] > 0
           /\ ui' \in UiWorks /\ ui'.at = "flush" /\ ui'.p = ui.p /\ ui'.had = ui.had
           /\ \A n \in Msgs : ui'.batch[n] = IF n = m THEN ui.batch[n] - 1 ELSE ui.batch[n]
<1>1. ui.at = "flush" /\ ui \in UiWorks /\ ui.batch[m] > 0
  BY UiFacts DEF FlushOne, Idle
<1> DEFINE B == [ui.batch EXCEPT ![m] = @ - 1]
<1>2. B \in [Msgs -> Nat] /\ \A n \in Msgs : B[n] = IF n = m THEN ui.batch[n] - 1 ELSE ui.batch[n]
  BY <1>1 DEF UiWorks
<1>3. ui' = [ui EXCEPT !.batch = B]  BY DEF FlushOne
<1> HIDE DEF B
<1>4. ui' \in UiWorks /\ ui'.at = "flush" /\ ui'.p = ui.p /\ ui'.had = ui.had /\ ui'.batch = B
  BY <1>1, <1>2, <1>3 DEF UiWorks
<1> QED BY <1>1, <1>2, <1>4

LEMMA ClearBadgeMoves ==
    ASSUME Uis, ClearBadge
    PROVE  /\ ui.at = "flush" /\ ui \in UiWorks /\ ui.batch = Nothing
           /\ ui.had => UiAt("forget")
           /\ ~ui.had => ui' = Idle
BY UiFacts, UiGoesStep DEF ClearBadge, UiStages, Idle

LEMMA DeleteMoves ==
    ASSUME Uis, DeletePending
    PROVE  ui.at = "forget" /\ ui \in UiWorks /\ UiAt("resave")
BY UiFacts, UiGoesStep DEF DeletePending, UiStages, Idle

LEMMA SaveFlushedMoves ==
    ASSUME Uis, SaveFlushed
    PROVE  ui.at = "resave" /\ ui \in UiWorks /\ ui' = Idle
BY UiFacts DEF SaveFlushed, Idle

LEMMA ReopenMoves ==
    ASSUME Uis, ReopenCleared
    PROVE  ui.at = "reset" /\ ui \in UiWorks /\ UiAt("drop")
BY UiFacts, UiGoesStep DEF ReopenCleared, UiStages, Idle

LEMMA DropHeldMoves ==
    ASSUME Uis, DropHeld
    PROVE  ui.at = "drop" /\ ui \in UiWorks /\ UiAt("unbadge")
BY UiFacts, UiGoesStep DEF DropHeld, UiStages, Idle

LEMMA DropBadgeMoves ==
    ASSUME Uis, DropBadge
    PROVE  ui.at = "unbadge" /\ ui \in UiWorks /\ UiAt("undict")
BY UiFacts, UiGoesStep DEF DropBadge, UiStages, Idle

LEMMA DropPendingMoves ==
    ASSUME Uis, DropPending
    PROVE  ui.at = "undict" /\ ui \in UiWorks /\ ui' = Idle
BY UiFacts DEF DropPending, Idle

LEMMA ActivateMoves ==
    ASSUME NEW p \in Peers, ActivatePeer(p)
    PROVE  /\ ui = Idle /\ ui' \in UiWorks /\ ui'.at = "key" /\ ui'.p = p
           /\ ui'.batch = Nothing /\ ui'.had = FALSE
BY NothingType DEF ActivatePeer, UiStart, UiWorks, UiStages

LEMMA ClearMoves ==
    ASSUME ClearHistory
    PROVE  /\ ui = Idle /\ ui' \in UiWorks /\ ui'.at = "reset" /\ ui'.p = current
           /\ ui'.batch = Nothing /\ ui'.had = FALSE /\ current \in Peers
BY NothingType DEF ClearHistory, UiStart, UiWorks, UiStages

-----------------------------------------------------------------------------
(* The shape is kept.                                                      *)

LEMMA ListsStep ==
    ASSUME Shape, [Next]_vars
    PROVE  Lists'
<1>1. ASSUME NEW r \in Readers, NEW m \in Msgs, NEW live \in BOOLEAN, Arrive(r, m, live)
      PROVE  Lists'
  BY <1>1 DEF Arrive, Shape, Lists, chat, stored
<1>2. ASSUME NEW r \in Readers, ReaderStep(r) PROVE Lists'
  <2>1. CASE Hold(r)
    <3>1. rd[r].m \in Msgs  BY <2>1, HoldMoves DEF Shape
    <3>2. pending' \in [Msgs -> Nat]  BY <2>1, <3>1 DEF Hold, Shape, Lists
    <3>3. savedHeld' \in [Msgs -> Nat]  BY <2>1, WithoutType DEF Hold, Shape, Lists
    <3> QED BY <2>1, <3>2, <3>3 DEF Hold, Shape, Lists, chat
  <2>3. CASE PersistHeld(r)
    BY <2>3 DEF PersistHeld, Shape, Lists, chat
  <2>2. CASE Badge(r)
    <3>1. rd[r].m \in Msgs  BY <2>2, BadgeMoves DEF Shape
    <3> QED BY <2>2, <3>1 DEF Badge, Shape, Lists, chat, stored
  <2> QED BY <1>2, <2>1, <2>2, <2>3
          DEF ReaderStep, Dedup, Route, PostToChat, SavePost, Shape, Lists, chat, stored
<1>3. ASSUME NEW p \in Peers, ActivatePeer(p) PROVE Lists'
  BY <1>3 DEF ActivatePeer, Shape, Lists, chat, stored
<1>4. ASSUME ClearHistory PROVE Lists'
  BY <1>4, NothingType DEF ClearHistory, Shape, Lists, chat
<1>5. ASSUME UiStep PROVE Lists'
  <2>1. CASE TakeHeld \/ DropHeld
    BY <2>1, WithoutType DEF TakeHeld, DropHeld, Shape, Lists, chat, stored
  <2>2. CASE ClearBadge \/ DropBadge
    BY <2>2, WithoutType DEF ClearBadge, DropBadge, Shape, Lists, chat, stored
  <2>3. CASE DeletePending \/ DropPending
    BY <2>3, WithoutType DEF DeletePending, DropPending, Shape, Lists, chat
  <2>4. CASE DeletePeerKey \/ WritePeerKey \/ SwitchDialogue \/ (\E m \in Msgs : FlushOne(m)) \/ SaveFlushed
             \/ ReopenCleared
    BY <2>4 DEF DeletePeerKey, WritePeerKey, SwitchDialogue, FlushOne, SaveFlushed,
       ReopenCleared, Shape, Lists, chat, stored
  <2> QED BY <1>5, <2>1, <2>2, <2>3, <2>4 DEF UiStep
<1>6. ASSUME Serve PROVE Lists'
  <2>0. queue # <<>> => Head(queue) \in Ops  BY HeadTailProperties DEF Shape, Queue
  <2>1. CASE ServeAdd
    <3>1. Head(queue).m \in Msgs  BY <2>0, <2>1, OpFacts DEF ServeAdd
    <3> QED BY <2>1, <3>1 DEF ServeAdd, Shape, Lists, stored
  <2>2. CASE ServeSave
    BY <2>2 DEF ServeSave, Shape, Lists, Threads
  <2>3. CASE ServeSet
    <3>1. Head(queue).to \in Dialogues  BY <2>0, <2>3, OpFacts DEF ServeSet, Dialogues
    <3> QED BY <2>3, <3>1 DEF ServeSet, Shape, Lists, stored
  <2> QED BY <1>6, <2>1, <2>2, <2>3 DEF Serve
<1>7. ASSUME Crash PROVE Lists'
  BY <1>7 DEF Crash, Shape, Lists, Threads, stored
<1>8. ASSUME UNCHANGED vars PROVE Lists'
  BY <1>8 DEF vars, Shape, Lists, chat, stored
<1>9. ASSUME DeleteDialogue PROVE Lists'
  BY <1>9, NothingType DEF DeleteDialogue, Shape, Lists, Threads
<1> QED BY Steps, <1>1, <1>2, <1>3, <1>4, <1>5, <1>6, <1>7, <1>8, <1>9

LEMMA ReadingsStep ==
    ASSUME Shape, [Next]_vars
    PROVE  Readings'
<1>0. Readings  BY DEF Shape
<1>1. ASSUME NEW r \in Readers, NEW m \in Msgs, NEW live \in BOOLEAN, Arrive(r, m, live)
      PROVE  Readings'
  <2>1. [at |-> "dedup", m |-> m] \in Deliveries  BY DEF Deliveries, Stages
  <2> QED BY <1>0, <1>1, <2>1 DEF Arrive, Readings
<1>2. ASSUME NEW r \in Readers, ReaderStep(r) PROVE Readings'
  BY <1>0, <1>2, DedupMoves, RouteMoves, PostMoves, SaveMoves, HoldMoves, PersistMoves,
     BadgeMoves DEF ReaderStep, Goes, Rests, Readings
<1>3. ASSUME UNCHANGED rd PROVE Readings'
  BY <1>0, <1>3 DEF Readings
<1>4. ASSUME Crash PROVE Readings'
  BY <1>4 DEF Crash, Readings
<1>5. UiStep => UNCHANGED rd
  BY DEF UiStep, DeletePeerKey, WritePeerKey, SwitchDialogue, TakeHeld, FlushOne, ClearBadge,
     DeletePending, SaveFlushed, ReopenCleared, DropHeld, DropBadge, DropPending
<1>6. (\E p \in Peers : ActivatePeer(p)) \/ ClearHistory \/ Serve \/ DeleteDialogue \/ UNCHANGED vars => UNCHANGED rd
  BY DEF ActivatePeer, ClearHistory, Serve, ServeAdd, ServeSave, ServeSet, DeleteDialogue, vars
<1> QED BY Steps, <1>1, <1>2, <1>3, <1>4, <1>5, <1>6

LEMMA QuietReaders ==
    /\ UiStep \/ Serve \/ ClearHistory \/ DeleteDialogue \/ UNCHANGED vars => UNCHANGED rd
    /\ \A p \in Peers : ActivatePeer(p) => UNCHANGED rd
<1>1. UiStep => UNCHANGED rd
  BY DEF UiStep, DeletePeerKey, WritePeerKey, SwitchDialogue, TakeHeld, FlushOne, ClearBadge,
     DeletePending, SaveFlushed, ReopenCleared, DropHeld, DropBadge, DropPending
<1>2. ClearHistory \/ Serve \/ DeleteDialogue \/ UNCHANGED vars => UNCHANGED rd
  BY DEF ClearHistory, Serve, ServeAdd, ServeSave, ServeSet, DeleteDialogue, vars
<1>3. \A p \in Peers : ActivatePeer(p) => UNCHANGED rd
  BY DEF ActivatePeer
<1> QED BY <1>1, <1>2, <1>3

LEMMA QuietUi ==
    /\ \A r \in Readers : ReaderStep(r) => UNCHANGED ui
    /\ \A r \in Readers, m \in Msgs, live \in BOOLEAN : Arrive(r, m, live) => UNCHANGED ui
    /\ Serve \/ DeleteDialogue \/ UNCHANGED vars => UNCHANGED ui
BY DEF ReaderStep, Dedup, Route, PostToChat, SavePost, Hold, PersistHeld, Badge, Arrive,
   Serve, ServeAdd, ServeSave, ServeSet, DeleteDialogue, vars

LEMMA UisStep ==
    ASSUME Shape, [Next]_vars
    PROVE  Uis'
<1>0. Uis /\ Lists  BY DEF Shape
<1>1. ASSUME UNCHANGED ui PROVE Uis'  BY <1>0, <1>1 DEF Uis
<1>2. ASSUME UiStep PROVE Uis'
  BY <1>0, <1>2, UnkeyMoves, KeyMoves, SwitchMoves, TakeMoves, FlushMoves, ClearBadgeMoves,
     DeleteMoves, SaveFlushedMoves, ReopenMoves, DropHeldMoves, DropBadgeMoves,
     DropPendingMoves DEF UiStep, UiAt, Uis
<1>3. ASSUME Crash PROVE Uis'  BY <1>3 DEF Crash, Uis
<1> QED BY Steps, <1>1, <1>2, <1>3, QuietUi, ActivateMoves, ClearMoves DEF Uis

\* The chat server's part of the state, left alone or sent a message.
Untouched == queue' = queue /\ shown' = shown /\ open' = open
Sent(op) == queue' = Append(queue, op) /\ shown' = shown /\ open' = open

LEMMA ReaderSends ==
    ASSUME Shape, NEW r \in Readers, ReaderStep(r)
    PROVE  /\ PostToChat(r) => Sent(Add(rd[r].m)) /\ Add(rd[r].m) \in Ops
           /\ SavePost(r) => Sent(Save) /\ Save \in Ops
           /\ Dedup(r) \/ Route(r) \/ Hold(r) \/ PersistHeld(r) \/ Badge(r) => Untouched
<1>1. PostToChat(r) => rd[r].m \in Msgs  BY PostMoves DEF Shape
<1> QED BY <1>1, OpFacts DEF PostToChat, SavePost, Dedup, Route, Hold, PersistHeld, Badge,
           Send, Sent, Untouched, chat

LEMMA UiSends ==
    ASSUME Shape, UiStep
    PROVE  /\ SwitchDialogue => Sent(Set(ui.p)) /\ Set(ui.p) \in Ops
           /\ ReopenCleared => Sent(Set(ui.p)) /\ Set(ui.p) \in Ops
           /\ \A m \in Msgs : FlushOne(m) => Sent(Add(m)) /\ Add(m) \in Ops
           /\ SaveFlushed => Sent(Save) /\ Save \in Ops
           /\ DeletePeerKey \/ WritePeerKey \/ TakeHeld \/ ClearBadge \/ DeletePending \/ DropHeld \/ DropBadge
                 \/ DropPending => Untouched
<1>1. SwitchDialogue \/ ReopenCleared => ui.p \in Peers
  BY SwitchMoves, ReopenMoves DEF Shape, UiWorks
<1> QED BY <1>1, OpFacts DEF SwitchDialogue, ReopenCleared, FlushOne, SaveFlushed,
           DeletePeerKey, WritePeerKey, TakeHeld, ClearBadge, DeletePending, DropHeld,
           DropBadge, DropPending, Send, Sent, Untouched, chat

\* The chat server hears of a step that is not its own only as one more
\* message in its queue.
LEMMA QueueKinds ==
    ASSUME Shape, [Next]_vars
    PROVE  Untouched \/ (\E op \in Ops : Sent(op)) \/ Serve \/ Crash
<1>1. (\E r \in Readers, m \in Msgs, live \in BOOLEAN : Arrive(r, m, live)) => Untouched
  BY DEF Arrive, Untouched, chat
<1>2. (\E p \in Peers : ActivatePeer(p)) \/ ClearHistory \/ DeleteDialogue \/ UNCHANGED vars => Untouched
  BY DEF ActivatePeer, ClearHistory, DeleteDialogue, vars, Untouched, chat
<1>3. ASSUME NEW r \in Readers, ReaderStep(r) PROVE Untouched \/ \E op \in Ops : Sent(op)
  BY <1>3, ReaderSends DEF ReaderStep
<1>4. ASSUME UiStep PROVE Untouched \/ \E op \in Ops : Sent(op)
  BY <1>4, UiSends DEF UiStep
<1> QED BY Steps, <1>1, <1>2, <1>3, <1>4

LEMMA QueueStep ==
    ASSUME Shape, [Next]_vars
    PROVE  Queue'
<1>0. queue \in Seq(Ops)  BY DEF Shape, Queue
<1>1. ASSUME Untouched PROVE Queue'  BY <1>0, <1>1 DEF Untouched, Queue
<1>2. ASSUME NEW op \in Ops, Sent(op) PROVE Queue'
  BY <1>0, <1>2, AppendProperties DEF Sent, Queue
<1>3. ASSUME Serve PROVE Queue'
  BY <1>0, <1>3, HeadTailProperties DEF Serve, ServeAdd, ServeSave, ServeSet, DeleteDialogue,
     Queue
<1>4. ASSUME Crash PROVE Queue'
  BY <1>4 DEF Crash, Queue
<1> QED BY QueueKinds, <1>1, <1>2, <1>3, <1>4

LEMMA ThreadsStep ==
    ASSUME Shape, [Next]_vars
    PROVE  Threads'
<1>0. Threads /\ Uis /\ queue \in Seq(Ops)  BY DEF Shape, Queue
<1>1. shown' \in Dialogues
  <2>1. CASE Untouched \/ (\E op \in Ops : Sent(op)) \/ Crash
    BY <1>0, <2>1 DEF Untouched, Sent, Crash, Threads
  <2>2. CASE Serve
    <3>1. queue # <<>> => Head(queue) \in Ops  BY <1>0, HeadTailProperties
    <3> QED BY <1>0, <2>2, <3>1, OpFacts DEF Serve, ServeAdd, ServeSave, ServeSet,
               DeleteDialogue, Threads, Dialogues
  <2> QED BY <2>1, <2>2, QueueKinds
<1>2. current' \in Dialogues /\ savedPeer' \in Dialogues
  <2>1. CASE DeletePeerKey \/ WritePeerKey
    <3>1. ui.p \in Dialogues /\ Welcome \in Dialogues
      BY <1>0, <2>1, UnkeyMoves, KeyMoves DEF UiWorks, Dialogues
    <3> QED BY <1>0, <2>1, <3>1 DEF DeletePeerKey, WritePeerKey, Threads
  <2>2. CASE Crash
    BY <1>0, <2>2 DEF Crash, Threads, stored
  <2>3. ASSUME NEW p \in Peers, ActivatePeer(p) PROVE current' \in Dialogues /\ savedPeer' \in Dialogues
    BY <1>0, <2>3 DEF ActivatePeer, Threads, Dialogues, stored
  <2>4. CASE (\E r \in Readers, m \in Msgs, live \in BOOLEAN : Arrive(r, m, live))
             \/ (\E r \in Readers : ReaderStep(r)) \/ ClearHistory \/ Serve \/ DeleteDialogue \/ UNCHANGED vars
    BY <1>0, <2>4 DEF Arrive, ReaderStep, Dedup, Route, PostToChat, SavePost, Hold,
       PersistHeld, Badge, ClearHistory, Serve, ServeAdd, ServeSave, ServeSet, DeleteDialogue,
       vars, Threads, stored
  <2>5. CASE UiStep /\ ~DeletePeerKey /\ ~WritePeerKey
    BY <1>0, <2>5
       DEF UiStep, SwitchDialogue, TakeHeld, FlushOne, ClearBadge, DeletePending,
           SaveFlushed, ReopenCleared, DropHeld, DropBadge, DropPending, Threads, stored
  <2> QED BY Steps, <2>1, <2>2, <2>3, <2>4, <2>5
<1> QED BY <1>1, <1>2 DEF Threads

LEMMA RememberKeeps ==
    ASSUME Recents, NEW m \in Msgs, Remember(m)
    PROVE  /\ Recents'
           /\ Range(recent') \subseteq Range(recent) \cup {m}
           /\ m \in Range(recent')
<1> DEFINE ids == Append(recent, m)
<1>1. /\ ids \in Seq(Msgs) /\ Len(ids) = Len(recent) + 1 /\ Len(recent) \in Nat
      /\ \A i \in 1..Len(recent) : ids[i] = recent[i]
      /\ ids[Len(recent) + 1] = m
      /\ recent \in Seq(Msgs)
  BY AppendProperties DEF Recents
<1>2. MAX_RECENT \in Nat /\ MAX_RECENT > 0  BY InboxBounds
<1> HIDE DEF ids
<1>3. CASE Len(ids) > MAX_RECENT
  <2>1. recent' = Tail(ids)  BY <1>3 DEF Remember, ids
  <2>2. ids # <<>>  BY <1>1
  <2>3. /\ Tail(ids) \in Seq(Msgs) /\ Len(Tail(ids)) = Len(recent)
        /\ \A i \in 1..Len(recent) : Tail(ids)[i] = ids[i + 1]
    BY <1>1, <2>2, HeadTailProperties
  <2>4. Len(recent) > 0  BY <1>1, <1>2, <1>3
  <2>5. Recents'  BY <1>1, <2>1, <2>3 DEF Recents
  <2>6. m \in Range(recent')
    <3>1. Tail(ids)[Len(recent)] = m  BY <1>1, <2>3, <2>4
    <3> QED BY <1>1, <2>1, <2>3, <2>4, <3>1 DEF Range
  <2>7. ASSUME NEW x \in Range(recent') PROVE x \in Range(recent) \cup {m}
    <3>1. PICK i \in 1..Len(recent) : x = ids[i + 1]  BY <2>1, <2>3, <2>7 DEF Range
    <3>2. i + 1 \in 1..Len(recent) \/ i + 1 = Len(recent) + 1  BY <1>1
    <3> QED BY <1>1, <3>1, <3>2 DEF Range
  <2> QED BY <2>5, <2>6, <2>7
<1>4. CASE ~(Len(ids) > MAX_RECENT)
  <2>1. recent' = ids  BY <1>4 DEF Remember, ids
  <2>2. Recents'  BY <1>1, <1>2, <1>4, <2>1 DEF Recents
  <2>3. m \in Range(recent')  BY <1>1, <2>1 DEF Range
  <2>4. ASSUME NEW x \in Range(recent') PROVE x \in Range(recent) \cup {m}
    <3>1. PICK i \in 1..(Len(recent) + 1) : x = ids[i]  BY <1>1, <2>1, <2>4 DEF Range
    <3> QED BY <1>1, <3>1 DEF Range
  <2> QED BY <2>2, <2>3, <2>4
<1> QED BY <1>3, <1>4

\* Only an accepted delivery and a crash touch recent_msg_ids.
LEMMA RecentKinds ==
    ASSUME Shape, [Next]_vars
    PROVE  \/ recent' = recent
           \/ \E r \in Readers : Dedup(r) /\ rd[r].m \notin Range(recent) /\ Remember(rd[r].m)
           \/ Crash
<1>1. ASSUME NEW r \in Readers, ReaderStep(r)
      PROVE  \/ recent' = recent
             \/ Dedup(r) /\ rd[r].m \notin Range(recent) /\ Remember(rd[r].m)
  BY <1>1 DEF ReaderStep, Dedup, Route, PostToChat, SavePost, Hold, PersistHeld, Badge
<1>2. UiStep => recent' = recent
  BY DEF UiStep, DeletePeerKey, WritePeerKey, SwitchDialogue, TakeHeld, FlushOne, ClearBadge,
     DeletePending, SaveFlushed, ReopenCleared, DropHeld, DropBadge, DropPending
<1>3. (\E r \in Readers, m \in Msgs, live \in BOOLEAN : Arrive(r, m, live))
         \/ (\E p \in Peers : ActivatePeer(p)) \/ ClearHistory \/ Serve \/ DeleteDialogue \/ UNCHANGED vars
      => recent' = recent
  BY DEF Arrive, ActivatePeer, ClearHistory, Serve, ServeAdd, ServeSave, ServeSet,
     DeleteDialogue, vars
<1> QED BY Steps, <1>1, <1>2, <1>3

LEMMA RecentsStep ==
    ASSUME Shape, [Next]_vars
    PROVE  Recents'
<1>0. Recents /\ Readings  BY DEF Shape
<1>1. ASSUME NEW r \in Readers, Dedup(r), Remember(rd[r].m) PROVE Recents'
  BY <1>0, <1>1, DedupMoves, RememberKeeps
<1>2. ASSUME Crash PROVE Recents'
  BY <1>2, InboxBounds DEF Crash, Recents
<1>3. ASSUME recent' = recent PROVE Recents'  BY <1>0, <1>3 DEF Recents
<1> QED BY RecentKinds, <1>1, <1>2, <1>3

LEMMA GhostsStep ==
    ASSUME Shape, [Next]_vars
    PROVE  Ghosts'
<1>0. Ghosts /\ Readings  BY DEF Shape
<1>1. ASSUME NEW r \in Readers, NEW m \in Msgs, NEW live \in BOOLEAN, Arrive(r, m, live)
      PROVE  Ghosts'
  BY <1>0, <1>1 DEF Arrive, Ghosts
<1>2. ASSUME NEW r \in Readers, ReaderStep(r) PROVE Ghosts'
  <2>1. rd[r].m \in Msgs
    BY <1>0, <1>2, DedupMoves, RouteMoves, PostMoves, SaveMoves, HoldMoves, PersistMoves,
       BadgeMoves DEF ReaderStep
  <2>2. CASE Dedup(r)
    BY <1>0, <2>1, <2>2 DEF Dedup, Done, Ghosts
  <2>3. CASE Route(r) \/ PostToChat(r) \/ SavePost(r) \/ Hold(r) \/ PersistHeld(r) \/ Badge(r)
    BY <1>0, <2>1, <2>3 DEF Route, PostToChat, SavePost, Hold, PersistHeld, Badge, Done,
       ghosts, Ghosts
  <2> QED BY <1>2, <2>2, <2>3 DEF ReaderStep
<1>3. Delivering \subseteq Msgs
  BY <1>0, ReadingFacts DEF Delivering
<1>4. ASSUME NEW p \in Peers, ActivatePeer(p) PROVE Ghosts'
  BY <1>0, <1>3, <1>4 DEF ActivatePeer, Blur, Ghosts
<1>5. ASSUME ClearHistory PROVE Ghosts'
  BY <1>0, <1>3, <1>5 DEF ClearHistory, Blur, Ghosts, From
<1>6. ASSUME UiStep \/ Serve \/ DeleteDialogue \/ UNCHANGED vars PROVE Ghosts'
  <2>1. UNCHANGED ghosts
    BY <1>6 DEF UiStep, DeletePeerKey, WritePeerKey, SwitchDialogue, TakeHeld, FlushOne,
       ClearBadge, DeletePending, SaveFlushed, ReopenCleared, DropHeld, DropBadge,
       DropPending, Serve, ServeAdd, ServeSave, ServeSet, DeleteDialogue, vars
  <2> QED BY <1>0, <2>1 DEF ghosts, Ghosts
<1>7. ASSUME Crash PROVE Ghosts'
  BY <1>0, <1>7 DEF Crash, Ghosts
<1> QED BY Steps, <1>1, <1>2, <1>4, <1>5, <1>6, <1>7

LEMMA ShapeInit == Init => Shape
<1> SUFFICES ASSUME Init PROVE Shape  OBVIOUS
<1>1. Lists /\ Threads /\ Readings /\ Uis /\ Ghosts
  BY NothingType DEF Init, Lists, Threads, Readings, Uis, Ghosts, Dialogues
<1>2. Queue /\ Recents  BY InboxBounds DEF Init, Queue, Recents
<1> QED BY <1>1, <1>2 DEF Shape

LEMMA ShapeStep ==
    ASSUME Shape, [Next]_vars
    PROVE  Shape'
BY ListsStep, ThreadsStep, ReadingsStep, UisStep, QueueStep, RecentsStep, GhostsStep DEF Shape

LEMMA ShapeHolds == Spec => []Shape
BY ShapeInit, ShapeStep, PTL DEF Spec

\* recent_msg_ids never grows past its cap, and every list, stage and record of
\* deliver_lxmf, activate_peer and clear_history_interactive keeps its type.
THEOREM TypeCorrect == Spec => []TypeOK
<1>1. Shape => TypeOK
  <2>1. Ghosts => blurred \subseteq Peers  BY DEF Ghosts
  <2> QED BY <2>1 DEF Shape, Lists, Threads, Readings, Uis, Queue, Recents, TypeOK, Deliveries,
                      Stages, UiWorks, UiStages
<1> QED BY <1>1, ShapeHolds, PTL

-----------------------------------------------------------------------------
(* Which thread is open when the chat server comes to a place in its queue. *)

\* With queue q and thread s shown now, it is t at place i.
OpenIn(q, s, i, t) ==
    \/ s = t /\ \A k \in 1..(i - 1) : q[k].op # "set"
    \/ \E j \in 1..(i - 1) : /\ q[j] = Set(t)
                             /\ \A k \in (j + 1)..(i - 1) : q[k].op # "set"
OpenAt(i, t) == OpenIn(queue, shown, i, t)
AtEnd(t) == OpenIn(queue, shown, Len(queue) + 1, t)

LEMMA OpenFirst ==
    ASSUME NEW q, NEW s, NEW t
    PROVE  OpenIn(q, s, 1, t) <=> s = t
BY DEF OpenIn

LEMMA OpenAppend ==
    ASSUME NEW q \in Seq(Ops), NEW s, NEW t, NEW op \in Ops, NEW i \in 1..(Len(q) + 1),
           OpenIn(q, s, i, t)
    PROVE  OpenIn(Append(q, op), s, i, t)
<1>1. Len(q) \in Nat /\ \A k \in 1..(i - 1) : Append(q, op)[k] = q[k]  BY AppendProperties
<1>2. CASE s = t /\ \A k \in 1..(i - 1) : q[k].op # "set"
  BY <1>1, <1>2 DEF OpenIn
<1>3. CASE \E j \in 1..(i - 1) : q[j] = Set(t) /\ \A k \in (j + 1)..(i - 1) : q[k].op # "set"
  <2>1. PICK j \in 1..(i - 1) : q[j] = Set(t) /\ \A k \in (j + 1)..(i - 1) : q[k].op # "set"
    BY <1>3
  <2>2. Append(q, op)[j] = Set(t) /\ \A k \in (j + 1)..(i - 1) : Append(q, op)[k].op # "set"
    BY <1>1, <2>1
  <2> QED BY <2>2 DEF OpenIn
<1> QED BY <1>2, <1>3 DEF OpenIn

LEMMA OpenPast ==
    ASSUME NEW q \in Seq(Ops), NEW s, NEW t, NEW i \in 1..Len(q), q[i].op # "set",
           OpenIn(q, s, i, t)
    PROVE  OpenIn(q, s, i + 1, t)
<1>0. Len(q) \in Nat  OBVIOUS
<1>1. CASE s = t /\ \A k \in 1..(i - 1) : q[k].op # "set"
  <2>1. \A k \in 1..i : q[k].op # "set"  BY <1>0, <1>1
  <2> QED BY <1>0, <1>1, <2>1 DEF OpenIn
<1>2. CASE \E j \in 1..(i - 1) : q[j] = Set(t) /\ \A k \in (j + 1)..(i - 1) : q[k].op # "set"
  <2>1. PICK j \in 1..(i - 1) : q[j] = Set(t) /\ \A k \in (j + 1)..(i - 1) : q[k].op # "set"
    BY <1>2
  <2>2. \A k \in (j + 1)..i : q[k].op # "set"  BY <1>0, <2>1
  <2>3. j \in 1..((i + 1) - 1)  BY <1>0
  <2> QED BY <1>0, <2>1, <2>2, <2>3 DEF OpenIn
<1> QED BY <1>1, <1>2 DEF OpenIn

LEMMA OpenAppended ==
    ASSUME NEW q \in Seq(Ops), NEW s, NEW t, NEW op \in Ops
    PROVE  /\ op.op # "set" /\ OpenIn(q, s, Len(q) + 1, t)
                => OpenIn(Append(q, op), s, Len(Append(q, op)) + 1, t)
           /\ op = Set(t) => OpenIn(Append(q, op), s, Len(Append(q, op)) + 1, t)
<1>1. /\ Append(q, op) \in Seq(Ops) /\ Len(Append(q, op)) = Len(q) + 1 /\ Len(q) \in Nat
      /\ Append(q, op)[Len(q) + 1] = op
  BY AppendProperties
<1>2. ASSUME op.op # "set", OpenIn(q, s, Len(q) + 1, t)
      PROVE  OpenIn(Append(q, op), s, Len(Append(q, op)) + 1, t)
  <2>1. OpenIn(Append(q, op), s, Len(q) + 1, t)  BY <1>1, <1>2, OpenAppend
  <2>2. Len(q) + 1 \in 1..Len(Append(q, op))  BY <1>1
  <2>3. OpenIn(Append(q, op), s, (Len(q) + 1) + 1, t)  BY <1>1, <1>2, <2>1, <2>2, OpenPast
  <2> QED BY <1>1, <2>3
<1>3. ASSUME op = Set(t)
      PROVE  OpenIn(Append(q, op), s, Len(Append(q, op)) + 1, t)
  <2> DEFINE n == Len(q) + 1
  <2>1. n \in 1..((n + 1) - 1) /\ \A k \in (n + 1)..((n + 1) - 1) : Append(q, op)[k].op # "set"
    BY <1>1
  <2>2. OpenIn(Append(q, op), s, n + 1, t)  BY <1>1, <1>3, <2>1 DEF OpenIn
  <2> QED BY <1>1, <2>2
<1> QED BY <1>2, <1>3

LEMMA OpenTail ==
    ASSUME NEW q \in Seq(Ops), q # <<>>, NEW s, NEW t, NEW i \in 2..(Len(q) + 1),
           OpenIn(q, s, i, t)
    PROVE  /\ Head(q).op # "set" => OpenIn(Tail(q), s, i - 1, t)
           /\ Head(q).op = "set" => OpenIn(Tail(q), Head(q).to, i - 1, t)
<1>1. /\ Len(q) \in Nat /\ Len(q) > 0 /\ Head(q) = q[1] /\ Len(Tail(q)) = Len(q) - 1
      /\ \A k \in 1..(Len(q) - 1) : Tail(q)[k] = q[k + 1]
  BY HeadTailProperties
<1>2. CASE s = t /\ \A k \in 1..(i - 1) : q[k].op # "set"
  <2>1. q[1].op # "set"  BY <1>1, <1>2
  <2>2. \A k \in 1..((i - 1) - 1) : Tail(q)[k].op # "set"
    <3> TAKE k \in 1..((i - 1) - 1)
    <3>1. k \in 1..(Len(q) - 1) /\ k + 1 \in 1..(i - 1)  BY <1>1
    <3> QED BY <1>1, <1>2, <3>1
  <2> QED BY <1>1, <1>2, <2>1, <2>2 DEF OpenIn
<1>3. CASE \E j \in 1..(i - 1) : q[j] = Set(t) /\ \A k \in (j + 1)..(i - 1) : q[k].op # "set"
  <2>1. PICK j \in 1..(i - 1) : q[j] = Set(t) /\ \A k \in (j + 1)..(i - 1) : q[k].op # "set"
    BY <1>3
  <2>2. \A k \in j..((i - 1) - 1) : k \in 1..(Len(q) - 1) /\ Tail(q)[k].op # "set"
    <3> TAKE k \in j..((i - 1) - 1)
    <3>1. k \in 1..(Len(q) - 1) /\ k + 1 \in (j + 1)..(i - 1)  BY <1>1
    <3> QED BY <1>1, <2>1, <3>1
  <2>3. CASE j = 1
    <3>1. Head(q).op = "set" /\ Head(q).to = t  BY <1>1, <2>1, <2>3, OpFacts
    <3>2. \A k \in 1..((i - 1) - 1) : Tail(q)[k].op # "set"  BY <2>2, <2>3
    <3> QED BY <3>1, <3>2 DEF OpenIn
  <2>4. CASE j # 1
    <3>1. j - 1 \in 1..((i - 1) - 1) /\ j - 1 \in 1..(Len(q) - 1) /\ (j - 1) + 1 = j  BY <1>1, <2>4
    <3>2. Tail(q)[j - 1] = Set(t)  BY <1>1, <2>1, <3>1
    <3>3. \A k \in ((j - 1) + 1)..((i - 1) - 1) : Tail(q)[k].op # "set"  BY <2>2, <3>1
    <3>4. \A x : OpenIn(Tail(q), x, i - 1, t)
      BY <3>1, <3>2, <3>3 DEF OpenIn
    <3> QED BY <3>4
  <2> QED BY <2>3, <2>4
<1> QED BY <1>2, <1>3 DEF OpenIn

-----------------------------------------------------------------------------
(* A message lands in its sender's thread unless its delivery was raced.    *)

UiInv ==
    /\ ui # Idle => ui.p = current
    /\ ui.at = "flush" => /\ \A m \in Msgs : ui.batch[m] > 0 => Sender[m] = ui.p
                          /\ ~ui.had => ui.batch = Nothing
Calm ==
    \A r \in Readers : rd[r].at \in {"post", "save", "hold", "persist", "badge"} =>
        rd[r].m \in raced \/ ui = Idle
Target ==
    \A r \in Readers : rd[r].at \in {"post", "save"} =>
        rd[r].m \in raced \/ current = Sender[rd[r].m]
EndInv == ui.at \notin {"key", "rekey", "set"} => AtEnd(current)
AddInv ==
    \A i \in 1..Len(queue), m \in Msgs :
        queue[i] = Add(m) => m \in raced \/ OpenAt(i, Sender[m])
RightThread ==
    \A m \in Msgs, t \in Dialogues :
        m \notin raced /\ t # Sender[m] => saved[t][m] = 0 /\ (shown = t => open[m] = 0)
ThreadInv == UiInv /\ Calm /\ Target /\ EndInv /\ AddInv /\ RightThread

LEMMA CurrentKept ==
    /\ UiStep \/ Serve \/ ClearHistory \/ DeleteDialogue \/ UNCHANGED vars => current' = current
    /\ \A r \in Readers : ReaderStep(r) => current' = current
    /\ \A r \in Readers, m \in Msgs, live \in BOOLEAN : Arrive(r, m, live) => current' = current
<1>1. UiStep => current' = current
  BY DEF UiStep, DeletePeerKey, WritePeerKey, SwitchDialogue, TakeHeld, FlushOne, ClearBadge,
     DeletePending, SaveFlushed, ReopenCleared, DropHeld, DropBadge, DropPending
<1>2. Serve \/ ClearHistory \/ DeleteDialogue \/ UNCHANGED vars => current' = current
  BY DEF Serve, ServeAdd, ServeSave, ServeSet, DeleteDialogue, ClearHistory, vars
<1> QED BY <1>1, <1>2 DEF ReaderStep, Dedup, Route, PostToChat, SavePost, Hold, PersistHeld,
           Badge, Arrive

LEMMA GhostsKept ==
    UiStep \/ Serve \/ DeleteDialogue \/ UNCHANGED vars => UNCHANGED ghosts
BY DEF UiStep, DeletePeerKey, WritePeerKey, SwitchDialogue, TakeHeld, FlushOne, ClearBadge,
   DeletePending, SaveFlushed, ReopenCleared, DropHeld, DropBadge, DropPending, Serve,
   ServeAdd, ServeSave, ServeSet, DeleteDialogue, vars

\* A message that was raced stays so.
LEMMA RacedGrows ==
    ASSUME [Next]_vars
    PROVE  raced \subseteq raced'
<1>1. ASSUME NEW r \in Readers, ReaderStep(r) PROVE raced \subseteq raced'
  BY <1>1 DEF ReaderStep, Dedup, Route, PostToChat, SavePost, Hold, PersistHeld, Badge, ghosts
<1>2. UiStep \/ Serve \/ DeleteDialogue \/ UNCHANGED vars => raced' = raced
  BY GhostsKept DEF ghosts
<1>3. (\E r \in Readers, m \in Msgs, live \in BOOLEAN : Arrive(r, m, live))
         \/ (\E p \in Peers : ActivatePeer(p)) \/ ClearHistory \/ Crash => raced \subseteq raced'
  BY DEF Arrive, ActivatePeer, ClearHistory, Crash
<1> QED BY Steps, <1>1, <1>2, <1>3

LEMMA UiInvStep ==
    ASSUME Shape, UiInv, [Next]_vars
    PROVE  UiInv'
<1>0. Uis /\ Lists /\ Idle.at = "idle"  BY DEF Shape, Idle
<1>1. ASSUME UNCHANGED <<ui, current>> PROVE UiInv'  BY <1>1 DEF UiInv
<1>2. ASSUME ui' = Idle PROVE UiInv'  BY <1>0, <1>2 DEF UiInv
<1>3. ASSUME UiStep PROVE UiInv'
  <2>0. current' = current  BY <1>3, CurrentKept
  <2>1. CASE TakeHeld
    <3>1. ui.p = current  BY <1>0, <2>1, TakeMoves, UiFacts DEF UiInv
    <3>2. /\ ui'.p = current /\ ui'.batch = Only(pending, current)
          /\ ui'.had = (Only(pending, current) # Nothing)
      BY <1>0, <2>1, <3>1, TakeMoves
    <3>3. \A m \in Msgs : Only(pending, current)[m] > 0 => Sender[m] = current
      BY <1>0, OnlyType DEF Lists
    <3> QED BY <2>0, <3>2, <3>3 DEF UiInv
  <2>2. ASSUME NEW m \in Msgs, FlushOne(m) PROVE UiInv'
    <3>1. ui # Idle  BY <1>0, <2>2, FlushMoves
    <3>2. ui.had
      BY <2>2, <3>1, FlushMoves, <1>0, NothingType DEF UiInv
    <3>3. \A n \in Msgs : ui'.batch[n] > 0 => ui.batch[n] > 0
      <4> TAKE n \in Msgs
      <4>1. ui.batch[n] \in Nat  BY <1>0, <3>1, UiFacts
      <4> QED BY <1>0, <2>2, <4>1, FlushMoves
    <3> QED BY <1>0, <2>0, <2>2, <3>1, <3>2, <3>3, FlushMoves DEF UiInv
  <2>3. CASE ~TakeHeld /\ ~(\E m \in Msgs : FlushOne(m))
    <3>1. ui # Idle /\ (ui' = Idle \/ \E s \in UiStages \ {"flush"} : UiAt(s))
      BY <1>0, <1>3, <2>3, UnkeyMoves, KeyMoves, SwitchMoves, ClearBadgeMoves, DeleteMoves,
         SaveFlushedMoves, ReopenMoves, DropHeldMoves, DropBadgeMoves, DropPendingMoves
         DEF UiStep, UiStages
    <3> QED BY <1>2, <2>0, <3>1 DEF UiAt, UiInv
  <2> QED BY <2>1, <2>2, <2>3
<1>4. ASSUME NEW p \in Peers, ActivatePeer(p) PROVE UiInv'
  <2>1. current' = p  BY <1>4 DEF ActivatePeer
  <2> QED BY <1>4, <2>1, ActivateMoves DEF UiInv
<1>5. ASSUME ClearHistory PROVE UiInv'
  BY <1>5, ClearMoves, CurrentKept DEF UiInv
<1>6. Crash => ui' = Idle  BY DEF Crash
<1> QED BY Steps, <1>1, <1>2, <1>3, <1>4, <1>5, <1>6, CurrentKept, QuietUi

LEMMA DeliveringFacts ==
    \A r \in Readers : rd[r].at \in {"post", "save", "hold", "persist", "badge"} => rd[r].m \in Delivering
BY DEF Delivering

LEMMA CalmStep ==
    ASSUME Shape, Calm, [Next]_vars
    PROVE  Calm'
<1>0. Readings /\ Uis /\ Idle.at = "idle"  BY DEF Shape, Idle
<1>1. ASSUME NEW r \in Readers, NEW m \in Msgs, NEW live \in BOOLEAN, Arrive(r, m, live)
      PROVE  Calm'
  BY <1>0, <1>1 DEF Arrive, Calm, Readings
<1>2. ASSUME NEW r \in Readers, ReaderStep(r) PROVE Calm'
  <2>1. ui' = ui /\ raced \subseteq raced'  BY <1>2, QuietUi, RacedGrows
  <2>2. \A o \in Readers : o # r => rd'[o] = rd[o]
    BY <1>0, <1>2, DedupMoves, RouteMoves, PostMoves, SaveMoves, HoldMoves, PersistMoves,
       BadgeMoves DEF ReaderStep, Goes, Rests
  <2>3. rd'[r].at \in {"post", "save", "hold", "persist", "badge"} => rd'[r].m \in raced' \/ ui = Idle
    <3>1. CASE Dedup(r)
      BY <1>0, <3>1, DedupMoves, MoveFacts
    <3>2. CASE Route(r)
      BY <1>0, <3>2, RouteMoves, MoveFacts DEF Route
    <3>3. CASE PostToChat(r) \/ Hold(r) \/ PersistHeld(r)
      BY <1>0, <2>1, <3>3, PostMoves, HoldMoves, PersistMoves, MoveFacts DEF Calm
    <3>4. CASE SavePost(r) \/ Badge(r)
      BY <1>0, <3>4, SaveMoves, BadgeMoves, MoveFacts
    <3> QED BY <1>2, <3>1, <3>2, <3>3, <3>4 DEF ReaderStep
  <2> QED BY <2>1, <2>2, <2>3 DEF Calm
<1>3. ASSUME NEW p \in Peers, ActivatePeer(p) PROVE Calm'
  BY <1>3, DeliveringFacts DEF ActivatePeer, Calm
<1>4. ASSUME ClearHistory PROVE Calm'
  BY <1>4, DeliveringFacts DEF ClearHistory, Calm
<1>5. ASSUME UiStep PROVE Calm'
  <2>1. rd' = rd /\ raced' = raced  BY <1>5, QuietReaders, GhostsKept DEF ghosts
  <2>2. ui # Idle
    BY <1>0, <1>5, UnkeyMoves, KeyMoves, SwitchMoves, TakeMoves, FlushMoves, ClearBadgeMoves,
       DeleteMoves, SaveFlushedMoves, ReopenMoves, DropHeldMoves, DropBadgeMoves,
       DropPendingMoves DEF UiStep, Shape
  <2> QED BY <2>1, <2>2 DEF Calm
<1>6. ASSUME Serve \/ DeleteDialogue \/ UNCHANGED vars PROVE Calm'
  BY <1>6, QuietReaders, QuietUi, GhostsKept DEF Calm, ghosts
<1>7. ASSUME Crash PROVE Calm'
  BY <1>0, <1>7 DEF Crash, Calm
<1> QED BY Steps, <1>1, <1>2, <1>3, <1>4, <1>5, <1>6, <1>7

LEMMA TargetStep ==
    ASSUME Shape, Target, [Next]_vars
    PROVE  Target'
<1>0. Readings /\ Idle.at = "idle"  BY DEF Shape, Idle
<1>1. ASSUME NEW r \in Readers, NEW m \in Msgs, NEW live \in BOOLEAN, Arrive(r, m, live)
      PROVE  Target'
  BY <1>0, <1>1 DEF Arrive, Target, Readings
<1>2. ASSUME NEW r \in Readers, ReaderStep(r) PROVE Target'
  <2>1. current' = current /\ raced \subseteq raced'  BY <1>2, CurrentKept, RacedGrows
  <2>2. \A o \in Readers : o # r => rd'[o] = rd[o]
    BY <1>0, <1>2, DedupMoves, RouteMoves, PostMoves, SaveMoves, HoldMoves, PersistMoves,
       BadgeMoves DEF ReaderStep, Goes, Rests
  <2>3. rd'[r].at \in {"post", "save"} => rd'[r].m \in raced' \/ current = Sender[rd'[r].m]
    <3>1. CASE Dedup(r)
      BY <1>0, <3>1, DedupMoves, MoveFacts
    <3>2. CASE Route(r)
      BY <1>0, <3>2, RouteMoves, MoveFacts
    <3>3. CASE PostToChat(r) \/ Hold(r) \/ PersistHeld(r)
      BY <1>0, <2>1, <3>3, PostMoves, HoldMoves, PersistMoves, MoveFacts DEF Target
    <3>4. CASE SavePost(r) \/ Badge(r)
      BY <1>0, <3>4, SaveMoves, BadgeMoves, MoveFacts
    <3> QED BY <1>2, <3>1, <3>2, <3>3, <3>4 DEF ReaderStep
  <2> QED BY <2>1, <2>2, <2>3 DEF Target
<1>3. ASSUME NEW p \in Peers, ActivatePeer(p) PROVE Target'
  BY <1>3, DeliveringFacts DEF ActivatePeer, Target
<1>4. ASSUME ClearHistory PROVE Target'
  BY <1>4, DeliveringFacts DEF ClearHistory, Target
<1>5. ASSUME UiStep \/ Serve \/ DeleteDialogue \/ UNCHANGED vars PROVE Target'
  BY <1>5, QuietReaders, CurrentKept, GhostsKept DEF Target, ghosts
<1>6. ASSUME Crash PROVE Target'
  BY <1>0, <1>6 DEF Crash, Target
<1> QED BY Steps, <1>1, <1>2, <1>3, <1>4, <1>5, <1>6

LEMMA ServeFacts ==
    ASSUME Shape, Serve
    PROVE  /\ queue \in Seq(Ops) /\ queue # <<>> /\ Head(queue) \in Ops /\ Head(queue) = queue[1]
           /\ queue' = Tail(queue) /\ Len(queue') = Len(queue) - 1 /\ Len(queue) \in Nat
           /\ Len(queue) > 0
           /\ \A i \in 1..Len(queue') : queue'[i] = queue[i + 1] /\ i + 1 \in 1..Len(queue)
           /\ Head(queue).op # "set" => shown' = shown
           /\ Head(queue).op = "set" => shown' = Head(queue).to
<1>1. queue \in Seq(Ops) /\ queue # <<>> /\ queue' = Tail(queue)
  BY DEF Shape, Queue, Serve, ServeAdd, ServeSave, ServeSet, DeleteDialogue
<1>2. /\ Head(queue) \in Ops /\ Head(queue) = queue[1]
      /\ Len(Tail(queue)) = Len(queue) - 1 /\ Len(queue) \in Nat /\ Len(queue) > 0
      /\ \A i \in 1..(Len(queue) - 1) : Tail(queue)[i] = queue[i + 1] /\ i + 1 \in 1..Len(queue)
  BY <1>1, HeadTailProperties
<1>3. /\ Head(queue).op # "set" => shown' = shown
      /\ Head(queue).op = "set" => shown' = Head(queue).to
  BY DEF Serve, ServeAdd, ServeSave, ServeSet, DeleteDialogue
<1> QED BY <1>1, <1>2, <1>3

LEMMA OpenServed ==
    ASSUME Shape, Serve, NEW t, NEW i \in 1..(Len(queue') + 1), OpenIn(queue, shown, i + 1, t)
    PROVE  OpenIn(queue', shown', i, t)
<1>1. i + 1 \in 2..(Len(queue) + 1) /\ (i + 1) - 1 = i  BY ServeFacts
<1> QED BY <1>1, ServeFacts, OpenTail

LEMMA EndServed ==
    ASSUME Shape, Serve, NEW t, AtEnd(t)
    PROVE  AtEnd(t)'
<1>1. Len(queue') + 1 \in 1..(Len(queue') + 1) /\ (Len(queue') + 1) + 1 = Len(queue) + 1
  BY ServeFacts
<1>2. OpenIn(queue', shown', Len(queue') + 1, t)
  BY <1>1, OpenServed DEF AtEnd
<1> QED BY <1>2 DEF AtEnd

LEMMA EndSent ==
    ASSUME Shape, NEW op \in Ops, Sent(op), NEW t
    PROVE  /\ op.op # "set" /\ AtEnd(t) => AtEnd(t)'
           /\ op = Set(t) => AtEnd(t)'
<1>1. queue \in Seq(Ops) /\ queue' = Append(queue, op) /\ shown' = shown
  BY DEF Shape, Queue, Sent
<1> QED BY <1>1, OpenAppended DEF AtEnd

LEMMA EndInvStep ==
    ASSUME Shape, UiInv, EndInv, [Next]_vars
    PROVE  EndInv'
<1>0. Uis /\ Lists /\ Readings /\ Idle.at = "idle"  BY DEF Shape, Idle
<1>1. ASSUME Untouched, UNCHANGED <<ui, current>> PROVE EndInv'
  BY <1>1 DEF Untouched, EndInv, AtEnd
<1>2. ASSUME NEW r \in Readers, ReaderStep(r) PROVE EndInv'
  <2>1. ui' = ui /\ current' = current  BY <1>2, QuietUi, CurrentKept
  <2>2. CASE PostToChat(r) \/ SavePost(r)
    <3>1. PICK op \in Ops : Sent(op) /\ op.op # "set"
      BY <1>2, <2>2, ReaderSends, OpFacts
    <3>2. AtEnd(current) => AtEnd(current)'  BY <3>1, EndSent, <2>1
    <3> QED BY <2>1, <3>2 DEF EndInv
  <2>3. CASE Dedup(r) \/ Route(r) \/ Hold(r) \/ PersistHeld(r) \/ Badge(r)
    BY <1>1, <1>2, <2>1, <2>3, ReaderSends
  <2> QED BY <1>2, <2>2, <2>3 DEF ReaderStep
<1>3. ASSUME UiStep PROVE EndInv'
  <2>0. current' = current  BY <1>3, CurrentKept
  <2>1. CASE SwitchDialogue \/ ReopenCleared
    <3>1. ui # Idle  BY <1>0, <2>1, SwitchMoves, ReopenMoves
    <3>2. Sent(Set(current)) /\ Set(current) \in Ops
      BY <1>3, <2>1, <3>1, UiSends DEF UiInv
    <3>3. AtEnd(current)'  BY <2>0, <3>2, EndSent
    <3> QED BY <3>3 DEF EndInv
  <2>2. CASE (\E m \in Msgs : FlushOne(m)) \/ SaveFlushed
    <3>1. PICK op \in Ops : Sent(op) /\ op.op # "set"
      BY <1>3, <2>2, UiSends, OpFacts
    <3>2. ui.at \notin {"key", "rekey", "set"}
      BY <1>0, <2>2, FlushMoves, SaveFlushedMoves
    <3>3. AtEnd(current)'  BY <2>0, <3>1, <3>2, EndSent DEF EndInv
    <3> QED BY <3>3 DEF EndInv
  <2>3. CASE DeletePeerKey \/ WritePeerKey
    BY <1>0, <2>3, UnkeyMoves, KeyMoves DEF UiAt, EndInv
  <2>4. CASE TakeHeld \/ ClearBadge \/ DeletePending \/ DropHeld \/ DropBadge \/ DropPending
    <3>1. Untouched  BY <1>3, <2>4, UiSends
    <3>2. ui.at \notin {"key", "rekey", "set"}
      BY <1>0, <2>4, TakeMoves, ClearBadgeMoves, DeleteMoves, DropHeldMoves, DropBadgeMoves,
         DropPendingMoves
    <3> QED BY <2>0, <3>1, <3>2 DEF EndInv, AtEnd, Untouched
  <2> QED BY <1>3, <2>1, <2>2, <2>3, <2>4 DEF UiStep
<1>4. ASSUME Serve PROVE EndInv'
  <2>1. ui' = ui /\ current' = current  BY <1>4, QuietUi, CurrentKept
  <2>2. AtEnd(current) => AtEnd(current)'  BY <1>4, <2>1, EndServed
  <2> QED BY <2>1, <2>2 DEF EndInv
<1>5. ASSUME Crash PROVE EndInv'
  <2>1. queue' = <<>> /\ shown' = current' /\ Len(queue') + 1 = 1  BY <1>5 DEF Crash
  <2>2. OpenIn(queue', shown', 1, current')  BY <2>1, OpenFirst
  <2> QED BY <2>1, <2>2 DEF EndInv, AtEnd
<1>6. ASSUME NEW p \in Peers, ActivatePeer(p) PROVE EndInv'
  BY <1>6, ActivateMoves DEF EndInv
<1>7. ASSUME ClearHistory PROVE EndInv'
  <2>1. AtEnd(current) /\ current' = current /\ Untouched
    BY <1>0, <1>7, ClearMoves, CurrentKept DEF EndInv, ClearHistory, chat, Untouched
  <2> QED BY <2>1 DEF EndInv, AtEnd, Untouched
<1>8. ASSUME NEW r \in Readers, NEW m \in Msgs, NEW live \in BOOLEAN, Arrive(r, m, live)
      PROVE  EndInv'
  BY <1>1, <1>8 DEF Arrive, Untouched, chat
<1>9. ASSUME UNCHANGED vars PROVE EndInv'
  BY <1>1, <1>9 DEF vars, Untouched, chat
<1>10. ASSUME DeleteDialogue PROVE EndInv'
  BY <1>1, <1>10 DEF DeleteDialogue, Untouched
<1> QED BY Steps, <1>2, <1>3, <1>4, <1>5, <1>6, <1>7, <1>8, <1>9, <1>10

\* What enters the queue, and by whom.
LEMMA SendSource ==
    ASSUME Shape, [Next]_vars, NEW op \in Ops, Sent(op)
    PROVE  \/ \E r \in Readers : PostToChat(r) /\ op = Add(rd[r].m)
           \/ \E r \in Readers : SavePost(r) /\ op = Save
           \/ \E n \in Msgs : FlushOne(n) /\ op = Add(n)
           \/ SaveFlushed /\ op = Save
           \/ (SwitchDialogue \/ ReopenCleared) /\ op = Set(ui.p)
<1>0. queue \in Seq(Ops)  BY DEF Shape, Queue
<1>1. queue' # queue /\ queue' # <<>> /\ Len(queue') = Len(queue) + 1
      /\ queue'[Len(queue')] = op
  BY <1>0, AppendProperties DEF Sent
<1>2. ASSUME NEW o \in Ops, Sent(o) PROVE op = o
  BY <1>0, <1>1, <1>2, AppendProperties DEF Sent
<1>3. ~Untouched  BY <1>1 DEF Untouched
<1>4. ~Serve  BY <1>1, ServeFacts
<1>5. ~Crash  BY <1>1 DEF Crash
<1>6. ASSUME NEW r \in Readers, ReaderStep(r)
      PROVE  (PostToChat(r) /\ op = Add(rd[r].m)) \/ (SavePost(r) /\ op = Save)
  BY <1>2, <1>3, <1>6, ReaderSends DEF ReaderStep
<1>7. ASSUME UiStep
      PROVE  \/ \E n \in Msgs : FlushOne(n) /\ op = Add(n)
             \/ SaveFlushed /\ op = Save
             \/ (SwitchDialogue \/ ReopenCleared) /\ op = Set(ui.p)
  BY <1>2, <1>3, <1>7, UiSends DEF UiStep
<1>8. (\E r \in Readers, n \in Msgs, live \in BOOLEAN : Arrive(r, n, live))
         \/ (\E p \in Peers : ActivatePeer(p)) \/ ClearHistory \/ DeleteDialogue \/ UNCHANGED vars => Untouched
  BY DEF Arrive, ActivatePeer, ClearHistory, DeleteDialogue, vars, Untouched, chat
<1> QED BY Steps, <1>3, <1>4, <1>5, <1>6, <1>7, <1>8

\* A post enters the queue only where its sender's thread will be open, or
\* its delivery was raced.
LEMMA AddSent ==
    ASSUME Shape, ThreadInv, [Next]_vars, NEW m \in Msgs, Sent(Add(m))
    PROVE  m \in raced \/ AtEnd(Sender[m])
<1>0. Uis /\ Readings /\ Idle.at = "idle" /\ Add(m) \in Ops  BY OpFacts DEF Shape, Idle
<1>1. (\E r \in Readers : PostToChat(r) /\ m = rd[r].m) \/ FlushOne(m)
  BY <1>0, SendSource, OpFacts
<1>2. ASSUME NEW r \in Readers, PostToChat(r), m = rd[r].m
      PROVE  m \in raced \/ AtEnd(Sender[m])
  <2>1. rd[r].at = "post"  BY <1>0, <1>2, PostMoves
  <2>2. m \in raced \/ (current = Sender[m] /\ ui = Idle)
    BY <1>2, <2>1 DEF ThreadInv, Target, Calm
  <2> QED BY <1>0, <2>2 DEF ThreadInv, EndInv
<1>3. ASSUME FlushOne(m) PROVE AtEnd(Sender[m])
  <2>1. ui.at = "flush" /\ ui.batch[m] > 0 /\ ui # Idle  BY <1>0, <1>3, FlushMoves
  <2> QED BY <2>1 DEF ThreadInv, UiInv, EndInv
<1> QED BY <1>1, <1>2, <1>3

LEMMA AddInvStep ==
    ASSUME Shape, ThreadInv, [Next]_vars
    PROVE  AddInv'
<1>0. queue \in Seq(Ops) /\ raced \subseteq raced' /\ AddInv
  BY RacedGrows DEF Shape, Queue, ThreadInv
<1>1. ASSUME Untouched PROVE AddInv'
  BY <1>0, <1>1 DEF Untouched, AddInv, OpenAt
<1>2. ASSUME NEW op \in Ops, Sent(op) PROVE AddInv'
  <2> SUFFICES ASSUME NEW i \in 1..Len(queue'), NEW m \in Msgs, queue'[i] = Add(m)
               PROVE  m \in raced' \/ OpenIn(queue', shown', i, Sender[m])
    BY DEF AddInv, OpenAt
  <2>1. /\ queue' = Append(queue, op) /\ shown' = shown /\ Len(queue') = Len(queue) + 1
        /\ Len(queue) \in Nat /\ queue'[Len(queue) + 1] = op
        /\ \A k \in 1..Len(queue) : queue'[k] = queue[k]
    BY <1>0, <1>2, AppendProperties DEF Sent
  <2>2. m \in raced \/ OpenIn(queue, shown, i, Sender[m])
    <3>1. CASE i \in 1..Len(queue)
      BY <1>0, <2>1, <3>1 DEF AddInv, OpenAt
    <3>2. CASE i = Len(queue) + 1
      BY <1>2, <2>1, <3>2, AddSent DEF AtEnd
    <3> QED BY <2>1, <3>1, <3>2
  <2> QED BY <1>0, <2>1, <2>2, OpenAppend
<1>3. ASSUME Serve PROVE AddInv'
  <2> SUFFICES ASSUME NEW i \in 1..Len(queue'), NEW m \in Msgs, queue'[i] = Add(m)
               PROVE  m \in raced' \/ OpenIn(queue', shown', i, Sender[m])
    BY DEF AddInv, OpenAt
  <2>1. queue[i + 1] = Add(m) /\ i + 1 \in 1..Len(queue) /\ i \in 1..(Len(queue') + 1)
    BY <1>3, ServeFacts
  <2>2. m \in raced \/ OpenIn(queue, shown, i + 1, Sender[m])
    BY <1>0, <2>1 DEF AddInv, OpenAt
  <2> QED BY <1>0, <1>3, <2>1, <2>2, OpenServed
<1>4. ASSUME Crash PROVE AddInv'
  BY <1>4 DEF Crash, AddInv
<1> QED BY QueueKinds, <1>1, <1>2, <1>3, <1>4

\* The dialogues in the PDDB change only when the chat server replaces the one on
\* screen and when the user clears one.
LEMMA SavedKinds ==
    ASSUME Shape, [Next]_vars
    PROVE  saved' = saved \/ DeleteDialogue \/ ServeSave \/ ClearHistory
<1>1. UiStep => saved' = saved
  BY DEF UiStep, DeletePeerKey, WritePeerKey, SwitchDialogue, TakeHeld, FlushOne, ClearBadge,
     DeletePending, SaveFlushed, ReopenCleared, DropHeld, DropBadge, DropPending, stored
<1>2. (\E r \in Readers : ReaderStep(r)) => saved' = saved
  BY DEF ReaderStep, Dedup, Route, PostToChat, SavePost, Hold, PersistHeld, Badge, stored
<1>3. (\E r \in Readers, n \in Msgs, live \in BOOLEAN : Arrive(r, n, live))
         \/ (\E p \in Peers : ActivatePeer(p)) \/ Crash \/ ServeAdd \/ ServeSet \/ UNCHANGED vars
      => saved' = saved
  BY DEF Arrive, ActivatePeer, Crash, ServeAdd, ServeSet, vars, stored
<1> QED BY Steps, <1>1, <1>2, <1>3 DEF Serve

LEMMA RightThreadStep ==
    ASSUME Shape, ThreadInv, [Next]_vars
    PROVE  RightThread'
<1>0. /\ Lists /\ Threads /\ raced \subseteq raced' /\ RightThread
  BY RacedGrows DEF Shape, ThreadInv
<1> SUFFICES ASSUME NEW m \in Msgs, NEW t \in Dialogues, m \notin raced', t # Sender[m]
             PROVE  saved'[t][m] = 0 /\ (shown' = t => open'[m] = 0)
  BY DEF RightThread
<1>1. m \notin raced /\ \A d \in Dialogues : d # Sender[m] =>
                            saved[d][m] = 0 /\ (shown = d => open[m] = 0)
  BY <1>0 DEF RightThread
<1>2. saved'[t][m] = 0
  <2>1. CASE saved' = saved  BY <1>1, <2>1
  <2>2. CASE ServeSave
    BY <1>0, <1>1, <2>2 DEF ServeSave, Lists, Threads
  <2>3. CASE ClearHistory
    BY <1>0, <1>1, <2>3, NothingType DEF ClearHistory, Lists, Dialogues
  <2>4. CASE DeleteDialogue
    BY <1>0, <1>1, <2>4, NothingType DEF DeleteDialogue, Lists, Threads
  <2> QED BY <2>1, <2>2, <2>3, <2>4, SavedKinds
<1>3. shown' = t => open'[m] = 0
  <2>1. CASE Untouched \/ \E op \in Ops : Sent(op)
    BY <1>1, <2>1 DEF Untouched, Sent
  <2>2. CASE ServeAdd
    <3>1. /\ Head(queue) \in Ops /\ Head(queue) = queue[1] /\ 1 \in 1..Len(queue)
      BY <2>2, ServeFacts DEF Serve
    <3>2. Head(queue).m \in Msgs /\ queue[1] = Add(Head(queue).m)
      BY <2>2, <3>1, OpFacts DEF ServeAdd
    <3>3. CASE Head(queue).m = m
      <4>1. OpenIn(queue, shown, 1, Sender[m])
        BY <1>1, <3>1, <3>2, <3>3 DEF ThreadInv, AddInv, OpenAt
      <4> QED BY <2>2, <4>1, OpenFirst DEF ServeAdd
    <3>4. CASE Head(queue).m # m
      BY <1>0, <1>1, <2>2, <3>2, <3>4 DEF ServeAdd, Lists
    <3> QED BY <3>3, <3>4
  <2>3. CASE ServeSave
    BY <1>1, <2>3 DEF ServeSave
  <2>4. CASE ServeSet
    BY <1>1, <2>4 DEF ServeSet
  <2>5. CASE Crash
    BY <1>0, <1>1, <2>5 DEF Crash, Threads
  <2> QED BY <2>1, <2>2, <2>3, <2>4, <2>5, QueueKinds DEF Serve
<1> QED BY <1>2, <1>3

LEMMA ThreadInit == Init => ThreadInv
<1> SUFFICES ASSUME Init PROVE ThreadInv  OBVIOUS
<1>0. Idle.at = "idle"  BY DEF Idle
<1>1. UiInv /\ Calm /\ Target  BY <1>0 DEF Init, UiInv, Calm, Target
<1>2. AddInv /\ RightThread  BY NothingType DEF Init, AddInv, RightThread
<1>3. EndInv
  <2>1. Len(queue) + 1 = 1 /\ shown = current  BY DEF Init
  <2> QED BY <2>1, OpenFirst DEF EndInv, AtEnd
<1> QED BY <1>1, <1>2, <1>3 DEF ThreadInv

LEMMA ThreadStep ==
    ASSUME Shape, ThreadInv, [Next]_vars
    PROVE  ThreadInv'
BY UiInvStep, CalmStep, TargetStep, EndInvStep, AddInvStep, RightThreadStep DEF ThreadInv

LEMMA ThreadHolds == Spec => [](Shape /\ ThreadInv)
BY ShapeInit, ThreadInit, ShapeStep, ThreadStep, PTL DEF Spec

\* deliver_lxmf reads current_peer and posts without a lock, and the chat server
\* adds a post to whatever it shows then; still only a delivery that overlapped
\* activate_peer or a clear can land in another peer's thread.
THEOREM RightThreadHolds == Spec => []RightThreadUnlessRaced
<1>1. ThreadInv => RightThreadUnlessRaced
  BY DEF ThreadInv, RightThread, RightThreadUnlessRaced
<1> QED BY <1>1, ThreadHolds, PTL

-----------------------------------------------------------------------------
(* Where a message can be while it is not in the PDDB.                     *)

\* Place i of the queue puts m in its thread; place 0 stands for the screen.
Landed(i, m) == IF i = 0 THEN open[m] > 0 /\ shown = Sender[m] ELSE queue[i] = Add(m)
NoSet(q, i, j) == \A k \in (i + 1)..j : q[k].op # "set"
SaveAfter(q, i) == \E j \in (i + 1)..Len(q) : q[j] = Save /\ NoSet(q, i, j)
\* m is in its thread, or will be, and a queued save finds it there ...
Saving(m) == \E i \in 0..Len(queue) : Landed(i, m) /\ SaveAfter(queue, i)
\* ... or a save that somebody is still to send does.
Waiting(m) == \E i \in 0..Len(queue) : Landed(i, m) /\ NoSet(queue, i, Len(queue))
ReaderSaves(m) == \E r \in Readers : rd[r] = [at |-> "save", m |-> m]
UiSaves(m) == ui.at \in {"flush", "forget", "resave"} /\ ui.p = Sender[m] /\ ui.had
Underway(m) == \E r \in Readers : rd[r].at \in {"route", "post", "hold"} /\ rd[r].m = m
InBatch(m) == ui.at = "flush" /\ ui.batch[m] > 0
\* The stored list of m's sender is being written again.
Rewritten(m) == \E r \in Readers : rd[r].at = "persist" /\ Sender[rd[r].m] = Sender[m]
Elsewhere(m) ==
    \/ saved[Sender[m]][m] > 0 \/ Underway(m) \/ Saving(m)
    \/ Waiting(m) /\ (ReaderSaves(m) \/ UiSaves(m))
    \/ InBatch(m)
    \/ Rewritten(m) /\ pending[m] > 0
OpenCovers == \A m \in Msgs : open[m] >= saved[shown][m]

LEMMA OpenCoversStep ==
    ASSUME Shape, OpenCovers, [Next]_vars
    PROVE  OpenCovers'
<1>0. Lists /\ Threads  BY DEF Shape
<1> SUFFICES ASSUME NEW m \in Msgs PROVE open'[m] >= saved'[shown'][m]
  BY DEF OpenCovers
<1>1. open[m] >= saved[shown][m] /\ open[m] \in Nat /\ \A t \in Dialogues : saved[t][m] \in Nat
  BY <1>0 DEF OpenCovers, Lists
<1>2. CASE Untouched \/ \E op \in Ops : Sent(op)
  <2>1. open' = open /\ shown' = shown  BY <1>2 DEF Untouched, Sent
  <2>2. CASE saved' = saved  BY <1>1, <2>1, <2>2
  <2>3. CASE ClearHistory
    BY <1>0, <1>1, <2>1, <2>3, NothingType DEF ClearHistory, Lists, Threads, Dialogues
  <2>4. CASE ServeSave
    BY <1>0, <1>1, <2>4 DEF ServeSave, Lists, Threads
  <2>5. CASE DeleteDialogue
    BY <1>0, <1>1, <2>1, <2>5, NothingType DEF DeleteDialogue, Lists, Threads
  <2> QED BY <2>2, <2>3, <2>4, <2>5, SavedKinds
<1>3. CASE ServeAdd
  <2>1. Head(queue).m \in Msgs
    BY <1>3, ServeFacts, OpFacts DEF Serve, ServeAdd
  <2>2. open'[m] >= open[m]  BY <1>0, <1>1, <1>3, <2>1 DEF ServeAdd, Lists
  <2>3. open'[m] \in Nat  BY <1>0, <1>1, <1>3, <2>1 DEF ServeAdd, Lists
  <2>4. saved' = saved /\ shown' = shown  BY <1>3 DEF ServeAdd, stored
  <2> QED BY <1>0, <1>1, <2>2, <2>3, <2>4 DEF Threads
<1>4. CASE ServeSave
  BY <1>0, <1>1, <1>4 DEF ServeSave, Lists, Threads
<1>5. CASE ServeSet
  <2>1. Head(queue).to \in Dialogues
    BY <1>5, ServeFacts, OpFacts DEF Serve, ServeSet, Dialogues
  <2> QED BY <1>1, <1>5, <2>1 DEF ServeSet, stored
<1>6. CASE Crash
  BY <1>0, <1>1, <1>6 DEF Crash, Threads, stored
<1> QED BY <1>2, <1>3, <1>4, <1>5, <1>6, QueueKinds DEF Serve

LEMMA ChatUntouched ==
    ASSUME NEW m \in Msgs, Untouched
    PROVE  (Saving(m) => Saving(m)') /\ (Waiting(m) => Waiting(m)')
BY DEF Untouched, Saving, Waiting, Landed

LEMMA ChatSent ==
    ASSUME Shape, NEW m \in Msgs, NEW op \in Ops, Sent(op)
    PROVE  /\ Saving(m) => Saving(m)'
           /\ Waiting(m) /\ op.op # "set" => Waiting(m)'
           /\ Waiting(m) /\ op = Save => Saving(m)'
           /\ op = Add(m) => Waiting(m)'
<1>1. /\ Len(queue') = Len(queue) + 1 /\ Len(queue) \in Nat /\ queue'[Len(queue) + 1] = op
      /\ \A k \in 1..Len(queue) : queue'[k] = queue[k]
      /\ open' = open /\ shown' = shown
  BY AppendProperties DEF Shape, Queue, Sent
<1>2. \A i \in 0..Len(queue) : Landed(i, m) => Landed(i, m)'
  BY <1>1 DEF Landed
<1>3. ASSUME Saving(m) PROVE Saving(m)'
  <2>1. PICK i \in 0..Len(queue) : Landed(i, m) /\ SaveAfter(queue, i)  BY <1>3 DEF Saving
  <2>2. PICK j \in (i + 1)..Len(queue) : queue[j] = Save /\ NoSet(queue, i, j)
    BY <2>1 DEF SaveAfter
  <2>3. queue'[j] = Save /\ NoSet(queue', i, j) /\ j \in (i + 1)..Len(queue')
    BY <1>1, <2>2 DEF NoSet
  <2> QED BY <1>1, <1>2, <2>1, <2>3 DEF Saving, SaveAfter
<1>4. ASSUME Waiting(m), op.op # "set" PROVE Waiting(m)' /\ (op = Save => Saving(m)')
  <2>1. PICK i \in 0..Len(queue) : Landed(i, m) /\ NoSet(queue, i, Len(queue))
    BY <1>4 DEF Waiting
  <2>2. NoSet(queue', i, Len(queue'))  BY <1>1, <1>4, <2>1 DEF NoSet
  <2>3. Landed(i, m)' /\ i \in 0..Len(queue') /\ Len(queue') \in (i + 1)..Len(queue')
    BY <1>1, <1>2, <2>1
  <2>4. op = Save => SaveAfter(queue', i)  BY <1>1, <2>2, <2>3 DEF SaveAfter
  <2> QED BY <2>2, <2>3, <2>4 DEF Waiting, Saving
<1>5. ASSUME op = Add(m) PROVE Waiting(m)'
  <2>0. PICK n \in Nat : n = Len(queue) + 1  BY <1>1
  <2>1. Landed(n, m)'  BY <1>1, <1>5, <2>0 DEF Landed
  <2>2. NoSet(queue', n, Len(queue')) /\ n \in 0..Len(queue')  BY <1>1, <2>0 DEF NoSet
  <2> QED BY <2>1, <2>2 DEF Waiting
<1>6. Save.op # "set"  BY OpFacts
<1> QED BY <1>3, <1>4, <1>5, <1>6

LEMMA ChatServed ==
    ASSUME Shape, ThreadInv, NEW m \in Msgs, m \notin raced, Serve
    PROVE  /\ Saving(m) => Saving(m)' \/ saved'[Sender[m]][m] > 0
           /\ Waiting(m) => Waiting(m)'
<1>0. /\ Lists /\ Threads /\ open[m] \in Nat /\ Sender[m] \in Dialogues
  BY SenderType DEF Shape, Lists
<1>1. /\ Len(queue') = Len(queue) - 1 /\ Len(queue) \in Nat /\ Len(queue) > 0
      /\ \A i \in 1..(Len(queue) - 1) : queue'[i] = queue[i + 1]
      /\ queue[1] \in Ops /\ Head(queue) = queue[1]
  BY ServeFacts
\* Every place is one nearer.
<1>2. ASSUME NEW i \in 1..Len(queue), Landed(i, m) PROVE Landed(i - 1, m)'
  <2>0. queue[i] = Add(m)  BY <1>2 DEF Landed
  <2>1. CASE i = 1
    <3>1. queue[1] = Add(m)  BY <2>0, <2>1
    <3>2. ServeAdd /\ Head(queue).m = m  BY <1>1, <3>1, OpFacts DEF Serve, ServeAdd, ServeSave, ServeSet, DeleteDialogue
    <3>3. OpenIn(queue, shown, 1, Sender[m])
      BY <1>1, <3>1 DEF ThreadInv, AddInv, OpenAt
    <3>4. shown = Sender[m]  BY <3>3, OpenFirst
    <3>5. open'[m] > 0 /\ shown' = shown  BY <1>0, <3>2 DEF ServeAdd, Lists
    <3> QED BY <2>1, <3>4, <3>5 DEF Landed
  <2>2. CASE i # 1
    <3>1. i - 1 \in 1..(Len(queue) - 1) /\ (i - 1) + 1 = i /\ i - 1 # 0  BY <1>1, <2>2
    <3>2. queue'[i - 1] = queue[i]  BY <1>1, <3>1
    <3> QED BY <2>0, <3>1, <3>2 DEF Landed
  <2> QED BY <2>1, <2>2
<1>3. ASSUME Landed(0, m), queue[1].op # "set" PROVE Landed(0, m)'
  <2>1. CASE ServeAdd
    <3>1. Head(queue).m \in Msgs  BY <1>1, <2>1, OpFacts DEF ServeAdd
    <3> QED BY <1>0, <1>3, <2>1, <3>1 DEF ServeAdd, Landed, Lists
  <2>2. CASE ServeSave
    BY <1>3, <2>2 DEF ServeSave, Landed
  <2> QED BY <1>1, <1>3, <2>1, <2>2 DEF Serve, ServeSet
<1>4. \A i \in Nat : \A j \in Nat :
        i <= j /\ j <= Len(queue) /\ NoSet(queue, i, j) =>
           NoSet(queue', IF i = 0 THEN 0 ELSE i - 1, j - 1)
  <2> TAKE i \in Nat
  <2> TAKE j \in Nat
  <2> HAVE i <= j /\ j <= Len(queue) /\ NoSet(queue, i, j)
  <2> SUFFICES ASSUME NEW k \in ((IF i = 0 THEN 0 ELSE i - 1) + 1)..(j - 1)
               PROVE  queue'[k].op # "set"
    BY DEF NoSet
  <2>1. k \in 1..(Len(queue) - 1) /\ k + 1 \in (i + 1)..j  BY <1>1
  <2> QED BY <1>1, <2>1 DEF NoSet
<1>5. ASSUME Waiting(m) PROVE Waiting(m)'
  <2>1. PICK i \in 0..Len(queue) : Landed(i, m) /\ NoSet(queue, i, Len(queue))
    BY <1>5 DEF Waiting
  <2> DEFINE n == IF i = 0 THEN 0 ELSE i - 1
  <2>2. n \in 0..Len(queue')  BY <1>1
  <2>3. NoSet(queue', n, Len(queue'))  BY <1>1, <1>4, <2>1
  <2>4. Landed(n, m)'
    <3>1. CASE i = 0
      <4>1. queue[1].op # "set"  BY <1>1, <2>1, <3>1 DEF NoSet
      <4> QED BY <1>3, <2>1, <3>1, <4>1
    <3>2. CASE i # 0  BY <1>1, <1>2, <2>1, <3>2
    <3> QED BY <3>1, <3>2
  <2> HIDE DEF n
  <2> QED BY <2>2, <2>3, <2>4 DEF Waiting
<1>6. ASSUME Saving(m) PROVE Saving(m)' \/ saved'[Sender[m]][m] > 0
  <2>1. PICK i \in 0..Len(queue) : Landed(i, m) /\ SaveAfter(queue, i)  BY <1>6 DEF Saving
  <2>2. PICK j \in (i + 1)..Len(queue) : queue[j] = Save /\ NoSet(queue, i, j)
    BY <2>1 DEF SaveAfter
  <2> DEFINE n == IF i = 0 THEN 0 ELSE i - 1
  <2>3. CASE i = 0 /\ j = 1
    <3>1. ServeSave  BY <1>1, <2>2, <2>3, OpFacts DEF Serve, ServeAdd, ServeSet
    <3>2. open[m] > 0 /\ shown = Sender[m]  BY <2>1, <2>3 DEF Landed
    <3> QED BY <1>0, <3>1, <3>2 DEF ServeSave, Lists
  <2>4. CASE ~(i = 0 /\ j = 1)
    <3>1. n \in 0..Len(queue') /\ j - 1 \in (n + 1)..Len(queue')  BY <1>1, <2>4
    <3>2. j - 1 \in 1..(Len(queue) - 1) /\ (j - 1) + 1 = j  BY <1>1, <3>1
    <3>3. queue'[j - 1] = Save  BY <1>1, <2>2, <3>2
    <3>4. NoSet(queue', n, j - 1)  BY <1>1, <1>4, <2>2
    <3>5. Landed(n, m)'
      <4>1. CASE i = 0
        <5>1. queue[1].op # "set"  BY <1>1, <2>2, <4>1 DEF NoSet
        <5> QED BY <1>3, <2>1, <4>1, <5>1
      <4>2. CASE i # 0  BY <1>1, <1>2, <2>1, <4>2
      <4> QED BY <4>1, <4>2
    <3> HIDE DEF n
    <3>6. SaveAfter(queue', n)  BY <3>1, <3>3, <3>4 DEF SaveAfter
    <3> QED BY <3>1, <3>5, <3>6 DEF Saving
  <2> QED BY <2>3, <2>4
<1> QED BY <1>5, <1>6

LEMMA UiBusy ==
    ASSUME Shape, UiStep
    PROVE  ui # Idle /\ ui \in UiWorks
BY UnkeyMoves, KeyMoves, SwitchMoves, TakeMoves, FlushMoves, ClearBadgeMoves, DeleteMoves,
   SaveFlushedMoves, ReopenMoves, DropHeldMoves, DropBadgeMoves, DropPendingMoves
   DEF UiStep, Shape, Idle, UiWorks

\* A reader moves only in its own step.
LEMMA ReaderKinds ==
    ASSUME Shape, [Next]_vars, NEW r \in Readers, rd[r] # Idle
    PROVE  rd'[r] = rd[r] \/ ReaderStep(r) \/ Crash
<1>0. Readings  BY DEF Shape
<1>1. ASSUME NEW o \in Readers, ReaderStep(o), o # r PROVE rd'[r] = rd[r]
  BY <1>0, <1>1, DedupMoves, RouteMoves, PostMoves, SaveMoves, HoldMoves, PersistMoves,
     BadgeMoves, MoveFacts DEF ReaderStep
<1>2. ASSUME NEW o \in Readers, NEW n \in Msgs, NEW live \in BOOLEAN, Arrive(o, n, live)
      PROVE  rd'[r] = rd[r]
  BY <1>0, <1>2 DEF Arrive, Readings
<1> QED BY Steps, <1>1, <1>2, QuietReaders

LEMMA UnderwayStep ==
    ASSUME Shape, [Next]_vars, ~Crash, NEW m \in Msgs, Underway(m)
    PROVE  Underway(m)' \/ (Waiting(m)' /\ ReaderSaves(m)') \/ (Rewritten(m)' /\ pending'[m] > 0)
<1>0. Readings /\ Lists /\ Readings'  BY ReadingsStep DEF Shape
<1>1. PICK r \in Readers : rd[r].at \in {"route", "post", "hold"} /\ rd[r].m = m  BY DEF Underway
<1>2. CASE rd'[r] = rd[r]  BY <1>1, <1>2 DEF Underway
<1>3. CASE Route(r)
  BY <1>0, <1>1, <1>3, RouteMoves, MoveFacts DEF Underway
<1>4. CASE PostToChat(r)
  <2>1. rd'[r] = [at |-> "save", m |-> m]  BY <1>0, <1>1, <1>4, PostMoves DEF Goes
  <2>2. Sent(Add(m)) /\ Add(m) \in Ops  BY <1>1, <1>4, ReaderSends DEF ReaderStep
  <2> QED BY <2>1, <2>2, ChatSent DEF ReaderSaves
<1>5. CASE Hold(r)
  <2>1. pending'[m] = pending[m] + 1 /\ pending[m] \in Nat
    BY <1>0, <1>1, <1>5 DEF Hold, Lists
  <2>2. Rewritten(m)'  BY <1>0, <1>1, <1>5, HoldMoves, MoveFacts DEF Rewritten
  <2> QED BY <2>1, <2>2
<1>6. rd[r] # Idle  BY <1>1 DEF Idle
<1>7. Dedup(r) \/ SavePost(r) \/ PersistHeld(r) \/ Badge(r) => FALSE
  BY <1>0, <1>1, DedupMoves, SaveMoves, PersistMoves, BadgeMoves
<1> QED BY <1>2, <1>3, <1>4, <1>5, <1>6, <1>7, ReaderKinds DEF ReaderStep

\* The queue grows by a switch only when the UI switches.
LEMMA OnlyUiSwitches ==
    ASSUME Shape, ThreadInv, [Next]_vars, ~Crash, ~SwitchDialogue, ~ReopenCleared, NEW m \in Msgs,
           m \notin raced
    PROVE  Waiting(m) => Waiting(m)'
<1>1. ASSUME NEW r \in Readers, ReaderStep(r) PROVE Untouched \/ \E op \in Ops : Sent(op) /\ op.op # "set"
  BY <1>1, ReaderSends, OpFacts DEF ReaderStep
<1>2. ASSUME UiStep PROVE Untouched \/ \E op \in Ops : Sent(op) /\ op.op # "set"
  BY <1>2, UiSends, OpFacts DEF UiStep
<1>3. (\E r \in Readers, n \in Msgs, live \in BOOLEAN : Arrive(r, n, live)) => Untouched
  BY DEF Arrive, Untouched, chat
<1>4. (\E p \in Peers : ActivatePeer(p)) \/ ClearHistory \/ DeleteDialogue \/ UNCHANGED vars => Untouched
  BY DEF ActivatePeer, ClearHistory, DeleteDialogue, vars, Untouched, chat
<1>5. Untouched \/ (\E op \in Ops : Sent(op) /\ op.op # "set") \/ Serve
  BY Steps, <1>1, <1>2, <1>3, <1>4
<1> QED BY <1>5, ChatUntouched, ChatSent, ChatServed

LEMMA SavingStep ==
    ASSUME Shape, ThreadInv, [Next]_vars, ~Crash, NEW m \in Msgs, m \notin raced, Saving(m)
    PROVE  Saving(m)' \/ saved'[Sender[m]][m] > 0
BY QueueKinds, ChatUntouched, ChatSent, ChatServed

LEMMA ReaderSavesStep ==
    ASSUME Shape, ThreadInv, [Next]_vars, ~Crash, NEW m \in Msgs, m \notin raced', Waiting(m),
           ReaderSaves(m)
    PROVE  Saving(m)' \/ (Waiting(m)' /\ ReaderSaves(m)')
<1>0. Readings /\ Uis /\ m \notin raced  BY RacedGrows DEF Shape
<1>1. PICK r \in Readers : rd[r] = [at |-> "save", m |-> m]  BY DEF ReaderSaves
<1>2. rd[r].at = "save" /\ rd[r].m = m /\ rd[r] # Idle  BY <1>1 DEF Idle
<1>3. ui = Idle  BY <1>0, <1>2 DEF ThreadInv, Calm
<1>4. ~UiStep  BY <1>3, UiBusy
<1>5. Waiting(m)'  BY <1>0, <1>4, OnlyUiSwitches DEF UiStep
<1>6. CASE rd'[r] = rd[r]  BY <1>1, <1>5, <1>6 DEF ReaderSaves
<1>7. CASE SavePost(r)
  <2>1. Sent(Save) /\ Save \in Ops  BY <1>7, ReaderSends DEF ReaderStep
  <2> QED BY <2>1, ChatSent
<1>8. Dedup(r) \/ Route(r) \/ PostToChat(r) \/ Hold(r) \/ PersistHeld(r) \/ Badge(r) => FALSE
  BY <1>0, <1>2, DedupMoves, RouteMoves, PostMoves, HoldMoves, PersistMoves, BadgeMoves
<1> QED BY <1>2, <1>6, <1>7, <1>8, ReaderKinds DEF ReaderStep

LEMMA UiKinds ==
    ASSUME Shape, [Next]_vars, ui # Idle
    PROVE  ui' = ui \/ UiStep \/ Crash
<1>1. \A p \in Peers : ~ActivatePeer(p)  BY ActivateMoves
<1>2. ~ClearHistory  BY ClearMoves
<1> QED BY Steps, <1>1, <1>2, QuietUi

LEMMA UiSavesStep ==
    ASSUME Shape, ThreadInv, [Next]_vars, ~Crash, NEW m \in Msgs, m \notin raced, Waiting(m),
           UiSaves(m)
    PROVE  Saving(m)' \/ (Waiting(m)' /\ UiSaves(m)')
<1>0. Uis /\ Lists /\ Idle.at = "idle"  BY DEF Shape, Idle
<1>1. ui.at \in {"flush", "forget", "resave"} /\ ui.p = Sender[m] /\ ui.had /\ ui # Idle
  BY <1>0 DEF UiSaves
<1>2. ~SwitchDialogue /\ ~ReopenCleared  BY <1>0, <1>1, SwitchMoves, ReopenMoves
<1>3. Waiting(m)'  BY <1>2, OnlyUiSwitches
<1>4. CASE ui' = ui  BY <1>3, <1>4 DEF UiSaves
<1>5. CASE UiStep
  <2>1. CASE \E n \in Msgs : FlushOne(n)  BY <1>0, <1>1, <1>3, <2>1, FlushMoves DEF UiSaves
  <2>2. CASE ClearBadge  BY <1>0, <1>1, <1>3, <2>2, ClearBadgeMoves DEF UiSaves, UiAt
  <2>3. CASE DeletePending  BY <1>0, <1>1, <1>3, <2>3, DeleteMoves DEF UiSaves, UiAt
  <2>4. CASE SaveFlushed
    <3>1. Sent(Save) /\ Save \in Ops  BY <1>5, <2>4, UiSends
    <3> QED BY <3>1, ChatSent
  <2>5. DeletePeerKey \/ WritePeerKey \/ TakeHeld \/ DropHeld \/ DropBadge \/ DropPending => FALSE
    BY <1>0, <1>1, UnkeyMoves, KeyMoves, TakeMoves, DropHeldMoves, DropBadgeMoves,
       DropPendingMoves
  <2> QED BY <1>2, <1>5, <2>1, <2>2, <2>3, <2>4, <2>5 DEF UiStep
<1> QED BY <1>1, <1>4, <1>5, UiKinds

LEMMA InBatchStep ==
    ASSUME Shape, ThreadInv, [Next]_vars, ~Crash, NEW m \in Msgs, InBatch(m)
    PROVE  InBatch(m)' \/ (Waiting(m)' /\ UiSaves(m)')
<1>0. Uis /\ Lists /\ Idle.at = "idle"  BY DEF Shape, Idle
<1>1. ui.at = "flush" /\ ui.batch[m] > 0 /\ ui # Idle  BY <1>0 DEF InBatch
<1>2. ui.batch # Nothing  BY <1>1, NothingType
<1>3. ui.had /\ ui.p = Sender[m]  BY <1>1, <1>2 DEF ThreadInv, UiInv
<1>4. CASE ui' = ui  BY <1>1, <1>4 DEF InBatch
<1>5. CASE UiStep
  <2>1. ASSUME NEW n \in Msgs, FlushOne(n) PROVE InBatch(m)' \/ (Waiting(m)' /\ UiSaves(m)')
    <3>1. CASE n = m
      <4>1. Sent(Add(m)) /\ Add(m) \in Ops  BY <1>5, <2>1, <3>1, UiSends
      <4>2. UiSaves(m)'  BY <1>0, <1>3, <2>1, FlushMoves DEF UiSaves
      <4> QED BY <4>1, <4>2, ChatSent
    <3>2. CASE n # m
      BY <1>0, <1>1, <2>1, <3>2, FlushMoves DEF InBatch
    <3> QED BY <3>1, <3>2
  <2>2. UiStep /\ ~(\E n \in Msgs : FlushOne(n)) => FALSE
    BY <1>0, <1>1, <1>2, UnkeyMoves, KeyMoves, SwitchMoves, TakeMoves, ClearBadgeMoves,
       DeleteMoves, SaveFlushedMoves, ReopenMoves, DropHeldMoves, DropBadgeMoves,
       DropPendingMoves DEF UiStep
  <2> QED BY <1>5, <2>1, <2>2
<1> QED BY <1>1, <1>4, <1>5, UiKinds

\* What touches the held lists.
LEMMA PendingKinds ==
    ASSUME Shape, [Next]_vars, ~Crash, NEW m \in Msgs
    PROVE  \/ pending'[m] = pending[m]
           \/ \E r \in Readers : Hold(r) /\ rd[r].m = m /\ pending'[m] = pending[m] + 1
           \/ (TakeHeld \/ DropHeld) /\ ui.p = Sender[m] /\ pending'[m] = 0
<1>0. Lists /\ Readings  BY DEF Shape
<1>1. ASSUME NEW r \in Readers, ReaderStep(r)
      PROVE  pending'[m] = pending[m] \/ (Hold(r) /\ rd[r].m = m /\ pending'[m] = pending[m] + 1)
  <2>1. CASE Hold(r)
    <3>1. rd[r].m \in Msgs  BY <1>0, <2>1, HoldMoves
    <3> QED BY <1>0, <2>1, <3>1 DEF Hold, Lists
  <2> QED BY <1>1, <2>1 DEF ReaderStep, Dedup, Route, PostToChat, SavePost, PersistHeld, Badge
<1>2. ASSUME UiStep
      PROVE  pending'[m] = pending[m] \/ ((TakeHeld \/ DropHeld) /\ ui.p = Sender[m] /\ pending'[m] = 0)
  <2>1. CASE TakeHeld \/ DropHeld
    BY <1>0, <2>1, WithoutType DEF TakeHeld, DropHeld, Lists
  <2> QED BY <1>2, <2>1 DEF UiStep, DeletePeerKey, WritePeerKey, SwitchDialogue, FlushOne,
             ClearBadge, DeletePending, SaveFlushed, ReopenCleared, DropBadge, DropPending
<1>3. (\E r \in Readers, n \in Msgs, live \in BOOLEAN : Arrive(r, n, live))
         \/ (\E p \in Peers : ActivatePeer(p)) \/ ClearHistory \/ Serve \/ DeleteDialogue \/ UNCHANGED vars
      => pending' = pending
  BY DEF Arrive, ActivatePeer, ClearHistory, Serve, ServeAdd, ServeSave, ServeSet,
     DeleteDialogue, vars
<1> QED BY Steps, <1>1, <1>2, <1>3

LEMMA HeldKinds ==
    ASSUME Shape, [Next]_vars, NEW m \in Msgs
    PROVE  \/ savedHeld'[m] = savedHeld[m]
           \/ \E r \in Readers : /\ Hold(r) /\ Sender[rd[r].m] = Sender[m]
                                 /\ savedHeld'[m] = 0
           \/ \E r \in Readers : /\ PersistHeld(r) /\ Sender[rd[r].m] = Sender[m]
                                 /\ savedHeld'[m] = pending'[m]
           \/ (DeletePending \/ DropPending) /\ ui.p = Sender[m] /\ savedHeld'[m] = 0
<1>0. Lists /\ Readings  BY DEF Shape
<1>1. ASSUME NEW r \in Readers, ReaderStep(r)
      PROVE  \/ savedHeld'[m] = savedHeld[m]
             \/ Hold(r) /\ Sender[rd[r].m] = Sender[m] /\ savedHeld'[m] = 0
             \/ PersistHeld(r) /\ Sender[rd[r].m] = Sender[m] /\ savedHeld'[m] = pending'[m]
  <2>1. CASE Hold(r)
    BY <1>0, <2>1, WithoutType DEF Hold, Lists
  <2>2. CASE PersistHeld(r)
    BY <1>0, <2>2 DEF PersistHeld, Lists
  <2> QED BY <1>1, <2>1, <2>2 DEF ReaderStep, Dedup, Route, PostToChat, SavePost, Badge, stored
<1>2. ASSUME UiStep
      PROVE  \/ savedHeld'[m] = savedHeld[m]
             \/ (DeletePending \/ DropPending) /\ ui.p = Sender[m] /\ savedHeld'[m] = 0
  <2>1. CASE DeletePending \/ DropPending
    BY <1>0, <2>1, WithoutType DEF DeletePending, DropPending, Lists
  <2> QED BY <1>2, <2>1 DEF UiStep, DeletePeerKey, WritePeerKey, SwitchDialogue, FlushOne,
             ClearBadge, TakeHeld, SaveFlushed, ReopenCleared, DropBadge, DropHeld, stored
<1>3. (\E r \in Readers, n \in Msgs, live \in BOOLEAN : Arrive(r, n, live))
         \/ (\E p \in Peers : ActivatePeer(p)) \/ ClearHistory \/ Serve \/ DeleteDialogue \/ Crash \/ UNCHANGED vars
      => savedHeld' = savedHeld
  BY DEF Arrive, ActivatePeer, ClearHistory, Serve, ServeAdd, ServeSave, ServeSet,
     DeleteDialogue, Crash, vars, stored
<1> QED BY Steps, <1>1, <1>2, <1>3

\* While a reader writes the stored list again the list in memory only grows.
LEMMA RewrittenStep ==
    ASSUME Shape, [Next]_vars, ~Crash, NEW m \in Msgs, Rewritten(m), pending[m] > 0
    PROVE  (Rewritten(m)' /\ pending'[m] > 0) \/ (savedHeld'[m] > 0 /\ pending'[m] > 0)
<1>0. Readings /\ Lists /\ pending[m] \in Nat  BY DEF Shape, Lists
<1>1. PICK r \in Readers : rd[r].at = "persist" /\ Sender[rd[r].m] = Sender[m]  BY DEF Rewritten
<1>2. ~TakeHeld /\ ~DropHeld  BY <1>1 DEF TakeHeld, DropHeld, PendingFree
<1>3. pending'[m] > 0  BY <1>0, <1>2, PendingKinds
<1>4. rd[r] # Idle  BY <1>1 DEF Idle
<1>5. CASE rd'[r] = rd[r]  BY <1>1, <1>3, <1>5 DEF Rewritten
<1>6. CASE PersistHeld(r)
  <2>1. savedHeld'[m] = pending[m] /\ pending' = pending  BY <1>1, <1>6 DEF PersistHeld
  <2> QED BY <1>3, <2>1
<1>7. Dedup(r) \/ Route(r) \/ PostToChat(r) \/ SavePost(r) \/ Hold(r) \/ Badge(r) => FALSE
  BY <1>0, <1>1, DedupMoves, RouteMoves, PostMoves, SaveMoves, HoldMoves, BadgeMoves
<1> QED BY <1>4, <1>5, <1>6, <1>7, ReaderKinds DEF ReaderStep

\* A message that is somewhere outside the held list stays somewhere, until a
\* crash, a race or a clear.
LEMMA ElsewhereStep ==
    ASSUME Shape, ThreadInv, OpenCovers, [Next]_vars, ~Crash,
           NEW m \in Msgs, m \notin raced', m \notin wiped', Elsewhere(m)
    PROVE  Elsewhere(m)' \/ (savedHeld'[m] > 0 /\ pending'[m] > 0)
<1>0. m \notin raced /\ Lists /\ Threads /\ Sender[m] \in Dialogues
  BY RacedGrows, SenderType DEF Shape
<1>1. CASE saved[Sender[m]][m] > 0
  <2>1. CASE saved' = saved  BY <1>1, <2>1 DEF Elsewhere
  <2>2. CASE ServeSave
    <3>1. open[m] >= saved[shown][m] /\ open[m] \in Nat /\ saved[Sender[m]][m] \in Nat
      BY <1>0 DEF OpenCovers, Lists
    <3>2. saved'[Sender[m]][m] > 0
      BY <1>0, <1>1, <2>2, <3>1 DEF ServeSave, Lists
    <3> QED BY <3>2 DEF Elsewhere
  <2>3. CASE ClearHistory
    <3>1. CASE Sender[m] = current
      <4>1. \E r \in Readers : rd[r].at = "route" /\ rd[r].m = m
        BY <1>0, <2>3, <3>1 DEF ClearHistory, From
      <4>2. rd' = rd  BY <2>3, QuietReaders
      <4> QED BY <4>1, <4>2 DEF Elsewhere, Underway
    <3>2. CASE Sender[m] # current
      <4>1. saved'[Sender[m]] = saved[Sender[m]]
        BY <1>0, <2>3, <3>2 DEF ClearHistory, Lists
      <4> QED BY <1>1, <4>1 DEF Elsewhere
    <3> QED BY <3>1, <3>2
  <2>4. CASE DeleteDialogue
    <3>1. CASE shown = Sender[m]
      <4>1. open[m] > 0
        BY <1>0, <1>1, <3>1 DEF OpenCovers, Lists
      <4>2. /\ queue' = queue /\ shown' = shown /\ open' = open
            /\ queue[1] = Save /\ 1 \in 1..Len(queue) /\ Len(queue) \in Nat
        <5>1. queue \in Seq(Ops) /\ queue # <<>> /\ Head(queue).op = "save"
          BY <2>4 DEF DeleteDialogue, Shape, Queue
        <5> QED BY <2>4, <5>1, HeadTailProperties, OpFacts DEF DeleteDialogue
      <4>3. NoSet(queue, 0, 1)  BY <4>2, OpFacts DEF NoSet
      <4>4. SaveAfter(queue, 0)  BY <4>2, <4>3 DEF SaveAfter
      <4>5. Landed(0, m)' /\ SaveAfter(queue', 0) /\ 0 \in 0..Len(queue')
        BY <3>1, <4>1, <4>2, <4>4 DEF Landed
      <4> QED BY <4>5 DEF Saving, Elsewhere
    <3>2. CASE shown # Sender[m]
      <4>1. saved'[Sender[m]] = saved[Sender[m]]
        BY <1>0, <2>4, <3>2 DEF DeleteDialogue, Lists
      <4> QED BY <1>1, <4>1 DEF Elsewhere
    <3> QED BY <3>1, <3>2
  <2> QED BY <2>1, <2>2, <2>3, <2>4, SavedKinds
<1>2. CASE Underway(m)  BY <1>2, UnderwayStep DEF Elsewhere
<1>3. CASE Saving(m)  BY <1>0, <1>3, SavingStep DEF Elsewhere
<1>4. CASE Waiting(m) /\ ReaderSaves(m)  BY <1>4, ReaderSavesStep DEF Elsewhere
<1>5. CASE Waiting(m) /\ UiSaves(m)  BY <1>0, <1>5, UiSavesStep DEF Elsewhere
<1>6. CASE InBatch(m)  BY <1>6, InBatchStep DEF Elsewhere
<1>7. CASE Rewritten(m) /\ pending[m] > 0  BY <1>7, RewrittenStep DEF Elsewhere
<1> QED BY <1>1, <1>2, <1>3, <1>4, <1>5, <1>6, <1>7 DEF Elsewhere

-----------------------------------------------------------------------------
(* An acknowledged message is kept.                                        *)

Taken ==
    \A m \in Msgs : ui.at \in {"flush", "forget", "resave", "unbadge", "undict"}
                       /\ ui.p = Sender[m] => m \in raced \/ pending[m] = 0
Routing(m) == \E r \in Readers : rd[r].at = "route" /\ rd[r].m = m
ClearInv ==
    ui.at \in Clearing =>
        \A m \in Msgs : Sender[m] = ui.p => m \in raced \/ m \in wiped \/ Routing(m)
HeldInv ==
    \A m \in Msgs : m \notin raced /\ m \notin wiped /\ savedHeld[m] > 0 =>
        pending[m] > 0 \/ Elsewhere(m)
\* Accepted, or told to the sender or the node.
Accepted(m) == \E r \in Readers : rd[r].at \notin {"idle", "dedup"} /\ rd[r].m = m
Known(m) == m \in acked \/ m \in Range(recent) \/ Accepted(m)
AtDedup(m) == \E r \in Readers : rd[r].at = "dedup" /\ rd[r].m = m
KeptInv ==
    \A m \in Msgs : Known(m) /\ m \notin raced /\ m \notin caught /\ m \notin wiped =>
        \/ savedHeld[m] > 0 \/ Elsewhere(m)
        \/ m \notin Range(recent) /\ AtDedup(m)
KeepInv == OpenCovers /\ Taken /\ ClearInv /\ HeldInv /\ KeptInv

LEMMA TakenStep ==
    ASSUME Shape, ThreadInv, Taken, [Next]_vars
    PROVE  Taken'
<1>0. Uis /\ Lists /\ Readings /\ Idle.at = "idle"  BY DEF Shape, Idle
<1> DEFINE T == {"flush", "forget", "resave", "unbadge", "undict"}
<1> SUFFICES ASSUME NEW m \in Msgs, ui'.at \in T, ui'.p = Sender[m], m \notin raced'
             PROVE  pending'[m] = 0
  BY DEF Taken
<1>1. m \notin raced /\ ~Crash  BY <1>0, RacedGrows DEF Crash
<1>2. CASE TakeHeld \/ DropHeld
  <2>1. ui'.p = ui.p  BY <1>0, <1>2, TakeMoves, DropHeldMoves DEF UiAt
  <2>2. pending' = Without(pending, ui.p)  BY <1>2 DEF TakeHeld, DropHeld
  <2>3. Without(pending, ui.p)[m] = IF Sender[m] = ui.p THEN 0 ELSE pending[m]
    BY <1>0, WithoutType DEF Lists
  <2> QED BY <2>1, <2>2, <2>3
<1>3. CASE ~TakeHeld /\ ~DropHeld
  <2>1. ui # Idle
    <3>1. ASSUME ui = Idle PROVE FALSE
      <4>1. ui' = ui \/ ui'.at \in {"key", "reset"}
        BY Steps, <1>1, <3>1, UiBusy, QuietUi, ActivateMoves, ClearMoves
      <4> QED BY <1>0, <3>1, <4>1
    <3> QED BY <3>1
  <2>2. ui.at \in T /\ ui.p = Sender[m]
    <3>1. CASE ui' = ui  BY <3>1
    <3>2. CASE UiStep
      BY <1>0, <1>3, <3>2, UnkeyMoves, KeyMoves, SwitchMoves, FlushMoves, ClearBadgeMoves,
         DeleteMoves, SaveFlushedMoves, ReopenMoves, DropBadgeMoves, DropPendingMoves DEF
         UiStep, UiAt
    <3> QED BY <1>1, <2>1, <3>1, <3>2, UiKinds
  <2>3. pending[m] = 0  BY <1>1, <2>2 DEF Taken
  <2>4. \A r \in Readers : Hold(r) => rd[r].m # m
    BY <1>0, <1>1, <2>1, HoldMoves DEF ThreadInv, Calm
  <2> QED BY <1>1, <1>3, <2>3, <2>4, PendingKinds
<1> QED BY <1>2, <1>3

LEMMA WipedKinds ==
    ASSUME Shape, [Next]_vars, ~Crash, NEW m \in Msgs, m \in wiped, m \notin wiped'
    PROVE  Routing(m)' /\ \E r \in Readers : Dedup(r) /\ rd[r].m = m
<1>0. Readings  BY DEF Shape
<1>1. ASSUME NEW r \in Readers, ReaderStep(r) PROVE Dedup(r) /\ rd[r].m = m /\ Goes(r, "route")
  <2>1. CASE Dedup(r)
    <3>1. rd[r].m \notin Range(recent) /\ rd[r].m = m  BY <2>1 DEF Dedup
    <3> QED BY <1>0, <2>1, <3>1, DedupMoves
  <2> QED BY <1>1, <2>1 DEF ReaderStep, Route, PostToChat, SavePost, Hold, PersistHeld, Badge,
             ghosts
<1>2. ~UiStep /\ ~Serve /\ ~DeleteDialogue /\ ~UNCHANGED vars  BY GhostsKept DEF ghosts
<1>3. ~(\E r \in Readers, n \in Msgs, live \in BOOLEAN : Arrive(r, n, live))
      /\ ~(\E p \in Peers : ActivatePeer(p)) /\ ~ClearHistory
  BY DEF Arrive, ActivatePeer, ClearHistory
<1>4. PICK r \in Readers : Dedup(r) /\ rd[r].m = m /\ Goes(r, "route")
  BY Steps, <1>1, <1>2, <1>3
<1> QED BY <1>4, MoveFacts DEF Routing

LEMMA RoutingStep ==
    ASSUME Shape, ThreadInv, [Next]_vars, ~Crash, NEW m \in Msgs, Routing(m), ui # Idle
    PROVE  m \in raced' \/ Routing(m)'
<1>0. Readings  BY DEF Shape
<1>1. PICK r \in Readers : rd[r].at = "route" /\ rd[r].m = m  BY DEF Routing
<1>2. rd[r] # Idle  BY <1>1 DEF Idle
<1>3. CASE rd'[r] = rd[r]  BY <1>1, <1>3 DEF Routing
<1>4. CASE Route(r)  BY <1>1, <1>4 DEF Route
<1>5. Dedup(r) \/ PostToChat(r) \/ SavePost(r) \/ Hold(r) \/ PersistHeld(r) \/ Badge(r) => FALSE
  BY <1>0, <1>1, DedupMoves, PostMoves, SaveMoves, HoldMoves, PersistMoves, BadgeMoves
<1> QED BY <1>2, <1>3, <1>4, <1>5, ReaderKinds DEF ReaderStep

LEMMA ClearInvStep ==
    ASSUME Shape, ThreadInv, ClearInv, [Next]_vars
    PROVE  ClearInv'
<1>0. Uis /\ Lists /\ Readings /\ Idle.at = "idle"  BY DEF Shape, Idle
<1> SUFFICES ASSUME NEW m \in Msgs, ui'.at \in Clearing, Sender[m] = ui'.p,
                    m \notin raced', m \notin wiped'
             PROVE  Routing(m)'
  BY DEF ClearInv, Clearing
<1>1. m \notin raced /\ ~Crash  BY <1>0, RacedGrows DEF Crash, Clearing
<1>2. CASE ClearHistory
  <2>1. \E r \in Readers : rd[r].at = "route" /\ rd[r].m = m
    BY <1>2, ClearMoves DEF ClearHistory, From
  <2> QED BY <1>2, <2>1, QuietReaders DEF Routing
<1>3. CASE ~ClearHistory
  <2>1. ui.at \in Clearing /\ Sender[m] = ui.p /\ ui # Idle
    <3>1. CASE UiStep
      BY <1>0, <1>3, <3>1, UnkeyMoves, KeyMoves, SwitchMoves, TakeMoves, FlushMoves,
         ClearBadgeMoves, DeleteMoves, SaveFlushedMoves, ReopenMoves, DropHeldMoves,
         DropBadgeMoves, DropPendingMoves DEF UiStep, UiAt, Clearing
    <3>2. CASE ui' = ui  BY <1>0, <3>2 DEF Clearing
    <3>3. \A p \in Peers : ~ActivatePeer(p)  BY ActivateMoves DEF Clearing
    <3> QED BY Steps, <1>1, <1>3, <3>1, <3>2, <3>3, QuietUi
  <2>2. CASE m \in wiped  BY <1>1, <2>2, WipedKinds
  <2>3. CASE m \notin wiped
    <3>1. Routing(m)  BY <1>1, <2>1, <2>3 DEF ClearInv
    <3> QED BY <1>1, <2>1, <3>1, RoutingStep
  <2> QED BY <2>2, <2>3
<1> QED BY <1>2, <1>3

LEMMA HeldInvStep ==
    ASSUME Shape, ThreadInv, KeepInv, [Next]_vars
    PROVE  HeldInv'
<1>0. Uis /\ Lists /\ Readings /\ Lists' /\ Idle.at = "idle"  BY ListsStep DEF Shape, Idle
<1> SUFFICES ASSUME NEW m \in Msgs, m \notin raced', m \notin wiped', savedHeld'[m] > 0
             PROVE  pending'[m] > 0 \/ Elsewhere(m)'
  BY DEF HeldInv
<1>1. m \notin raced  BY RacedGrows
<1>2. CASE Crash  BY <1>2 DEF Crash, stored
<1>3. CASE ~Crash /\ m \in wiped
  BY <1>3, WipedKinds DEF Routing, Underway, Elsewhere
<1>4. CASE ~Crash /\ m \notin wiped
  <2>1. CASE ~(savedHeld[m] > 0)
    BY <2>1, HeldKinds
  <2>2. CASE savedHeld[m] > 0
    <3>1. pending[m] > 0 \/ Elsewhere(m)  BY <1>1, <1>4, <2>2 DEF KeepInv, HeldInv
    <3>2. CASE Elsewhere(m)
      BY <1>4, <3>2, ElsewhereStep DEF KeepInv
    <3>3. CASE pending[m] > 0
      <4>0. pending[m] \in Nat  BY <1>0 DEF Lists
      <4>1. CASE TakeHeld /\ ui.p = Sender[m]
        <5>1. ui'.at = "flush" /\ ui'.batch[m] = pending[m]
          BY <1>0, <4>1, TakeMoves, OnlyType DEF Lists
        <5> QED BY <3>3, <5>1 DEF Elsewhere, InBatch
      <4>2. CASE DropHeld /\ ui.p = Sender[m]
        <5>1. Routing(m)
          BY <1>0, <1>1, <1>4, <4>2, DropHeldMoves DEF KeepInv, ClearInv, Clearing
        <5>2. rd' = rd  BY <4>2, QuietReaders DEF UiStep
        <5> QED BY <5>1, <5>2 DEF Routing, Underway, Elsewhere
      <4> QED BY <1>4, <3>3, <4>0, <4>1, <4>2, PendingKinds
    <3> QED BY <3>1, <3>2, <3>3
  <2> QED BY <2>1, <2>2
<1> QED BY <1>2, <1>3, <1>4

\* Messages become known by arriving with a proof or by being accepted.
LEMMA KnownKinds ==
    ASSUME Shape, [Next]_vars, ~Crash, NEW m \in Msgs, Known(m)', ~Known(m)
    PROVE  (m \notin Range(recent') /\ AtDedup(m)') \/ Routing(m)'
<1>0. Readings /\ Recents /\ Idle.at = "idle"  BY DEF Shape, Idle
<1>1. ASSUME NEW r \in Readers, NEW n \in Msgs, NEW live \in BOOLEAN, Arrive(r, n, live)
      PROVE  m \notin Range(recent') /\ AtDedup(m)'
  <2>1. recent' = recent  BY <1>1 DEF Arrive
  <2>2. rd'[r] = [at |-> "dedup", m |-> n] /\ \A o \in Readers : o # r => rd'[o] = rd[o]
    BY <1>0, <1>1 DEF Arrive, Readings
  <2>3. ~Accepted(m)'  BY <2>2 DEF Known, Accepted
  <2>4. m \in acked'  BY <2>1, <2>3 DEF Known
  <2>5. n = m  BY <1>1, <2>4 DEF Arrive, Known
  <2> QED BY <2>1, <2>2, <2>5 DEF Known, AtDedup
<1>2. ASSUME NEW r \in Readers, ReaderStep(r) PROVE Routing(m)'
  <2>1. CASE Dedup(r) /\ rd[r].m \notin Range(recent)
    <3>1. /\ rd'[r].at = "route" /\ rd'[r].m = rd[r].m /\ acked' = acked
          /\ \A o \in Readers : o # r => rd'[o] = rd[o]
          /\ rd[r].m \in Msgs
      BY <1>0, <2>1, DedupMoves, MoveFacts
    <3>2. Range(recent') \subseteq Range(recent) \cup {rd[r].m}
      BY <1>0, <2>1, <3>1, RememberKeeps DEF Dedup
    <3>3. rd[r].m = m  BY <3>1, <3>2 DEF Known, Accepted
    <3> QED BY <3>1, <3>3 DEF Routing
  <2>2. CASE Dedup(r) /\ rd[r].m \in Range(recent)
    <3>1. /\ rd'[r].at = "idle" /\ acked' = acked \cup {rd[r].m}
          /\ \A o \in Readers : o # r => rd'[o] = rd[o]
      BY <1>0, <2>2, DedupMoves, MoveFacts
    <3>2. recent' = recent  BY <2>2 DEF Dedup
    <3> QED BY <2>2, <3>1, <3>2 DEF Known, Accepted
  <2>3. CASE Route(r) \/ PostToChat(r) \/ Hold(r) \/ PersistHeld(r)
    <3>1. /\ rd[r].at \notin {"idle", "dedup"} /\ rd'[r].m = rd[r].m
          /\ \A o \in Readers : o # r => rd'[o] = rd[o]
      BY <1>0, <2>3, RouteMoves, PostMoves, HoldMoves, PersistMoves, MoveFacts
    <3>2. recent' = recent /\ acked' = acked
      BY <2>3 DEF Route, PostToChat, Hold, PersistHeld, ghosts
    <3> QED BY <3>1, <3>2 DEF Known, Accepted
  <2>4. CASE SavePost(r) \/ Badge(r)
    <3>1. /\ rd[r].at \notin {"idle", "dedup"} /\ rd'[r].at = "idle"
          /\ \A o \in Readers : o # r => rd'[o] = rd[o]
      BY <1>0, <2>4, SaveMoves, BadgeMoves, MoveFacts
    <3>2. recent' = recent /\ acked' = acked \cup {rd[r].m}  BY <2>4 DEF SavePost, Badge, Done
    <3> QED BY <3>1, <3>2 DEF Known, Accepted
  <2> QED BY <1>2, <2>1, <2>2, <2>3, <2>4 DEF ReaderStep
<1>3. UiStep \/ Serve \/ DeleteDialogue \/ UNCHANGED vars => FALSE
  <2>1. UiStep \/ Serve \/ DeleteDialogue \/ UNCHANGED vars => recent' = recent
    BY DEF UiStep, DeletePeerKey, WritePeerKey, SwitchDialogue, TakeHeld, FlushOne,
       ClearBadge, DeletePending, SaveFlushed, ReopenCleared, DropHeld, DropBadge,
       DropPending, Serve, ServeAdd, ServeSave, ServeSet, DeleteDialogue, vars
  <2> QED BY <2>1, QuietReaders, GhostsKept DEF ghosts, Known, Accepted
<1>4. (\E p \in Peers : ActivatePeer(p)) \/ ClearHistory => FALSE
  <2>1. (\E p \in Peers : ActivatePeer(p)) \/ ClearHistory
          => recent' = recent /\ acked' = acked /\ rd' = rd
    BY DEF ActivatePeer, ClearHistory
  <2> QED BY <2>1 DEF Known, Accepted
<1> QED BY Steps, <1>1, <1>2, <1>3, <1>4

LEMMA AtDedupStep ==
    ASSUME Shape, [Next]_vars, ~Crash, NEW m \in Msgs, m \notin Range(recent), AtDedup(m)
    PROVE  (m \notin Range(recent') /\ AtDedup(m)') \/ Routing(m)'
<1>0. Readings /\ Recents  BY DEF Shape
<1>1. ASSUME NEW r \in Readers, Dedup(r), rd[r].m = m PROVE Routing(m)'
  BY <1>0, <1>1, DedupMoves, MoveFacts DEF Routing
<1>2. CASE m \in Range(recent')
  <2>1. PICK r \in Readers : Dedup(r) /\ rd[r].m \notin Range(recent) /\ Remember(rd[r].m)
    BY <1>2, RecentKinds
  <2>2. rd[r].m \in Msgs  BY <1>0, <2>1, DedupMoves
  <2>3. rd[r].m = m  BY <1>0, <1>2, <2>1, <2>2, RememberKeeps
  <2> QED BY <1>1, <2>1, <2>3
<1>3. CASE m \notin Range(recent')
  <2>1. PICK r \in Readers : rd[r].at = "dedup" /\ rd[r].m = m  BY DEF AtDedup
  <2>2. rd[r] # Idle  BY <2>1 DEF Idle
  <2>3. Route(r) \/ PostToChat(r) \/ SavePost(r) \/ Hold(r) \/ PersistHeld(r) \/ Badge(r) => FALSE
    BY <1>0, <2>1, RouteMoves, PostMoves, SaveMoves, HoldMoves, PersistMoves, BadgeMoves
  <2>4. CASE rd'[r] = rd[r]  BY <1>3, <2>1, <2>4 DEF AtDedup
  <2> QED BY <1>1, <2>1, <2>2, <2>3, <2>4, ReaderKinds DEF ReaderStep
<1> QED BY <1>2, <1>3

LEMMA CaughtGrows ==
    ASSUME [Next]_vars
    PROVE  caught \subseteq caught'
<1>1. ASSUME NEW r \in Readers, ReaderStep(r) PROVE caught \subseteq caught'
  BY <1>1 DEF ReaderStep, Dedup, Route, PostToChat, SavePost, Hold, PersistHeld, Badge, ghosts
<1>2. UiStep \/ Serve \/ DeleteDialogue \/ UNCHANGED vars => caught' = caught
  BY GhostsKept DEF ghosts
<1>3. (\E r \in Readers, m \in Msgs, live \in BOOLEAN : Arrive(r, m, live))
         \/ (\E p \in Peers : ActivatePeer(p)) \/ ClearHistory \/ Crash => caught \subseteq caught'
  BY DEF Arrive, ActivatePeer, ClearHistory, Crash
<1> QED BY Steps, <1>1, <1>2, <1>3

\* A message on its way is in the PDDB or exposed to a crash.
LEMMA ElsewhereExposed ==
    ASSUME Shape, ThreadInv, NEW m \in Msgs, Elsewhere(m) \/ AtDedup(m)
    PROVE  saved[Sender[m]][m] > 0 \/ Exposed(m)
<1>0. Idle.at = "idle" /\ queue \in Seq(Ops) /\ DOMAIN queue = 1..Len(queue) /\ Len(queue) \in Nat
  BY DEF Idle, Shape, Queue
<1>1. CASE Underway(m) \/ AtDedup(m)  BY <1>1 DEF Underway, AtDedup, Exposed
<1>2. CASE ReaderSaves(m)
  <2>1. PICK r \in Readers : rd[r] = [at |-> "save", m |-> m]  BY <1>2 DEF ReaderSaves
  <2>2. rd[r].at = "save" /\ rd[r].m = m  BY <2>1
  <2> QED BY <2>2 DEF Exposed
<1>3. CASE UiSaves(m)  BY <1>3 DEF UiSaves, Exposed
<1>4. CASE InBatch(m)
  BY <1>0, <1>4 DEF InBatch, ThreadInv, UiInv, Exposed
<1>5. CASE Rewritten(m)  BY <1>5 DEF Rewritten, Exposed
<1>6. CASE Saving(m)
  <2>1. PICK i \in 0..Len(queue) : Landed(i, m) /\ SaveAfter(queue, i)  BY <1>6 DEF Saving
  <2>2. CASE i = 0
    <3>1. PICK j \in (0 + 1)..Len(queue) : queue[j] = Save  BY <2>1, <2>2 DEF SaveAfter
    <3> QED BY <1>0, <2>1, <2>2, <3>1 DEF Landed, Exposed
  <2>3. CASE i # 0
    <3>1. i \in DOMAIN queue /\ queue[i] = Add(m)  BY <1>0, <2>1, <2>3 DEF Landed
    <3> QED BY <3>1 DEF Exposed
  <2> QED BY <2>2, <2>3
<1> QED BY <1>1, <1>2, <1>3, <1>4, <1>5, <1>6 DEF Elsewhere

LEMMA KeptInvStep ==
    ASSUME Shape, ThreadInv, KeepInv, [Next]_vars
    PROVE  KeptInv'
<1>0. Uis /\ Lists /\ Readings /\ Lists' /\ Idle.at = "idle"  BY ListsStep DEF Shape, Idle
<1> SUFFICES ASSUME NEW m \in Msgs, Known(m)', m \notin raced', m \notin caught', m \notin wiped'
             PROVE  \/ savedHeld'[m] > 0 \/ Elsewhere(m)'
                    \/ m \notin Range(recent') /\ AtDedup(m)'
  BY DEF KeptInv
<1>1. m \notin raced /\ m \notin caught  BY RacedGrows, CaughtGrows
<1>2. Routing(m)' => Elsewhere(m)'  BY DEF Routing, Underway, Elsewhere
<1>3. CASE Crash
  <2>1. ~Accepted(m)' /\ m \notin Range(recent')
    BY <1>0, <1>3 DEF Crash, Accepted, Range
  <2>2. m \in acked  BY <1>3, <2>1 DEF Known, Crash
  <2>3. Durable(m)
    <3>1. Exposed(m) => Durable(m)  BY <1>3, <2>2 DEF Crash
    <3>2. CASE m \in wiped
      BY <1>3, <3>1, <3>2 DEF Crash, Exposed, From
    <3>3. CASE m \notin wiped
      <4>1. \/ savedHeld[m] > 0 \/ Elsewhere(m)
            \/ AtDedup(m)
        BY <1>1, <2>2, <3>3 DEF KeepInv, KeptInv, Known
      <4>2. savedHeld[m] > 0 \/ saved[Sender[m]][m] > 0 => Durable(m)
        BY <1>0, SenderType DEF Durable, Lists
      <4> QED BY <3>1, <4>1, <4>2, ElsewhereExposed
    <3> QED BY <3>2, <3>3
  <2>4. saved[Sender[m]][m] > 0 \/ savedHeld[m] > 0
    BY <1>0, <2>3, SenderType DEF Durable, Lists
  <2>5. saved' = saved /\ savedHeld' = savedHeld  BY <1>3 DEF Crash, stored
  <2> QED BY <2>4, <2>5 DEF Elsewhere
<1>4. CASE ~Crash /\ m \in wiped
  BY <1>2, <1>4, WipedKinds
<1>5. CASE ~Crash /\ ~Known(m)
  BY <1>2, <1>5, KnownKinds
<1>6. CASE ~Crash /\ Known(m) /\ m \notin wiped
  <2>1. \/ savedHeld[m] > 0 \/ Elsewhere(m)
        \/ m \notin Range(recent) /\ AtDedup(m)
    BY <1>1, <1>6 DEF KeepInv, KeptInv
  <2>2. CASE Elsewhere(m)
    BY <1>6, <2>2, ElsewhereStep DEF KeepInv
  <2>3. CASE m \notin Range(recent) /\ AtDedup(m)
    BY <1>2, <1>6, <2>3, AtDedupStep
  <2>4. CASE savedHeld[m] > 0 /\ ~Elsewhere(m)
    <3>1. pending[m] > 0 /\ pending[m] \in Nat
      BY <1>0, <1>1, <1>6, <2>4 DEF KeepInv, HeldInv, Lists
    <3>2. CASE savedHeld'[m] = savedHeld[m]  BY <2>4, <3>2
    <3>3. ASSUME NEW r \in Readers, Hold(r) \/ PersistHeld(r) PROVE pending'[m] > 0
      <4>1. ~TakeHeld /\ ~DropHeld
        <5>1. rd' # rd  BY <1>0, <3>3, HoldMoves, PersistMoves, MoveFacts
        <5> QED BY <5>1, QuietReaders DEF UiStep
      <4> QED BY <1>6, <3>1, <3>3, <4>1, PendingKinds
    <3>5. ASSUME NEW r \in Readers, Hold(r), Sender[rd[r].m] = Sender[m] PROVE Elsewhere(m)'
      <4>1. Rewritten(m)'  BY <1>0, <3>5, HoldMoves, MoveFacts DEF Rewritten
      <4> QED BY <3>3, <3>5, <4>1 DEF Elsewhere
    <3>4. ~((DeletePending \/ DropPending) /\ ui.p = Sender[m])
      BY <1>0, <1>1, <3>1, DeleteMoves, DropPendingMoves DEF KeepInv, Taken
    <3> QED BY <3>2, <3>3, <3>4, <3>5, HeldKinds
  <2> QED BY <2>1, <2>2, <2>3, <2>4
<1> QED BY <1>3, <1>4, <1>5, <1>6

LEMMA KeepInit == Init => KeepInv
<1> SUFFICES ASSUME Init PROVE KeepInv  OBVIOUS
<1>0. Idle.at = "idle" /\ \A r \in Readers : rd[r].at = "idle"  BY DEF Init, Idle
<1>1. OpenCovers  BY NothingType DEF Init, OpenCovers, Dialogues
<1>2. Taken /\ ClearInv  BY <1>0 DEF Init, Taken, ClearInv, Clearing
<1>3. HeldInv  BY NothingType DEF Init, HeldInv
<1>4. \A m \in Msgs : ~Known(m)  BY <1>0 DEF Init, Known, Accepted, Range
<1>5. KeptInv  BY <1>4 DEF KeptInv
<1> QED BY <1>1, <1>2, <1>3, <1>5 DEF KeepInv

LEMMA KeepStep ==
    ASSUME Shape, ThreadInv, KeepInv, [Next]_vars
    PROVE  KeepInv'
BY OpenCoversStep, TakenStep, ClearInvStep, HeldInvStep, KeptInvStep DEF KeepInv

LEMMA KeepHolds == Spec => [](Shape /\ ThreadInv /\ KeepInv)
BY ShapeInit, ThreadInit, KeepInit, ShapeStep, ThreadStep, KeepStep, PTL DEF Spec

\* A message whose proof went out, or that the node was told to delete, is in the
\* PDDB once everything is at rest: neither two readers, nor the id's eviction
\* from recent_msg_ids, nor activate_peer deleting held copies loses it, nor a
\* crash that finds it stored and its dialogue and held list not being replaced.
\* A raced delivery, a crash while it was exposed and a clear are the exceptions.
THEOREM KeptWhenQuietHolds == Spec => []KeptWhenQuiet
<1>1. Shape /\ ThreadInv /\ KeepInv => KeptWhenQuiet
  <2> SUFFICES ASSUME Shape, ThreadInv, KeepInv, Quiet,
                      NEW m \in acked \ (raced \cup caught \cup wiped)
               PROVE  Durable(m)
    BY DEF KeptWhenQuiet
  <2>0. m \in Msgs /\ Lists /\ Idle.at = "idle" /\ \A r \in Readers : rd[r].at = "idle"
    BY DEF Shape, Ghosts, Quiet, Idle
  <2>1. savedHeld[m] > 0 \/ Elsewhere(m)
    BY <2>0 DEF KeepInv, KeptInv, Known, AtDedup
  <2>2. ~Underway(m) /\ ~ReaderSaves(m)  BY <2>0 DEF Underway, ReaderSaves
  <2>3. ~UiSaves(m) /\ ~InBatch(m)  BY <2>0 DEF UiSaves, InBatch, Quiet
  <2>4. ~Saving(m) /\ ~Rewritten(m)  BY <2>0 DEF Saving, SaveAfter, Rewritten, Quiet
  <2>5. savedHeld[m] > 0 \/ saved[Sender[m]][m] > 0
    BY <2>1, <2>2, <2>3, <2>4 DEF Elsewhere
  <2>6. savedHeld[m] \in Nat /\ saved[Sender[m]][m] \in Nat  BY <2>0, SenderType DEF Lists
  <2> QED BY <2>5, <2>6 DEF Durable
<1> QED BY <1>1, KeepHolds, PTL

-----------------------------------------------------------------------------
(* The badge.                                                              *)

\* The readers that have held m and are still to bump its sender's badge.
Badging(m) == {r \in Readers : rd[r].at \in {"persist", "badge"} /\ rd[r].m = m}
\* The badge, with those readers, counts what is held, and so does the PDDB
\* except while it is being written again.
Even(m) ==
    /\ unread[m] + Cardinality(Badging(m)) = pending[m]
    /\ Rewritten(m) \/ savedHeld[m] = pending[m]
\* The UI has the list that m is held in in hand.
Busy(m) == ui # Idle /\ ui.p = Sender[m]
\* The PDDB holds more than memory only while the UI has the list in hand.
Covered(m) ==
    \/ savedHeld[m] <= pending[m]
    \/ /\ Busy(m)
       /\ ui.at \in {"forget", "unbadge", "undict"} \/ (ui.at = "flush" /\ ui.had)
Emptying(m) ==
    /\ ui.at \in {"flush", "forget", "resave", "unbadge", "undict"} => pending[m] = 0
    /\ ui.at \in {"forget", "resave", "undict"} => unread[m] = 0
    /\ ui.at = "resave" => savedHeld[m] = 0
\* No delivery holds anything for the peer that the UI opens or clears.
Apart == ui # Idle /\ ui.p \notin blurred => ~HoldsFor(ui.p)
BadgeOf(m) ==
    /\ IsFiniteSet(Badging(m)) /\ Covered(m)
    /\ Sender[m] \notin blurred => IF Busy(m) THEN Emptying(m) ELSE Even(m)
BadgeInv == Apart /\ \A m \in Msgs : BadgeOf(m)

\* Only the start of a switch or a clear blurs a peer, or makes it clear again.
LEMMA BlurKinds ==
    ASSUME [Next]_vars, ~Crash
    PROVE  \/ blurred' = blurred
           \/ \E p \in Peers : ActivatePeer(p) /\ Blur(p)
           \/ ClearHistory /\ Blur(current)
<1>1. ASSUME NEW r \in Readers, ReaderStep(r) PROVE blurred' = blurred
  BY <1>1 DEF ReaderStep, Dedup, Route, PostToChat, SavePost, Hold, PersistHeld, Badge, ghosts
<1>2. UiStep \/ Serve \/ DeleteDialogue \/ UNCHANGED vars => blurred' = blurred
  BY GhostsKept DEF ghosts
<1>3. (\E r \in Readers, m \in Msgs, live \in BOOLEAN : Arrive(r, m, live)) => blurred' = blurred
  BY DEF Arrive
<1>4. (\A p \in Peers : ActivatePeer(p) => Blur(p)) /\ (ClearHistory => Blur(current))
  BY DEF ActivatePeer, ClearHistory
<1> QED BY Steps, <1>1, <1>2, <1>3, <1>4

\* A reader comes to hold a message only by finding its sender off screen.
LEMMA HolderKinds ==
    ASSUME Shape, [Next]_vars, ~Crash, NEW r \in Readers,
           rd'[r].at \in {"hold", "persist", "badge"}
    PROVE  /\ rd'[r].m = rd[r].m
           /\ \/ rd[r].at \in {"hold", "persist", "badge"}
              \/ rd[r].m \in Msgs /\ Sender[rd[r].m] # current
<1>0. Readings /\ Idle.at = "idle"  BY DEF Shape, Idle
<1>1. CASE rd[r] = Idle
  <2>1. ASSUME NEW o \in Readers, ReaderStep(o) PROVE rd'[r] = rd[r]
    <3>1. rd[o].at # "idle"
      BY <1>0, <2>1, DedupMoves, RouteMoves, PostMoves, SaveMoves, HoldMoves, PersistMoves,
         BadgeMoves DEF ReaderStep
    <3>2. r # o  BY <1>0, <1>1, <3>1
    <3> QED BY <1>0, <2>1, <3>2, DedupMoves, RouteMoves, PostMoves, SaveMoves, HoldMoves,
               PersistMoves, BadgeMoves, MoveFacts DEF ReaderStep
  <2>2. ASSUME NEW o \in Readers, NEW n \in Msgs, NEW live \in BOOLEAN, Arrive(o, n, live)
        PROVE  rd'[r] = rd[r] \/ rd'[r].at = "dedup"
    BY <1>0, <2>2 DEF Arrive, Readings
  <2> QED BY Steps, <1>0, <1>1, <2>1, <2>2, QuietReaders
<1>2. CASE rd[r] # Idle
  <2>1. CASE rd'[r] = rd[r]  BY <2>1
  <2>2. CASE Route(r)  BY <1>0, <2>2, RouteMoves, MoveFacts
  <2>3. CASE Hold(r) \/ PersistHeld(r)  BY <1>0, <2>3, HoldMoves, PersistMoves, MoveFacts
  <2>4. ~Dedup(r) /\ ~PostToChat(r) /\ ~SavePost(r) /\ ~Badge(r)
    BY <1>0, DedupMoves, PostMoves, SaveMoves, BadgeMoves, MoveFacts
  <2> QED BY <1>2, <2>1, <2>2, <2>3, <2>4, ReaderKinds DEF ReaderStep
<1> QED BY <1>1, <1>2

LEMMA UiKeepsPeer ==
    ASSUME Shape, UiStep
    PROVE  ui # Idle /\ ui.p \in Peers /\ (ui' = Idle \/ (ui' # Idle /\ ui'.p = ui.p))
<1>0. Uis /\ Lists /\ Idle.at = "idle"  BY DEF Shape, Idle
<1>1. ui # Idle /\ ui.p \in Peers  BY UiBusy DEF UiWorks
<1>2. ui' = Idle \/ (ui' \in UiWorks /\ ui'.p = ui.p)
  BY <1>0, UnkeyMoves, KeyMoves, SwitchMoves, TakeMoves, FlushMoves, ClearBadgeMoves,
     DeleteMoves, SaveFlushedMoves, ReopenMoves, DropHeldMoves, DropBadgeMoves,
     DropPendingMoves DEF UiStep, UiAt
<1>3. ui' \in UiWorks => ui' # Idle  BY <1>0 DEF UiWorks, UiStages
<1> QED BY <1>1, <1>2, <1>3

LEMMA ApartStep ==
    ASSUME Shape, ThreadInv, Apart, [Next]_vars
    PROVE  Apart'
<1>0. Uis /\ Readings  BY DEF Shape
<1> SUFFICES ASSUME ui' # Idle, ui'.p \notin blurred', NEW r \in Readers,
                    rd'[r].at \in {"hold", "persist", "badge"}, Sender[rd'[r].m] = ui'.p
             PROVE  FALSE
  BY DEF Apart, HoldsFor
<1>1. ~Crash  BY DEF Crash
<1>2. CASE (\E p \in Peers : ActivatePeer(p)) \/ ClearHistory
  <2>1. PICK p : Blur(p) /\ ui'.p = p /\ rd' = rd
    BY <1>2, ActivateMoves, ClearMoves DEF ActivatePeer, ClearHistory
  <2>2. HoldsFor(p)  BY <2>1 DEF HoldsFor
  <2> QED BY <2>1, <2>2 DEF Blur
<1>3. CASE ~(\E p \in Peers : ActivatePeer(p)) /\ ~ClearHistory
  <2>1. blurred' = blurred  BY <1>1, <1>3, BlurKinds
  <2>2. ui # Idle /\ ui'.p = ui.p
    BY Steps, <1>1, <1>3, UiKeepsPeer, QuietUi
  <2>3. ~HoldsFor(ui.p) /\ ui.p = current  BY <2>1, <2>2 DEF Apart, ThreadInv, UiInv
  <2> QED BY <1>1, <2>2, <2>3, HolderKinds DEF HoldsFor
<1> QED BY <1>2, <1>3

\* What a reader's step does to the readers that are still to bump a badge.
LEMMA BadgingSame ==
    ASSUME NEW r \in Readers, NEW m \in Msgs, \A o \in Readers : o # r => rd'[o] = rd[o],
           r \in Badging(m) <=> (rd'[r].at \in {"persist", "badge"} /\ rd'[r].m = m)
    PROVE  Badging(m)' = Badging(m)
BY DEF Badging

LEMMA BadgingHold ==
    ASSUME Readings, NEW r \in Readers, Hold(r), NEW m \in Msgs, IsFiniteSet(Badging(m))
    PROVE  /\ IsFiniteSet(Badging(m)')
           /\ rd[r].m # m => Badging(m)' = Badging(m)
           /\ rd[r].m = m => Cardinality(Badging(m)') = Cardinality(Badging(m)) + 1
<1>1. /\ rd[r].at = "hold" /\ rd'[r].at = "persist" /\ rd'[r].m = rd[r].m
      /\ \A o \in Readers : o # r => rd'[o] = rd[o]
  BY HoldMoves, MoveFacts
<1>2. rd[r].m # m => Badging(m)' = Badging(m)  BY <1>1, BadgingSame DEF Badging
<1>3. CASE rd[r].m = m
  <2>1. Badging(m)' = Badging(m) \cup {r} /\ r \notin Badging(m)  BY <1>1, <1>3 DEF Badging
  <2> QED BY <1>3, <2>1, FS_AddElement
<1> QED BY <1>2, <1>3

LEMMA BadgingBadge ==
    ASSUME Readings, NEW r \in Readers, Badge(r), NEW m \in Msgs, IsFiniteSet(Badging(m))
    PROVE  /\ IsFiniteSet(Badging(m)')
           /\ rd[r].m # m => Badging(m)' = Badging(m)
           /\ rd[r].m = m => Cardinality(Badging(m)') = Cardinality(Badging(m)) - 1
<1>1. /\ rd[r].at = "badge" /\ rd'[r].at = "idle"
      /\ \A o \in Readers : o # r => rd'[o] = rd[o]
  BY BadgeMoves, MoveFacts
<1>2. rd[r].m # m => Badging(m)' = Badging(m)  BY <1>1, BadgingSame DEF Badging
<1>3. CASE rd[r].m = m
  <2>1. Badging(m)' = Badging(m) \ {r} /\ r \in Badging(m)  BY <1>1, <1>3 DEF Badging
  <2> QED BY <1>3, <2>1, FS_RemoveElement
<1> QED BY <1>2, <1>3

LEMMA BadgeByReader ==
    ASSUME Shape, ThreadInv, BadgeInv, NEW r \in Readers, ReaderStep(r), NEW m \in Msgs
    PROVE  BadgeOf(m)'
<1>0. /\ Readings /\ Lists /\ ui' = ui /\ IsFiniteSet(Badging(m)) /\ Covered(m)
      /\ pending[m] \in Nat /\ unread[m] \in Nat /\ savedHeld[m] \in Nat
      /\ Cardinality(Badging(m)) \in Nat
      /\ Sender[m] \notin blurred => IF Busy(m) THEN Emptying(m) ELSE Even(m)
      /\ Busy(m)' <=> Busy(m)
  BY QuietUi, FS_CardinalityType DEF Shape, Lists, BadgeInv, BadgeOf, Busy
<1>1. blurred' = blurred
  BY DEF ReaderStep, Dedup, Route, PostToChat, SavePost, Hold, PersistHeld, Badge, ghosts
\* A reader for m's sender does not meet the UI there.
<1>2. ASSUME Busy(m), Sender[m] \notin blurred, rd[r].at \in {"hold", "persist", "badge"}
      PROVE  Sender[rd[r].m] # Sender[m] /\ rd[r].m # m
  BY <1>2 DEF BadgeInv, Apart, HoldsFor, Busy
<1>3. CASE Hold(r)
  <2>1. /\ rd[r].m \in Msgs /\ rd[r].at = "hold" /\ rd'[r].at = "persist" /\ rd'[r].m = rd[r].m
        /\ \A o \in Readers : o # r => rd'[o] = rd[o]
    BY <1>0, <1>3, HoldMoves, MoveFacts
  <2>2. /\ pending'[m] = IF rd[r].m = m THEN pending[m] + 1 ELSE pending[m]
        /\ unread'[m] = unread[m]
        /\ savedHeld'[m] = IF Sender[m] = Sender[rd[r].m] THEN 0 ELSE savedHeld[m]
    BY <1>0, <1>3, <2>1, WithoutType DEF Hold, Lists
  <2>3. IsFiniteSet(Badging(m)')  BY <1>0, <1>3, BadgingHold
  <2>4. Covered(m)'  BY <1>0, <2>2 DEF Covered
  <2>5. ASSUME Even(m) PROVE Even(m)'
    <3>1. unread'[m] + Cardinality(Badging(m)') = pending'[m]
      BY <1>0, <1>3, <2>2, <2>5, BadgingHold DEF Even
    <3>2. Rewritten(m)' \/ savedHeld'[m] = pending'[m]
      BY <2>1, <2>2, <2>5 DEF Even, Rewritten
    <3> QED BY <3>1, <3>2 DEF Even
  <2>6. ASSUME Busy(m), Sender[m] \notin blurred, Emptying(m) PROVE Emptying(m)'
    BY <1>0, <1>2, <2>1, <2>2, <2>6 DEF Emptying
  <2> QED BY <1>0, <1>1, <2>3, <2>4, <2>5, <2>6 DEF BadgeOf
<1>4. CASE PersistHeld(r)
  <2>1. /\ rd[r].m \in Msgs /\ rd[r].at = "persist" /\ rd'[r].at = "badge" /\ rd'[r].m = rd[r].m
        /\ \A o \in Readers : o # r => rd'[o] = rd[o]
    BY <1>0, <1>4, PersistMoves, MoveFacts
  <2>2. /\ pending' = pending /\ unread' = unread
        /\ savedHeld'[m] = IF Sender[m] = Sender[rd[r].m] THEN pending[m] ELSE savedHeld[m]
    BY <1>4 DEF PersistHeld
  <2>3. Badging(m)' = Badging(m)  BY <2>1, BadgingSame DEF Badging
  <2>4. Covered(m)'  BY <1>0, <2>2 DEF Covered
  <2>5. ASSUME Even(m) PROVE Even(m)'
    BY <2>1, <2>2, <2>3, <2>5 DEF Even, Rewritten
  <2>6. ASSUME Busy(m), Sender[m] \notin blurred, Emptying(m) PROVE Emptying(m)'
    BY <1>0, <1>2, <2>1, <2>2, <2>6 DEF Emptying
  <2> QED BY <1>0, <1>1, <2>3, <2>4, <2>5, <2>6 DEF BadgeOf
<1>5. CASE Badge(r)
  <2>1. /\ rd[r].m \in Msgs /\ rd[r].at = "badge" /\ rd'[r].at = "idle"
        /\ \A o \in Readers : o # r => rd'[o] = rd[o]
    BY <1>0, <1>5, BadgeMoves, MoveFacts
  <2>2. /\ unread'[m] = IF rd[r].m = m THEN unread[m] + 1 ELSE unread[m]
        /\ pending'[m] = pending[m] /\ savedHeld'[m] = savedHeld[m]
    BY <1>0, <1>5, <2>1 DEF Badge, Lists, stored
  <2>3. IsFiniteSet(Badging(m)')  BY <1>0, <1>5, BadgingBadge
  <2>4. Covered(m)'  BY <1>0, <2>2 DEF Covered
  <2>5. ASSUME Even(m) PROVE Even(m)'
    <3>1. unread'[m] + Cardinality(Badging(m)') = pending'[m]
      BY <1>0, <1>5, <2>2, <2>5, BadgingBadge DEF Even
    <3>2. Rewritten(m)' \/ savedHeld'[m] = pending'[m]
      BY <2>1, <2>2, <2>5 DEF Even, Rewritten
    <3> QED BY <3>1, <3>2 DEF Even
  <2>6. ASSUME Busy(m), Sender[m] \notin blurred, Emptying(m) PROVE Emptying(m)'
    BY <1>0, <1>2, <2>1, <2>2, <2>6 DEF Emptying
  <2> QED BY <1>0, <1>1, <2>3, <2>4, <2>5, <2>6 DEF BadgeOf
<1>6. CASE Dedup(r) \/ Route(r) \/ PostToChat(r) \/ SavePost(r)
  <2>1. /\ rd[r].at \notin {"persist", "badge"} /\ rd'[r].at \notin {"persist", "badge"}
        /\ \A o \in Readers : o # r => rd'[o] = rd[o]
    BY <1>0, <1>6, DedupMoves, RouteMoves, PostMoves, SaveMoves, MoveFacts
  <2>2. Badging(m)' = Badging(m)  BY <2>1, BadgingSame DEF Badging
  <2>3. unread' = unread /\ pending' = pending /\ savedHeld' = savedHeld
    BY <1>6 DEF Dedup, Route, PostToChat, SavePost, stored
  <2>4. Covered(m)'  BY <1>0, <2>3 DEF Covered
  <2>5. (Even(m) => Even(m)') /\ (Emptying(m) => Emptying(m)')
    BY <1>0, <2>1, <2>2, <2>3 DEF Even, Emptying, Rewritten
  <2> QED BY <1>0, <1>1, <2>2, <2>4, <2>5 DEF BadgeOf
<1> QED BY <1>3, <1>4, <1>5, <1>6 DEF ReaderStep

\* The UI leaves the lists of other peers alone.
LEMMA UiMinds ==
    ASSUME Shape, UiStep, NEW m \in Msgs, ui.p # Sender[m]
    PROVE  unread'[m] = unread[m] /\ pending'[m] = pending[m] /\ savedHeld'[m] = savedHeld[m]
<1>0. Lists  BY DEF Shape
<1>1. CASE TakeHeld \/ DropHeld
  BY <1>0, <1>1, WithoutType DEF TakeHeld, DropHeld, Lists, stored
<1>2. CASE ClearBadge \/ DropBadge
  BY <1>0, <1>2, WithoutType DEF ClearBadge, DropBadge, Lists, stored
<1>3. CASE DeletePending \/ DropPending
  BY <1>0, <1>3, WithoutType DEF DeletePending, DropPending, Lists
<1> QED BY <1>1, <1>2, <1>3
        DEF UiStep, DeletePeerKey, WritePeerKey, SwitchDialogue, FlushOne, SaveFlushed,
            ReopenCleared, stored

LEMMA BadgeByUi ==
    ASSUME Shape, ThreadInv, BadgeInv, UiStep, NEW m \in Msgs
    PROVE  BadgeOf(m)'
<1>0. /\ Uis /\ Lists /\ ui # Idle /\ ui \in UiWorks /\ Idle.at = "idle"
      /\ pending[m] \in Nat /\ unread[m] \in Nat /\ savedHeld[m] \in Nat
      /\ IsFiniteSet(Badging(m)) /\ Covered(m)
      /\ Sender[m] \notin blurred => IF Busy(m) THEN Emptying(m) ELSE Even(m)
  BY UiBusy DEF Shape, Lists, BadgeInv, BadgeOf, Idle
<1>1. rd' = rd /\ blurred' = blurred /\ Badging(m)' = Badging(m) /\ (Rewritten(m)' <=> Rewritten(m))
  BY QuietReaders, GhostsKept DEF Badging, Rewritten, ghosts
<1>2. CASE ui.p # Sender[m]
  <2>1. ~Busy(m) /\ ~Busy(m)'  BY <1>2, UiKeepsPeer DEF Busy
  <2>2. unread'[m] = unread[m] /\ pending'[m] = pending[m] /\ savedHeld'[m] = savedHeld[m]
    BY <1>2, UiMinds
  <2>3. Covered(m)'  BY <1>0, <2>1, <2>2 DEF Covered
  <2>4. Even(m) => Even(m)'  BY <1>1, <2>2 DEF Even
  <2> QED BY <1>0, <1>1, <2>1, <2>3, <2>4 DEF BadgeOf
<1>3. CASE ui.p = Sender[m]
  <2>0. Busy(m)  BY <1>0, <1>3 DEF Busy
  <2>1. Sender[m] \notin blurred => Emptying(m)  BY <1>0, <2>0
  <2>2. Sender[m] \notin blurred => Cardinality(Badging(m)) = 0
    <3>1. Sender[m] \notin blurred => Badging(m) = {}
      BY <1>0, <1>3 DEF BadgeInv, Apart, HoldsFor, Badging
    <3> QED BY <3>1, FS_EmptySet
  <2>3. ASSUME ui' = Idle, savedHeld'[m] <= pending'[m], pending'[m] \in Nat, savedHeld'[m] \in Nat,
               Sender[m] \notin blurred => pending'[m] = 0 /\ unread'[m] = 0
        PROVE  BadgeOf(m)'
    <3>1. ~Busy(m)' /\ Covered(m)'  BY <2>3 DEF Busy, Covered
    <3>2. Sender[m] \notin blurred => Even(m)'  BY <1>1, <2>2, <2>3 DEF Even
    <3> QED BY <1>0, <1>1, <3>1, <3>2 DEF BadgeOf
  <2>4. ASSUME ui' # Idle, ui'.p = ui.p, Covered(m)', Sender[m] \notin blurred => Emptying(m)'
        PROVE  BadgeOf(m)'
    <3>1. Busy(m)'  BY <1>3, <2>4 DEF Busy
    <3> QED BY <1>0, <1>1, <2>4, <3>1 DEF BadgeOf
  <2>5. CASE DeletePeerKey \/ WritePeerKey \/ SwitchDialogue \/ ReopenCleared
    <3>1. unread' = unread /\ pending' = pending /\ savedHeld' = savedHeld
      BY <2>5 DEF DeletePeerKey, WritePeerKey, SwitchDialogue, ReopenCleared, stored
    <3>2. /\ ui.at \in {"key", "rekey", "set", "reset"}
          /\ ui'.at \in {"rekey", "set", "take", "drop"} /\ ui'.p = ui.p
      BY <1>0, <2>5, UnkeyMoves, KeyMoves, SwitchMoves, ReopenMoves DEF UiAt
    <3>3. Covered(m)'  BY <1>0, <3>1, <3>2 DEF Covered
    <3>4. Emptying(m)' /\ ui' # Idle  BY <1>0, <3>2 DEF Emptying
    <3> QED BY <2>4, <3>2, <3>3, <3>4
  <2>6. CASE TakeHeld
    <3>1. /\ ui.at = "take" /\ ui'.at = "flush" /\ ui'.p = ui.p
          /\ ui'.had = (Only(pending, ui.p) # Nothing) /\ ui' \in UiWorks
      BY <1>0, <2>6, TakeMoves
    <3>2. unread' = unread /\ savedHeld' = savedHeld /\ pending'[m] = 0
      BY <1>0, <1>3, <2>6, WithoutType DEF TakeHeld, stored, Lists
    <3>3. savedHeld[m] <= pending[m]  BY <1>0, <3>1 DEF Covered
    <3>4. ui'.had \/ pending[m] = 0
      <4>1. Only(pending, ui.p)[m] = pending[m]  BY <1>0, <1>3, OnlyType DEF Lists
      <4>2. Nothing[m] = 0  BY NothingType
      <4> QED BY <3>1, <4>1, <4>2
    <3>5. ui' # Idle /\ Busy(m)'  BY <1>0, <1>3, <3>1 DEF Busy
    <3>6. Covered(m)'  BY <1>0, <3>1, <3>2, <3>3, <3>4, <3>5 DEF Covered
    <3>7. Emptying(m)'  BY <3>1, <3>2 DEF Emptying
    <3> QED BY <2>4, <3>1, <3>5, <3>6, <3>7
  <2>7. CASE \E n \in Msgs : FlushOne(n)
    <3>1. unread' = unread /\ pending' = pending /\ savedHeld' = savedHeld
      BY <2>7 DEF FlushOne, stored
    <3>2. ui.at = "flush" /\ ui'.at = "flush" /\ ui'.p = ui.p /\ ui'.had = ui.had
      BY <1>0, <2>7, FlushMoves
    <3>3. ui' # Idle /\ Busy(m)'  BY <1>0, <1>3, <3>2 DEF Busy
    <3>4. Covered(m)'  BY <1>0, <3>1, <3>2, <3>3 DEF Covered
    <3>5. Emptying(m) => Emptying(m)'  BY <3>1, <3>2 DEF Emptying
    <3> QED BY <2>1, <2>4, <3>2, <3>3, <3>4, <3>5
  <2>8. CASE ClearBadge
    <3>1. /\ ui.at = "flush"
          /\ \/ ui.had /\ ui'.at = "forget" /\ ui'.p = ui.p
             \/ ~ui.had /\ ui' = Idle
      BY <1>0, <2>8, ClearBadgeMoves DEF UiAt
    <3>2. pending' = pending /\ savedHeld' = savedHeld /\ unread'[m] = 0
      BY <1>0, <1>3, <2>8, WithoutType DEF ClearBadge, stored, Lists
    <3>3. CASE ui' = Idle
      <4>1. savedHeld[m] <= pending[m]  BY <1>0, <3>1, <3>3 DEF Covered
      <4> QED BY <1>0, <2>1, <2>3, <3>1, <3>2, <3>3, <4>1 DEF Emptying
    <3>4. CASE ui' # Idle
      <4>1. ui'.at = "forget" /\ ui'.p = ui.p /\ Busy(m)'  BY <1>3, <3>1, <3>4 DEF Busy
      <4>2. Covered(m)'  BY <4>1 DEF Covered
      <4>3. Emptying(m) => Emptying(m)'  BY <3>1, <3>2, <4>1 DEF Emptying
      <4> QED BY <2>1, <2>4, <3>4, <4>1, <4>2, <4>3
    <3> QED BY <3>3, <3>4
  <2>9. CASE DeletePending
    <3>1. ui.at = "forget" /\ ui'.at = "resave" /\ ui'.p = ui.p
      BY <1>0, <2>9, DeleteMoves DEF UiAt
    <3>2. pending' = pending /\ unread' = unread /\ savedHeld'[m] = 0
      BY <1>0, <1>3, <2>9, WithoutType DEF DeletePending, Lists
    <3>3. Covered(m)' /\ ui' # Idle  BY <1>0, <3>1, <3>2 DEF Covered
    <3>4. Emptying(m) => Emptying(m)'  BY <3>1, <3>2 DEF Emptying
    <3> QED BY <2>1, <2>4, <3>1, <3>3, <3>4
  <2>10. CASE SaveFlushed
    <3>1. unread' = unread /\ pending' = pending /\ savedHeld' = savedHeld
      BY <2>10 DEF SaveFlushed, stored
    <3>2. ui.at = "resave" /\ ui' = Idle  BY <1>0, <2>10, SaveFlushedMoves
    <3>3. savedHeld[m] <= pending[m]  BY <1>0, <3>2 DEF Covered
    <3> QED BY <1>0, <2>1, <2>3, <3>1, <3>2, <3>3 DEF Emptying
  <2>11. CASE DropHeld
    <3>1. ui.at = "drop" /\ ui'.at = "unbadge" /\ ui'.p = ui.p
      BY <1>0, <2>11, DropHeldMoves DEF UiAt
    <3>2. pending'[m] = 0  BY <1>0, <1>3, <2>11, WithoutType DEF DropHeld, Lists
    <3>3. Busy(m)' /\ ui' # Idle  BY <1>0, <1>3, <3>1 DEF Busy
    <3>4. Covered(m)' /\ Emptying(m)'  BY <3>1, <3>2, <3>3 DEF Covered, Emptying
    <3> QED BY <2>4, <3>1, <3>3, <3>4
  <2>12. CASE DropBadge
    <3>1. ui.at = "unbadge" /\ ui'.at = "undict" /\ ui'.p = ui.p
      BY <1>0, <2>12, DropBadgeMoves DEF UiAt
    <3>2. pending' = pending /\ unread'[m] = 0
      BY <1>0, <1>3, <2>12, WithoutType DEF DropBadge, Lists
    <3>3. Busy(m)' /\ ui' # Idle  BY <1>0, <1>3, <3>1 DEF Busy
    <3>4. Covered(m)'  BY <3>1, <3>3 DEF Covered
    <3>5. Emptying(m) => Emptying(m)'  BY <3>1, <3>2 DEF Emptying
    <3> QED BY <2>1, <2>4, <3>1, <3>3, <3>4, <3>5
  <2>13. CASE DropPending
    <3>1. ui.at = "undict" /\ ui' = Idle  BY <1>0, <2>13, DropPendingMoves
    <3>2. pending' = pending /\ unread' = unread /\ savedHeld'[m] = 0
      BY <1>0, <1>3, <2>13, WithoutType DEF DropPending, Lists
    <3> QED BY <1>0, <2>1, <2>3, <3>1, <3>2 DEF Emptying
  <2> QED BY <2>5, <2>6, <2>7, <2>8, <2>9, <2>10, <2>11, <2>12, <2>13 DEF UiStep
<1> QED BY <1>2, <1>3

LEMMA BadgeStep ==
    ASSUME Shape, ThreadInv, BadgeInv, [Next]_vars
    PROVE  BadgeInv'
<1>0. Readings /\ Uis /\ Lists /\ Idle.at = "idle"  BY DEF Shape, Idle
<1>00. Apart'  BY ApartStep DEF BadgeInv
<1> SUFFICES ASSUME NEW m \in Msgs PROVE BadgeOf(m)'
  BY <1>00 DEF BadgeInv
<1>1. /\ IsFiniteSet(Badging(m)) /\ Covered(m)
      /\ Sender[m] \notin blurred => IF Busy(m) THEN Emptying(m) ELSE Even(m)
  BY DEF BadgeInv, BadgeOf
<1>2. ASSUME UNCHANGED <<pending, unread, savedHeld, ui, blurred>>, Badging(m)' = Badging(m),
             Rewritten(m)' <=> Rewritten(m)
      PROVE  BadgeOf(m)'
  <2>1. Covered(m)' /\ (Busy(m)' <=> Busy(m)) /\ (Even(m) => Even(m)') /\ (Emptying(m) => Emptying(m)')
    BY <1>1, <1>2 DEF Covered, Busy, Even, Emptying
  <2> QED BY <1>1, <1>2, <2>1 DEF BadgeOf
<1>3. ASSUME NEW r \in Readers, NEW n \in Msgs, NEW live \in BOOLEAN, Arrive(r, n, live)
      PROVE  BadgeOf(m)'
  <2>1. /\ rd[r].at = "idle" /\ rd'[r].at = "dedup" /\ \A o \in Readers : o # r => rd'[o] = rd[o]
    BY <1>0, <1>3 DEF Arrive, Readings
  <2>2. Badging(m)' = Badging(m)  BY <2>1, BadgingSame DEF Badging
  <2>3. Rewritten(m)' <=> Rewritten(m)  BY <2>1 DEF Rewritten
  <2> QED BY <1>2, <1>3, <2>2, <2>3 DEF Arrive, stored
<1>4. ASSUME Serve \/ DeleteDialogue \/ UNCHANGED vars PROVE BadgeOf(m)'
  <2>1. UNCHANGED <<pending, unread, savedHeld, ui, rd, blurred>>
    BY <1>4 DEF Serve, ServeAdd, ServeSave, ServeSet, DeleteDialogue, vars, stored, ghosts
  <2>2. Badging(m)' = Badging(m) /\ (Rewritten(m)' <=> Rewritten(m))
    BY <2>1 DEF Badging, Rewritten
  <2> QED BY <1>2, <2>1, <2>2
<1>5. ASSUME NEW p, Blur(p), ui = Idle, ui' # Idle, ui'.p = p, ui'.at \in {"key", "reset"},
             UNCHANGED <<rd, unread, pending, savedHeld>>
      PROVE  BadgeOf(m)'
  <2>1. Badging(m)' = Badging(m) /\ (Rewritten(m)' <=> Rewritten(m))
    BY <1>5 DEF Badging, Rewritten
  <2>2. ~Busy(m) /\ savedHeld[m] <= pending[m]  BY <1>1, <1>5 DEF Covered, Busy
  <2>3. Covered(m)' /\ Emptying(m)'  BY <1>5, <2>2 DEF Covered, Emptying
  <2>4. ASSUME ~Busy(m)', Sender[m] \notin blurred' PROVE Even(m)'
    <3>1. Sender[m] # p  BY <1>5, <2>4 DEF Busy
    <3>2. Sender[m] \notin blurred  BY <1>5, <2>4, <3>1 DEF Blur
    <3> QED BY <1>1, <1>5, <2>1, <2>2, <3>2 DEF Even
  <2> QED BY <1>1, <2>1, <2>3, <2>4 DEF BadgeOf
<1>6. ASSUME (\E p \in Peers : ActivatePeer(p)) \/ ClearHistory PROVE BadgeOf(m)'
  <2>1. UNCHANGED <<rd, unread, pending, savedHeld>>
    BY <1>6 DEF ActivatePeer, ClearHistory, stored
  <2>2. PICK p : Blur(p) /\ ui'.p = p
    BY <1>6, ActivateMoves, ClearMoves DEF ActivatePeer, ClearHistory
  <2>3. ui = Idle /\ ui'.at \in {"key", "reset"} /\ ui' # Idle
    BY <1>0, <1>6, ActivateMoves, ClearMoves
  <2> QED BY <1>5, <2>1, <2>2, <2>3
<1>7. ASSUME Crash PROVE BadgeOf(m)'
  <2>1. Badging(m)' = {}  BY <1>7 DEF Crash, Badging, Idle
  <2>2. unread' = savedHeld /\ pending' = savedHeld /\ savedHeld' = savedHeld /\ ui' = Idle
    BY <1>7 DEF Crash, stored
  <2>3. savedHeld[m] \in Nat /\ Cardinality(Badging(m)') = 0  BY <1>0, <2>1, FS_EmptySet DEF Lists
  <2>4. Even(m)' /\ Covered(m)' /\ ~Busy(m)'  BY <2>2, <2>3 DEF Even, Covered, Busy
  <2> QED BY <2>1, <2>4, FS_EmptySet DEF BadgeOf
<1>8. ASSUME NEW r \in Readers, ReaderStep(r) PROVE BadgeOf(m)'
  BY <1>8, BadgeByReader
<1> QED BY Steps, <1>3, <1>4, <1>6, <1>7, <1>8, BadgeByUi

LEMMA BadgeInit == Init => BadgeInv
<1> SUFFICES ASSUME Init PROVE BadgeInv  OBVIOUS
<1>1. Apart  BY DEF Init, Apart
<1>2. ASSUME NEW m \in Msgs PROVE BadgeOf(m)
  <2>1. Badging(m) = {}  BY DEF Init, Badging, Idle
  <2>2. Even(m)  BY <2>1, NothingType, FS_EmptySet DEF Init, Even
  <2>3. Covered(m) /\ ~Busy(m)  BY NothingType DEF Init, Covered, Busy
  <2> QED BY <2>1, <2>2, <2>3, FS_EmptySet DEF BadgeOf
<1> QED BY <1>1, <1>2 DEF BadgeInv

LEMMA BadgeInvHolds == Spec => [](Shape /\ ThreadInv /\ BadgeInv)
BY ShapeInit, ThreadInit, BadgeInit, ShapeStep, ThreadStep, BadgeStep, PTL DEF Spec

\* shared.pending, shared.unread and PENDING_DICT are written in steps of their
\* own, by the readers and by activate_peer and clear_history_interactive; once
\* everything is at rest the three agree, after any number of crashes, for every
\* peer that was not opened or cleared while a delivery was holding a message for
\* it, and for one that was from its next undisturbed opening, clear or restart.
THEOREM BadgeIsTrueHolds == Spec => []BadgeIsTrue
<1>1. Shape /\ ThreadInv /\ BadgeInv => BadgeIsTrue
  <2> SUFFICES ASSUME Shape, BadgeInv, Quiet, NEW p \in Peers \ blurred
               PROVE  Only(unread, p) = Only(pending, p) /\ Only(pending, p) = Only(savedHeld, p)
    BY DEF BadgeIsTrue
  <2>1. ASSUME NEW m \in Msgs, Sender[m] = p
        PROVE  unread[m] = pending[m] /\ pending[m] = savedHeld[m]
    <3>1. Even(m)  BY <2>1 DEF BadgeInv, BadgeOf, Busy, Quiet
    <3>2. Badging(m) = {} /\ ~Rewritten(m)  BY DEF Quiet, Badging, Rewritten, Idle
    <3>3. unread[m] \in Nat  BY DEF Shape, Lists
    <3> QED BY <3>1, <3>2, <3>3, FS_EmptySet DEF Even
  <2> QED BY <2>1 DEF Only
<1> QED BY <1>1, BadgeInvHolds, PTL

-----------------------------------------------------------------------------
(* A cleared message stays cleared.                                        *)

Clean(p) == From(p) \cap raced = {}
HasSet(q) == \E j \in 1..Len(q) : q[j].op = "set"
\* The chat server switches before it saves.
Guarded(q) == \A i \in 1..Len(q) : q[i] = Save => \E j \in 1..i : q[j].op = "set"

\* Between a clear and the reopening of the thread nothing can be saved.
Still(m) ==
    ui.at = "reset" /\ ui.p = Sender[m] =>
        queue = <<>> /\ \A r \in Readers : rd[r].at \notin {"post", "save"}
\* What was on screen before the clear is dropped before it can be saved.
Fenced(m) ==
    shown = Sender[m] /\ open[m] > 0 =>
        Guarded(queue) /\ (HasSet(queue) \/ (ui.at = "reset" /\ ui.p = Sender[m]))
NoAdd(m) == \A i \in 1..Len(queue) : queue[i] # Add(m)
Unheld(m) ==
    /\ ui.at = "flush" => ui.batch[m] = 0
    /\ pending[m] > 0 => ui.at \in {"reset", "drop"} /\ ui.p = Sender[m]
    /\ savedHeld[m] > 0 => ui.at \in Clearing /\ ui.p = Sender[m]
Gone(m) ==
    /\ saved[Sender[m]][m] = 0 /\ Fenced(m) /\ NoAdd(m) /\ Unheld(m)
    /\ ~Accepted(m)
GoneInv ==
    \A m \in Msgs : Clean(Sender[m]) => Still(m) /\ (m \in wiped => Gone(m))

LEMMA FenceSent ==
    ASSUME Shape, NEW op \in Ops, Sent(op)
    PROVE  /\ HasSet(queue) => HasSet(queue')
           /\ op.op = "set" => HasSet(queue')
           /\ Guarded(queue) /\ (op # Save \/ HasSet(queue)) => Guarded(queue')
<1>1. /\ Len(queue') = Len(queue) + 1 /\ Len(queue) \in Nat /\ queue'[Len(queue) + 1] = op
      /\ \A k \in 1..Len(queue) : queue'[k] = queue[k]
  BY AppendProperties DEF Shape, Queue, Sent
<1>2. HasSet(queue) => HasSet(queue')  BY <1>1 DEF HasSet
<1>3. op.op = "set" => HasSet(queue')
  <2>1. Len(queue) + 1 \in 1..Len(queue')  BY <1>1
  <2> QED BY <1>1, <2>1 DEF HasSet
<1>4. ASSUME Guarded(queue), op # Save \/ HasSet(queue), NEW i \in 1..Len(queue'), queue'[i] = Save
      PROVE  \E j \in 1..i : queue'[j].op = "set"
  <2>1. CASE i \in 1..Len(queue)
    <3>1. PICK j \in 1..i : queue[j].op = "set"  BY <1>1, <1>4, <2>1 DEF Guarded
    <3>2. j \in 1..Len(queue)  BY <1>1, <2>1
    <3> QED BY <1>1, <3>1, <3>2
  <2>2. CASE i = Len(queue) + 1
    <3>1. HasSet(queue)  BY <1>1, <1>4, <2>2
    <3>2. PICK j \in 1..Len(queue) : queue[j].op = "set"  BY <3>1 DEF HasSet
    <3>3. j \in 1..i /\ queue'[j] = queue[j]  BY <1>1, <2>2
    <3> QED BY <3>2, <3>3
  <2> QED BY <1>1, <2>1, <2>2
<1> QED BY <1>2, <1>3, <1>4 DEF Guarded

LEMMA FenceServed ==
    ASSUME Shape, Serve, queue[1].op # "set"
    PROVE  (HasSet(queue) => HasSet(queue')) /\ (Guarded(queue) => Guarded(queue'))
<1>1. /\ Len(queue') = Len(queue) - 1 /\ Len(queue) \in Nat /\ Len(queue) > 0
      /\ \A i \in 1..(Len(queue) - 1) : queue'[i] = queue[i + 1]
  BY ServeFacts
<1>2. ASSUME NEW j \in 1..Len(queue), queue[j].op = "set"
      PROVE  j - 1 \in 1..Len(queue') /\ queue'[j - 1].op = "set"
  <2>1. j # 1  BY <1>2
  <2>2. j - 1 \in 1..(Len(queue) - 1) /\ (j - 1) + 1 = j  BY <1>1, <2>1
  <2> QED BY <1>1, <1>2, <2>2
<1>3. HasSet(queue) => HasSet(queue')  BY <1>2 DEF HasSet
<1>4. ASSUME Guarded(queue), NEW i \in 1..Len(queue'), queue'[i] = Save
      PROVE  \E j \in 1..i : queue'[j].op = "set"
  <2>1. i + 1 \in 1..Len(queue) /\ queue[i + 1] = Save  BY <1>1, <1>4
  <2>2. PICK j \in 1..(i + 1) : queue[j].op = "set"  BY <1>4, <2>1 DEF Guarded
  <2>3. j \in 1..Len(queue)  BY <1>1, <2>1
  <2>4. j - 1 \in 1..Len(queue') /\ queue'[j - 1].op = "set"  BY <1>2, <2>2, <2>3
  <2>5. j - 1 \in 1..i  BY <2>2, <2>4
  <2> QED BY <2>4, <2>5
<1> QED BY <1>3, <1>4 DEF Guarded

\* A clear of m's thread with nothing of it raced met an empty queue and no
\* delivery under way.
LEMMA CleanClear ==
    ASSUME ClearHistory, NEW m \in Msgs, Sender[m] = current, Clean(Sender[m])'
    PROVE  queue = <<>> /\ Delivering = {}
<1>1. m \notin raced'  BY DEF Clean, From
<1> QED BY <1>1 DEF ClearHistory, From

LEMMA StillStep ==
    ASSUME Shape, ThreadInv, [Next]_vars, NEW m \in Msgs, Clean(Sender[m])', Still(m)
    PROVE  Still(m)'
<1>0. Uis /\ Readings /\ Lists /\ Idle.at = "idle"  BY DEF Shape, Idle
<1> SUFFICES ASSUME ui'.at = "reset", ui'.p = Sender[m]
             PROVE  queue' = <<>> /\ \A r \in Readers : rd'[r].at \notin {"post", "save"}
  BY DEF Still
<1>1. CASE ClearHistory
  <2>1. Sender[m] = current /\ rd' = rd /\ queue' = queue
    BY <1>1, ClearMoves DEF ClearHistory, chat
  <2>2. queue = <<>> /\ Delivering = {}  BY <1>1, <2>1, CleanClear
  <2> QED BY <2>1, <2>2, DeliveringFacts
<1>2. CASE ~ClearHistory
  <2>1. ~Crash /\ ~UiStep
    <3>1. ~Crash  BY <1>0 DEF Crash
    <3>2. UiStep => ui'.at # "reset"
      BY <1>0, UnkeyMoves, KeyMoves, SwitchMoves, TakeMoves, FlushMoves, ClearBadgeMoves,
         DeleteMoves, SaveFlushedMoves, ReopenMoves, DropHeldMoves, DropBadgeMoves,
         DropPendingMoves DEF UiStep, UiAt
    <3> QED BY <3>1, <3>2
  <2>2. ui' = ui
    <3>1. \A p \in Peers : ~ActivatePeer(p)  BY ActivateMoves
    <3> QED BY Steps, <1>2, <2>1, <3>1, QuietUi
  <2>3. /\ ui # Idle /\ ui.p = current
        /\ queue = <<>> /\ \A r \in Readers : rd[r].at \notin {"post", "save"}
    BY <1>0, <2>2 DEF Still, ThreadInv, UiInv
  <2>4. queue' = <<>>
    <3>1. ~Serve  BY <2>3, ServeFacts
    <3>2. ASSUME NEW op \in Ops, Sent(op) PROVE FALSE
      BY <1>0, <2>1, <2>3, <3>2, SendSource, PostMoves, SaveMoves DEF UiStep
    <3> QED BY <2>1, <2>3, <3>1, <3>2, QueueKinds DEF Untouched
  <2>5. ASSUME NEW r \in Readers, ReaderStep(r), NEW o \in Readers
        PROVE  rd'[o].at \notin {"post", "save"}
    <3>1. CASE Route(r)
      <4>1. rd[r].m \in raced'  BY <2>3, <3>1 DEF Route
      <4>2. rd[r].m \in Msgs  BY <1>0, <3>1, RouteMoves
      <4>3. Sender[rd[r].m] # current  BY <2>2, <2>3, <4>1, <4>2 DEF Clean, From
      <4> QED BY <1>0, <2>3, <3>1, <4>3, RouteMoves, MoveFacts
    <3>2. CASE Dedup(r) \/ Hold(r) \/ PersistHeld(r) \/ Badge(r)
      BY <1>0, <2>3, <3>2, DedupMoves, HoldMoves, PersistMoves, BadgeMoves, MoveFacts
    <3>3. ~PostToChat(r) /\ ~SavePost(r)  BY <1>0, <2>3, PostMoves, SaveMoves
    <3> QED BY <2>5, <3>1, <3>2, <3>3 DEF ReaderStep
  <2>6. ASSUME NEW r \in Readers, NEW n \in Msgs, NEW live \in BOOLEAN, Arrive(r, n, live),
               NEW o \in Readers
        PROVE  rd'[o].at \notin {"post", "save"}
    BY <1>0, <2>3, <2>6 DEF Arrive, Readings
  <2>7. \A o \in Readers : rd'[o].at \notin {"post", "save"}
    BY Steps, <1>2, <2>1, <2>3, <2>5, <2>6, QuietReaders
  <2> QED BY <2>4, <2>7
<1> QED BY <1>1, <1>2

LEMMA AcceptedStep ==
    ASSUME Shape, [Next]_vars, NEW m \in Msgs, ~Accepted(m), m \in wiped'
    PROVE  ~Accepted(m)'
<1>0. Readings /\ Idle.at = "idle"  BY DEF Shape, Idle
<1> SUFFICES ASSUME NEW o \in Readers, rd'[o].at \notin {"idle", "dedup"}
             PROVE  rd'[o].m # m
  BY DEF Accepted
<1>1. CASE rd[o] = Idle
  <2>1. ASSUME NEW r \in Readers, ReaderStep(r) PROVE rd'[o] = rd[o]
    <3>1. rd[r].at # "idle"
      BY <1>0, <2>1, DedupMoves, RouteMoves, PostMoves, SaveMoves, HoldMoves, PersistMoves,
         BadgeMoves DEF ReaderStep
    <3>2. r # o  BY <1>0, <1>1, <3>1
    <3> QED BY <1>0, <2>1, <3>2, DedupMoves, RouteMoves, PostMoves, SaveMoves, HoldMoves,
               PersistMoves, BadgeMoves, MoveFacts DEF ReaderStep
  <2>2. ASSUME NEW r \in Readers, NEW n \in Msgs, NEW live \in BOOLEAN, Arrive(r, n, live)
        PROVE  rd'[o] = rd[o] \/ rd'[o].at = "dedup"
    BY <1>0, <2>2 DEF Arrive, Readings
  <2>3. Crash => rd'[o] = Idle  BY DEF Crash
  <2> QED BY Steps, <1>0, <1>1, <2>1, <2>2, <2>3, QuietReaders
<1>2. CASE rd[o] # Idle
  <2>1. ~Crash  BY <1>0 DEF Crash
  <2>2. CASE rd'[o] = rd[o]  BY <2>2 DEF Accepted
  <2>3. CASE Dedup(o)
    <3>1. rd[o].m \notin Range(recent) /\ rd'[o].m = rd[o].m
      BY <1>0, <2>3, DedupMoves, MoveFacts
    <3>2. wiped' = wiped \ {rd[o].m}  BY <2>3, <3>1 DEF Dedup
    <3> QED BY <3>1, <3>2
  <2>4. CASE Route(o) \/ PostToChat(o) \/ Hold(o) \/ PersistHeld(o)
    BY <1>0, <2>4, RouteMoves, PostMoves, HoldMoves, PersistMoves, MoveFacts DEF Accepted
  <2>5. ~SavePost(o) /\ ~Badge(o)  BY <1>0, SaveMoves, BadgeMoves, MoveFacts
  <2> QED BY <1>2, <2>1, <2>2, <2>3, <2>4, <2>5, ReaderKinds DEF ReaderStep
<1> QED BY <1>1, <1>2

LEMMA NoAddStep ==
    ASSUME Shape, [Next]_vars, ~Crash, NEW m \in Msgs, NoAdd(m), Unheld(m), ~Accepted(m)
    PROVE  NoAdd(m)'
<1>0. Uis /\ Readings  BY DEF Shape
<1>1. CASE Untouched  BY <1>1 DEF Untouched, NoAdd
<1>2. ASSUME NEW op \in Ops, Sent(op) PROVE NoAdd(m)'
  <2>1. \A r \in Readers : ~(PostToChat(r) /\ rd[r].m = m)
    BY <1>0, PostMoves DEF Accepted
  <2>2. ~FlushOne(m)  BY <1>0, FlushMoves DEF Unheld
  <2>3. op # Add(m)  BY <1>2, <2>1, <2>2, SendSource, OpFacts
  <2>4. /\ Len(queue') = Len(queue) + 1 /\ Len(queue) \in Nat /\ queue'[Len(queue) + 1] = op
        /\ \A k \in 1..Len(queue) : queue'[k] = queue[k]
    BY <1>2, AppendProperties DEF Shape, Queue, Sent
  <2> QED BY <2>3, <2>4 DEF NoAdd
<1>3. CASE Serve
  BY <1>3, ServeFacts DEF NoAdd
<1> QED BY <1>1, <1>2, <1>3, QueueKinds

LEMMA UnheldStep ==
    ASSUME Shape, [Next]_vars, ~Crash, NEW m \in Msgs, Unheld(m), ~Accepted(m)
    PROVE  Unheld(m)'
<1>0. /\ Uis /\ Readings /\ Lists /\ Idle.at = "idle"
      /\ pending[m] \in Nat /\ savedHeld[m] \in Nat
  BY DEF Shape, Lists, Idle
<1>1. ui'.at = "flush" => ui'.batch[m] = 0
  <2>1. CASE TakeHeld
    <3>1. ui.at = "take" /\ ui'.batch = Only(pending, ui.p)  BY <1>0, <2>1, TakeMoves
    <3>2. pending[m] = 0  BY <1>0, <3>1 DEF Unheld
    <3> QED BY <1>0, <3>1, <3>2, OnlyType DEF Lists
  <2>2. ASSUME NEW n \in Msgs, FlushOne(n) PROVE ui'.batch[m] = 0
    <3>1. n # m /\ ui.at = "flush"  BY <1>0, <2>2, FlushMoves DEF Unheld
    <3> QED BY <1>0, <2>2, <3>1, FlushMoves DEF Unheld
  <2>3. CASE UiStep /\ ~TakeHeld /\ ~(\E n \in Msgs : FlushOne(n))
    BY <1>0, <2>3, UnkeyMoves, KeyMoves, SwitchMoves, ClearBadgeMoves, DeleteMoves,
       SaveFlushedMoves, ReopenMoves, DropHeldMoves, DropBadgeMoves, DropPendingMoves
       DEF UiStep, UiAt
  <2>4. CASE ui' = ui  BY <2>4 DEF Unheld
  <2>5. (\E p \in Peers : ActivatePeer(p)) \/ ClearHistory => ui'.at # "flush"
    BY ActivateMoves, ClearMoves
  <2> QED BY Steps, <2>1, <2>2, <2>3, <2>4, <2>5, QuietUi
<1>2. \A r \in Readers : Hold(r) => rd[r].m # m  BY <1>0, HoldMoves DEF Accepted
<1>3. ASSUME pending'[m] > 0 PROVE ui'.at \in {"reset", "drop"} /\ ui'.p = Sender[m]
  <2>1. pending'[m] = pending[m]  BY <1>2, <1>3, PendingKinds
  <2>2. ui.at \in {"reset", "drop"} /\ ui.p = Sender[m] /\ ui # Idle
    BY <1>0, <1>3, <2>1 DEF Unheld
  <2>3. CASE ui' = ui  BY <2>2, <2>3
  <2>4. CASE UiStep
    <3>1. CASE ReopenCleared  BY <1>0, <2>2, <3>1, ReopenMoves DEF UiAt
    <3>2. CASE DropHeld
      BY <1>0, <1>3, <2>2, <3>2, WithoutType DEF DropHeld, Lists
    <3> QED BY <1>0, <2>2, <2>4, <3>1, <3>2, UnkeyMoves, KeyMoves, SwitchMoves, TakeMoves,
               FlushMoves, ClearBadgeMoves, DeleteMoves, SaveFlushedMoves, DropBadgeMoves,
               DropPendingMoves DEF UiStep
  <2> QED BY <2>2, <2>3, <2>4, UiKinds
<1>4. ASSUME savedHeld'[m] > 0 PROVE ui'.at \in Clearing /\ ui'.p = Sender[m]
  <2>1. CASE savedHeld'[m] = savedHeld[m]
    <3>1. ui.at \in Clearing /\ ui.p = Sender[m] /\ ui # Idle
      BY <1>0, <1>4, <2>1 DEF Unheld, Clearing
    <3>2. CASE ui' = ui  BY <3>1, <3>2
    <3>3. CASE UiStep
      <4>1. CASE DropPending
        BY <1>0, <1>4, <3>1, <4>1, WithoutType DEF DropPending, Lists
      <4> QED BY <1>0, <3>1, <3>3, <4>1, UnkeyMoves, KeyMoves, SwitchMoves, TakeMoves,
                 FlushMoves, ClearBadgeMoves, DeleteMoves, SaveFlushedMoves, ReopenMoves,
                 DropHeldMoves, DropBadgeMoves DEF UiStep, UiAt, Clearing
    <3> QED BY <3>1, <3>2, <3>3, UiKinds
  <2>2. CASE savedHeld'[m] = pending'[m]
    BY <1>3, <1>4, <2>2 DEF Clearing
  <2>3. savedHeld'[m] # 0  BY <1>4
  <2> QED BY <2>1, <2>2, <2>3, HeldKinds
<1> QED BY <1>1, <1>3, <1>4 DEF Unheld

LEMMA FencedStep ==
    ASSUME Shape, [Next]_vars, ~Crash, NEW m \in Msgs, Clean(Sender[m])', Still(m), Gone(m)
    PROVE  Fenced(m)' /\ saved'[Sender[m]][m] = 0
<1>0. /\ Uis /\ Readings /\ Lists /\ Threads /\ Idle.at = "idle" /\ Sender[m] \in Dialogues
      /\ Fenced(m) /\ saved[Sender[m]][m] = 0
  BY SenderType DEF Shape, Idle, Gone
<1>1. ASSUME ui.at = "reset", ui.p = Sender[m]
      PROVE  ReopenCleared \/ (ui' = ui /\ (Untouched \/ Crash))
  <2>1. ui # Idle  BY <1>0, <1>1
  <2>2. UiStep => ReopenCleared
    BY <1>0, <1>1, UnkeyMoves, KeyMoves, SwitchMoves, TakeMoves, FlushMoves, ClearBadgeMoves,
       DeleteMoves, SaveFlushedMoves, DropHeldMoves, DropBadgeMoves, DropPendingMoves DEF
       UiStep
  <2>3. ~Serve  BY <1>1, ServeFacts DEF Still
  <2>4. ASSUME NEW op \in Ops, Sent(op) PROVE ReopenCleared
    BY <1>0, <1>1, <2>2, <2>4, SendSource, PostMoves, SaveMoves DEF Still, UiStep
  <2> QED BY <2>1, <2>2, <2>3, <2>4, UiKinds, QueueKinds
<1>2. saved'[Sender[m]][m] = 0
  <2>1. CASE ServeSave
    <3>0. queue # <<>> /\ Head(queue).op = "save"  BY <2>1 DEF ServeSave
    <3>1. queue[1] = Save /\ 1 \in 1..Len(queue)
      BY <2>1, <3>0, ServeFacts, OpFacts DEF Serve
    <3>2. ~Guarded(queue)
      <4>1. Save.op # "set"  BY OpFacts
      <4>2. \A j \in 1..1 : queue[j].op # "set"  BY <3>1, <4>1
      <4> QED BY <3>1, <4>2 DEF Guarded
    <3>3. shown = Sender[m] => ~(open[m] > 0)  BY <1>0, <3>2 DEF Fenced
    <3>4. open[m] \in Nat  BY <1>0 DEF Lists
    <3> QED BY <1>0, <2>1, <3>3, <3>4 DEF ServeSave, Lists, Threads
  <2>2. CASE ClearHistory
    BY <1>0, <2>2, NothingType DEF ClearHistory, Lists, Dialogues
  <2>3. CASE DeleteDialogue
    BY <1>0, <2>3, NothingType DEF DeleteDialogue, Lists, Threads
  <2> QED BY <1>0, <2>1, <2>2, <2>3, SavedKinds
<1>3. Fenced(m)'
  <2> SUFFICES ASSUME shown' = Sender[m], open'[m] > 0
               PROVE  Guarded(queue') /\ (HasSet(queue') \/ (ui'.at = "reset" /\ ui'.p = Sender[m]))
    BY DEF Fenced
  <2>1. CASE Untouched
    <3>1. Guarded(queue) /\ (HasSet(queue) \/ (ui.at = "reset" /\ ui.p = Sender[m]))
      BY <1>0, <2>1 DEF Fenced, Untouched
    <3>2. CASE HasSet(queue)  BY <2>1, <3>1, <3>2 DEF Untouched
    <3>3. CASE ui.at = "reset" /\ ui.p = Sender[m]
      <4>1. ~ReopenCleared
        <5>1. ASSUME ReopenCleared PROVE FALSE
          <6>1. Sent(Set(ui.p))  BY <5>1, UiSends DEF UiStep
          <6> QED BY <2>1, <6>1, AppendProperties, <5>1, UiSends DEF Untouched, Sent, Shape,
                     Queue, UiStep
        <5> QED BY <5>1
      <4> QED BY <1>1, <2>1, <3>1, <3>3, <4>1 DEF Untouched
    <3> QED BY <3>1, <3>2, <3>3
  <2>2. ASSUME NEW op \in Ops, Sent(op)
        PROVE  Guarded(queue') /\ (HasSet(queue') \/ (ui'.at = "reset" /\ ui'.p = Sender[m]))
    <3>1. Guarded(queue) /\ (HasSet(queue) \/ (ui.at = "reset" /\ ui.p = Sender[m]))
      BY <1>0, <2>2 DEF Fenced, Sent
    <3>2. CASE HasSet(queue)  BY <2>2, <3>1, <3>2, FenceSent
    <3>3. CASE ui.at = "reset" /\ ui.p = Sender[m]
      <4>1. op.op = "set" /\ op # Save
        <5>1. \A r \in Readers : ~PostToChat(r) /\ ~SavePost(r)
          BY <1>0, <3>3, PostMoves, SaveMoves DEF Still
        <5>2. ~SaveFlushed /\ \A n \in Msgs : ~FlushOne(n)
          BY <1>0, <3>3, SaveFlushedMoves, FlushMoves
        <5> QED BY <2>2, <5>1, <5>2, SendSource, OpFacts
      <4> QED BY <2>2, <3>1, <4>1, FenceSent
    <3> QED BY <3>1, <3>2, <3>3
  <2>3. CASE ServeAdd
    <3>0. Serve  BY <2>3 DEF Serve
    <3>1. queue[1] = Add(Head(queue).m) /\ Head(queue).m \in Msgs /\ 1 \in 1..Len(queue)
      BY <2>3, <3>0, ServeFacts, OpFacts DEF ServeAdd
    <3>2. Head(queue).m # m  BY <3>1 DEF Gone, NoAdd
    <3>3. open[m] > 0 /\ shown = Sender[m]  BY <1>0, <2>3, <3>1, <3>2 DEF ServeAdd, Lists
    <3>4. queue[1].op # "set"  BY <3>1, OpFacts
    <3>5. ~(ui.at = "reset" /\ ui.p = Sender[m])  BY <3>0, ServeFacts DEF Still
    <3> QED BY <1>0, <3>0, <3>3, <3>4, <3>5, FenceServed DEF Fenced
  <2>4. CASE ServeSave
    <3>1. Serve /\ open[m] > 0 /\ shown = Sender[m]  BY <2>4 DEF ServeSave, Serve
    <3>2. queue[1].op # "set"  BY <2>4, <3>1, ServeFacts DEF ServeSave
    <3>3. ~(ui.at = "reset" /\ ui.p = Sender[m])  BY <3>1, ServeFacts DEF Still
    <3> QED BY <1>0, <3>1, <3>2, <3>3, FenceServed DEF Fenced
  <2>5. CASE ServeSet
    BY <1>0, <2>5 DEF ServeSet
  <2> QED BY <2>1, <2>2, <2>3, <2>4, <2>5, QueueKinds DEF Serve
<1> QED BY <1>2, <1>3

LEMMA GoneStep ==
    ASSUME Shape, ThreadInv, GoneInv, [Next]_vars
    PROVE  GoneInv'
<1>0. Uis /\ Readings /\ Lists /\ Threads /\ Idle.at = "idle"  BY DEF Shape, Idle
<1> SUFFICES ASSUME NEW m \in Msgs, Clean(Sender[m])'
             PROVE  Still(m)' /\ (m \in wiped' => Gone(m)')
  BY DEF GoneInv
<1>1. Clean(Sender[m])  BY RacedGrows DEF Clean
<1>2. Still(m) /\ (m \in wiped => Gone(m))  BY <1>1 DEF GoneInv
<1>3. Still(m)'  BY <1>2, StillStep
<1>4. ASSUME m \in wiped', Crash PROVE Gone(m)'
  <2>1. m \in wiped /\ ~(ui.at \in Clearing /\ ui.p = Sender[m])  BY <1>4 DEF Crash, From
  <2>2. savedHeld[m] = 0 /\ saved[Sender[m]][m] = 0
    BY <1>0, <1>2, <2>1 DEF Gone, Unheld, Lists
  <2>3. /\ queue' = <<>> /\ savedHeld' = savedHeld /\ saved' = saved /\ pending' = savedHeld
        /\ shown' = savedPeer /\ open' = saved[savedPeer] /\ ui' = Idle
        /\ \A r \in Readers : rd'[r] = Idle
    BY <1>4 DEF Crash, stored
  <2>4. Fenced(m)' /\ NoAdd(m)' /\ Unheld(m)' /\ ~Accepted(m)'
    BY <1>0, <2>2, <2>3 DEF Fenced, NoAdd, Unheld, Accepted
  <2> QED BY <2>2, <2>3, <2>4 DEF Gone
<1>5. ASSUME m \in wiped', ~Crash, m \notin wiped PROVE Gone(m)'
  <2>1. ClearHistory
    <3>1. \A r \in Readers : ~ReaderStep(r)
      BY <1>5 DEF ReaderStep, Dedup, Route, PostToChat, SavePost, Hold, PersistHeld, Badge,
         ghosts
    <3>2. ~UiStep /\ ~Serve /\ ~DeleteDialogue /\ ~UNCHANGED vars  BY <1>5, GhostsKept DEF ghosts
    <3>3. ~(\E r \in Readers, n \in Msgs, live \in BOOLEAN : Arrive(r, n, live))
          /\ ~(\E p \in Peers : ActivatePeer(p))
      BY <1>5 DEF Arrive, ActivatePeer
    <3> QED BY Steps, <1>5, <3>1, <3>2, <3>3
  <2>2. /\ Sender[m] = current /\ \A r \in Readers : rd[r].at = "route" => rd[r].m # m
        /\ rd' = rd /\ queue' = queue /\ current \in Peers
        /\ saved' = [saved EXCEPT ![current] = Nothing]
    BY <1>5, <2>1 DEF ClearHistory, From, chat
  <2>3. queue = <<>> /\ Delivering = {}  BY <2>1, <2>2, CleanClear
  <2>4. ~Accepted(m)'
    <3>1. \A r \in Readers : rd[r].at \in {"idle", "dedup", "route"}
      BY <1>0, <2>3, DeliveringFacts, ReadingFacts DEF Stages
    <3> QED BY <2>2, <3>1 DEF Accepted
  <2>5. ui'.at = "reset" /\ ui'.p = Sender[m]  BY <2>1, <2>2, ClearMoves
  <2>6. saved'[Sender[m]][m] = 0  BY <1>0, <2>2, NothingType DEF Lists, Dialogues
  <2>7. Fenced(m)' /\ NoAdd(m)' /\ Unheld(m)'
    BY <2>2, <2>3, <2>5 DEF Fenced, NoAdd, Unheld, Guarded, Clearing
  <2> QED BY <2>4, <2>6, <2>7 DEF Gone
<1>6. ASSUME m \in wiped', ~Crash, m \in wiped PROVE Gone(m)'
  <2>1. Gone(m)  BY <1>2, <1>6
  <2>2. Fenced(m)' /\ saved'[Sender[m]][m] = 0  BY <1>2, <1>6, <2>1, FencedStep
  <2>3. NoAdd(m)' /\ Unheld(m)' /\ ~Accepted(m)'
    BY <1>6, <2>1, NoAddStep, UnheldStep, AcceptedStep DEF Gone
  <2> QED BY <2>2, <2>3 DEF Gone
<1> QED BY <1>3, <1>4, <1>5, <1>6

LEMMA GoneInit == Init => GoneInv
BY DEF Init, GoneInv, Still, Idle

LEMMA GoneHolds == Spec => [](Shape /\ ThreadInv /\ GoneInv)
BY ShapeInit, ThreadInit, GoneInit, ShapeStep, ThreadStep, GoneStep, PTL DEF Spec

\* clear_history_interactive deletes the dialogue, reopens it and empties the held
\* list in steps of their own; still nothing it cleared is in the PDDB or held once
\* everything is at rest, not even what was on screen, queued or held before the
\* clear, unless a delivery or a save raced with it or a crash cut it short.
THEOREM ClearedIsGoneHolds == Spec => []ClearedIsGone
<1>1. Shape /\ ThreadInv /\ GoneInv => ClearedIsGone
  <2> SUFFICES ASSUME Shape, GoneInv, Quiet, NEW p \in Peers, From(p) \cap raced = {},
                      NEW m \in wiped \cap From(p)
               PROVE  ~Durable(m) /\ pending[m] = 0
    BY DEF ClearedIsGone
  <2>1. m \in Msgs /\ Sender[m] = p  BY DEF From
  <2>2. Gone(m)  BY <2>1 DEF GoneInv, Clean
  <2>3. pending[m] \in Nat /\ savedHeld[m] \in Nat  BY <2>1 DEF Shape, Lists
  <2>4. ui.at = "idle"  BY DEF Quiet, Idle
  <2> QED BY <2>2, <2>3, <2>4 DEF Gone, Unheld, Clearing, Durable
<1> QED BY <1>1, GoneHolds, PTL

-----------------------------------------------------------------------------
(* No message is shown more often than there was reason to.                *)

\* The places of the posts of m in queue q, and those that no switch follows.
Adds(q, m) == {i \in DOMAIN q : q[i] = Add(m)}
Late(q, m) == {i \in Adds(q, m) : \A k \in (i + 1)..Len(q) : q[k].op # "set"}
\* The readers that have accepted m and not yet passed it on.
Carrying(w, m) == w.at \in {"route", "post", "hold"} /\ w.m = m
Carriers(m) == {r \in Readers : Carrying(rd[r], m)}
\* How often m may be shown.
Budget(m) == Cardinality({m} \cap Range(recent)) + repeat[m]
\* The copies of m outside its held list.
Load(m) == Flushing(m) + Queued(m) + Posted(m) + Cardinality(Carriers(m))
\* What the thread being opened will show of m when the queue is empty.
Reach(m) == Cardinality(Late(queue, m)) + IF HasSet(queue) THEN 0 ELSE open[m]

\* A stored held copy is a copy of one that is held, flushed to the thread being
\* opened, or dropped from a thread being cleared.
HeldCopies(m) ==
    /\ ui.at \in {"flush", "forget"} /\ ui.p = Sender[m] =>
          /\ savedHeld[m] <= pending[m] + Flushing(m) + Reach(m)
          /\ ~ui.had => savedHeld[m] <= pending[m]
    /\ ui.at \in {"unbadge", "undict"} /\ ui.p = Sender[m] =>
          savedHeld[m] + Load(m) <= Budget(m)
    /\ ui.at \notin {"flush", "forget", "unbadge", "undict"} \/ ui.p # Sender[m] =>
          savedHeld[m] <= pending[m]
Counted(m) == IsFiniteSet(Copies(m)) /\ IsFiniteSet(Carriers(m))
DupFree(m) == Counted(m) /\ pending[m] + Load(m) <= Budget(m) /\ HeldCopies(m)
DupInv == repeat \in [Msgs -> Nat] /\ \A m \in Msgs : DupFree(m)

LEMMA AddsFinite ==
    ASSUME NEW q \in Seq(Ops), NEW m
    PROVE  /\ IsFiniteSet(Adds(q, m)) /\ IsFiniteSet(Late(q, m))
           /\ Cardinality(Adds(q, m)) \in Nat /\ Cardinality(Late(q, m)) \in Nat
           /\ Cardinality(Late(q, m)) <= Cardinality(Adds(q, m))
<1>1. DOMAIN q = 1..Len(q) /\ Len(q) \in Nat  OBVIOUS
<1>2. IsFiniteSet(1..Len(q))  BY <1>1, FS_Interval
<1>3. Adds(q, m) \in SUBSET (1..Len(q))  BY <1>1 DEF Adds
<1>4. IsFiniteSet(Adds(q, m))  BY <1>2, <1>3, FS_Subset
<1>5. Late(q, m) \in SUBSET Adds(q, m)  BY DEF Late
<1>6. IsFiniteSet(Late(q, m)) /\ Cardinality(Late(q, m)) <= Cardinality(Adds(q, m))
  BY <1>4, <1>5, FS_Subset
<1> QED BY <1>4, <1>6, FS_CardinalityType

LEMMA AddsAppend ==
    ASSUME NEW q \in Seq(Ops), NEW op \in Ops, NEW m \in Msgs
    PROVE  LET n == Cardinality(Adds(q, m))
               l == Cardinality(Late(q, m))
               a == Append(q, op)
           IN  /\ Cardinality(Adds(a, m)) = IF op = Add(m) THEN n + 1 ELSE n
               /\ op.op # "set" =>
                     /\ Cardinality(Late(a, m)) = IF op = Add(m) THEN l + 1 ELSE l
                     /\ HasSet(a) <=> HasSet(q)
<1> DEFINE a == Append(q, op)
           e == Len(q) + 1
<1>1. /\ a \in Seq(Ops) /\ Len(a) = e /\ Len(q) \in Nat /\ a[e] = op
      /\ DOMAIN q = 1..Len(q) /\ DOMAIN a = 1..e
      /\ \A i \in 1..Len(q) : a[i] = q[i]
  BY AppendProperties
<1>2. /\ IsFiniteSet(Adds(q, m)) /\ IsFiniteSet(Late(q, m))
      /\ e \notin Adds(q, m) /\ e \notin Late(q, m)
  <2>1. e \notin 1..Len(q)  BY <1>1
  <2>2. e \notin Adds(q, m) /\ e \notin Late(q, m)  BY <1>1, <2>1 DEF Adds, Late
  <2> QED BY <2>2, AddsFinite
<1> HIDE DEF a
<1>3. /\ op = Add(m) => Adds(a, m) = Adds(q, m) \cup {e}
      /\ op # Add(m) => Adds(a, m) = Adds(q, m)
  BY <1>1 DEF Adds
<1>4. ASSUME op.op # "set" PROVE HasSet(a) <=> HasSet(q)
  BY <1>1, <1>4 DEF HasSet
<1>5. ASSUME op.op # "set"
      PROVE  /\ op = Add(m) => Late(a, m) = Late(q, m) \cup {e}
             /\ op # Add(m) => Late(a, m) = Late(q, m)
  <2>1. ASSUME NEW i \in 1..Len(q)
        PROVE  (\A k \in (i + 1)..e : a[k].op # "set") <=> (\A k \in (i + 1)..Len(q) : q[k].op # "set")
    BY <1>1, <1>5
  <2>2. \A k \in (e + 1)..e : a[k].op # "set"  BY <1>1
  <2>3. Adds(q, m) \subseteq 1..Len(q)  BY <1>1 DEF Adds
  <2> QED BY <1>1, <1>2, <1>3, <2>1, <2>2, <2>3 DEF Late
<1>6. Cardinality(Adds(a, m)) = IF op = Add(m) THEN Cardinality(Adds(q, m)) + 1
                                ELSE Cardinality(Adds(q, m))
  BY <1>2, <1>3, FS_AddElement
<1>7. ASSUME op.op # "set"
      PROVE  Cardinality(Late(a, m)) = IF op = Add(m) THEN Cardinality(Late(q, m)) + 1
                                       ELSE Cardinality(Late(q, m))
  BY <1>2, <1>5, <1>7, FS_AddElement
<1> QED BY <1>4, <1>6, <1>7 DEF a

\* A set of places behind the first, counted from the next place on.
LEMMA Shifted ==
    ASSUME NEW n \in Nat, NEW S \in SUBSET (2..n), NEW T \in SUBSET (1..(n - 1)),
           \A i \in 1..(n - 1) : i \in T <=> i + 1 \in S
    PROVE  Cardinality(T) = Cardinality(S)
<1> DEFINE f == [i \in S |-> i - 1]
<1>1. f \in [S -> T]
  <2>1. ASSUME NEW i \in S PROVE i - 1 \in T
    <3>1. i \in 2..n /\ i - 1 \in 1..(n - 1) /\ (i - 1) + 1 = i  OBVIOUS
    <3> QED BY <3>1
  <2> QED BY <2>1
<1>2. \A i, j \in S : f[i] = f[j] => i = j
  <2> SUFFICES ASSUME NEW i \in S, NEW j \in S, f[i] = f[j] PROVE i = j  OBVIOUS
  <2>1. i \in Int /\ j \in Int /\ i - 1 = j - 1  OBVIOUS
  <2> QED BY <2>1
<1>3. \A j \in T : \E i \in S : f[i] = j
  <2> TAKE j \in T
  <2>1. j + 1 \in S /\ (j + 1) - 1 = j  OBVIOUS
  <2> QED BY <2>1
<1>4. f \in Bijection(S, T)
  BY <1>1, <1>2, <1>3 DEF Bijection, Injection, Surjection, IsInjective
<1>5. ExistsBijection(S, T)  BY <1>4 DEF ExistsBijection
<1>6. IsFiniteSet(S)
  <2>1. IsFiniteSet(2..n)  BY FS_Interval
  <2> QED BY <2>1, FS_Subset
<1> QED BY <1>5, <1>6, FS_Bijection

LEMMA AddsTail ==
    ASSUME NEW q \in Seq(Ops), q # <<>>, NEW m \in Msgs
    PROVE  LET n == Cardinality(Adds(q, m))
               l == Cardinality(Late(q, m))
               t == Tail(q)
           IN  /\ Cardinality(Adds(t, m)) = IF Head(q) = Add(m) THEN n - 1 ELSE n
               /\ Cardinality(Late(t, m)) = IF Head(q) = Add(m) /\ ~HasSet(q) THEN l - 1 ELSE l
               /\ Head(q).op # "set" => (HasSet(t) <=> HasSet(q))
               /\ Head(q).op = "set" => HasSet(q)
<1> DEFINE t == Tail(q)
           n == Len(q)
<1>1. /\ n \in Nat /\ n > 0 /\ Head(q) = q[1] /\ Len(t) = n - 1 /\ t \in Seq(Ops)
      /\ DOMAIN q = 1..n /\ DOMAIN t = 1..(n - 1)
      /\ \A k \in 1..(n - 1) : t[k] = q[k + 1]
  BY HeadTailProperties
<1> HIDE DEF t, n
<1>2. /\ IsFiniteSet(Adds(q, m)) /\ IsFiniteSet(Late(q, m))
  BY AddsFinite
<1>3. \A i \in 1..(n - 1) : i \in Adds(t, m) <=> i + 1 \in Adds(q, m)
  <2> TAKE i \in 1..(n - 1)
  <2>1. i + 1 \in 1..n /\ t[i] = q[i + 1]  BY <1>1
  <2> QED BY <1>1, <2>1 DEF Adds
<1>4. \A i \in 1..(n - 1) : i \in Late(t, m) <=> i + 1 \in Late(q, m)
  <2> TAKE i \in 1..(n - 1)
  <2>1. (\A k \in (i + 1)..(n - 1) : t[k].op # "set") <=> (\A k \in ((i + 1) + 1)..n : q[k].op # "set")
    <3>1. ASSUME \A k \in (i + 1)..(n - 1) : t[k].op # "set", NEW k \in ((i + 1) + 1)..n
          PROVE  q[k].op # "set"
      <4>1. k - 1 \in (i + 1)..(n - 1) /\ k - 1 \in 1..(n - 1) /\ (k - 1) + 1 = k  BY <1>1
      <4> QED BY <1>1, <3>1, <4>1
    <3>2. ASSUME \A k \in ((i + 1) + 1)..n : q[k].op # "set", NEW k \in (i + 1)..(n - 1)
          PROVE  t[k].op # "set"
      <4>1. k + 1 \in ((i + 1) + 1)..n /\ k \in 1..(n - 1)  BY <1>1
      <4> QED BY <1>1, <3>2, <4>1
    <3> QED BY <3>1, <3>2
  <2> QED BY <1>1, <1>3, <2>1 DEF Late, n
<1>5. /\ Adds(t, m) \in SUBSET (1..(n - 1)) /\ Adds(q, m) \ {1} \in SUBSET (2..n)
      /\ Late(t, m) \in SUBSET (1..(n - 1)) /\ Late(q, m) \ {1} \in SUBSET (2..n)
  BY <1>1 DEF Adds, Late
<1>6. /\ \A i \in 1..(n - 1) : i \in Adds(t, m) <=> i + 1 \in Adds(q, m) \ {1}
      /\ \A i \in 1..(n - 1) : i \in Late(t, m) <=> i + 1 \in Late(q, m) \ {1}
  BY <1>1, <1>3, <1>4
<1>7. /\ Cardinality(Adds(t, m)) = Cardinality(Adds(q, m) \ {1})
      /\ Cardinality(Late(t, m)) = Cardinality(Late(q, m) \ {1})
  <2>1. \A S \in SUBSET (2..n), T \in SUBSET (1..(n - 1)) :
           (\A i \in 1..(n - 1) : i \in T <=> i + 1 \in S) => Cardinality(T) = Cardinality(S)
    BY <1>1, Shifted
  <2> QED BY <1>5, <1>6, <2>1
<1>8. 1 \in Adds(q, m) <=> Head(q) = Add(m)  BY <1>1 DEF Adds
<1>9. 1 \in Late(q, m) <=> Head(q) = Add(m) /\ ~HasSet(q)
  <2>1. Head(q) = Add(m) => q[1].op # "set"  BY <1>1, OpFacts
  <2>2. q[1].op # "set" => (HasSet(q) <=> \E k \in (1 + 1)..n : q[k].op = "set")
    BY <1>1 DEF HasSet, n
  <2> QED BY <1>1, <1>8, <2>1, <2>2 DEF Late, n
<1>10. Head(q).op # "set" => (HasSet(t) <=> HasSet(q))
  <2>1. ASSUME HasSet(t) PROVE HasSet(q)
    <3>1. PICK j \in 1..(n - 1) : t[j].op = "set"  BY <1>1, <2>1 DEF HasSet
    <3>2. j + 1 \in 1..n /\ q[j + 1].op = "set"  BY <1>1, <3>1
    <3> QED BY <3>2 DEF HasSet, n
  <2>2. ASSUME HasSet(q), Head(q).op # "set" PROVE HasSet(t)
    <3>1. PICK j \in 1..n : q[j].op = "set"  BY <2>2 DEF HasSet, n
    <3>2. j # 1  BY <1>1, <2>2, <3>1
    <3>3. j - 1 \in 1..(n - 1) /\ (j - 1) + 1 = j  BY <1>1, <3>2
    <3> QED BY <1>1, <3>1, <3>3 DEF HasSet
  <2> QED BY <2>1, <2>2
<1>11. Head(q).op = "set" => HasSet(q)  BY <1>1 DEF HasSet, n
<1>12. /\ Cardinality(Adds(t, m)) = IF Head(q) = Add(m) THEN Cardinality(Adds(q, m)) - 1
                                     ELSE Cardinality(Adds(q, m))
       /\ Cardinality(Late(t, m)) = IF Head(q) = Add(m) /\ ~HasSet(q) THEN Cardinality(Late(q, m)) - 1
                                     ELSE Cardinality(Late(q, m))
  BY <1>2, <1>7, <1>8, <1>9, FS_RemoveElement
<1> QED BY <1>10, <1>11, <1>12 DEF t

\* The copies in the dialogues, one by one.
LEMMA CopyOf ==
    ASSUME NEW m, NEW c
    PROVE  c \in Copies(m) <=> \E t \in Dialogues : \E k \in 1..Shows(t, m) : c = <<t, k>>
BY DEF Copies

LEMMA FewerCopies ==
    ASSUME Shape, Shape', NEW m \in Msgs, IsFiniteSet(Copies(m)),
           \A t \in Dialogues : Shows(t, m)' <= Shows(t, m)
    PROVE  IsFiniteSet(Copies(m)') /\ Posted(m)' <= Posted(m)
<1>1. \A t \in Dialogues : Shows(t, m) \in Nat /\ Shows(t, m)' \in Nat
  BY DEF Shape, Lists, Shows
<1>2. Copies(m)' \in SUBSET Copies(m)
  <2>1. ASSUME NEW c \in Copies(m)' PROVE c \in Copies(m)
    <3>1. PICK t \in Dialogues : \E k \in 1..(Shows(t, m)') : c = <<t, k>>
      BY <2>1 DEF Copies
    <3>2. \E k \in 1..Shows(t, m) : c = <<t, k>>  BY <1>1, <3>1
    <3> QED BY <3>2, CopyOf
  <2> QED BY <2>1
<1> QED BY <1>2, FS_Subset DEF Posted

LEMMA SameCopies ==
    ASSUME NEW m, saved' = saved, shown' = shown, open' = open
    PROVE  Copies(m)' = Copies(m) /\ Posted(m)' = Posted(m)
BY DEF Copies, Shows, Posted

LEMMA OneMoreCopy ==
    ASSUME Shape, Shape', NEW m \in Msgs, IsFiniteSet(Copies(m)),
           saved' = saved, shown' = shown, open'[m] = open[m] + 1
    PROVE  IsFiniteSet(Copies(m)') /\ Posted(m)' = Posted(m) + 1
<1>1. \A t \in Dialogues : Shows(t, m) \in Nat /\ Shows(t, m)' \in Nat
  BY DEF Shape, Lists, Shows
<1>2. shown \in Dialogues  BY DEF Shape, Threads
<1>3. \A t \in Dialogues : Shows(t, m)' = IF t = shown THEN Shows(t, m) + 1 ELSE Shows(t, m)
  BY DEF Shows
<1> DEFINE c0 == <<shown, Shows(shown, m) + 1>>
<1>4. Copies(m)' = Copies(m) \cup {c0}
  <2>1. ASSUME NEW c \in Copies(m)' PROVE c \in Copies(m) \cup {c0}
    <3>1. PICK t \in Dialogues : \E k \in 1..(Shows(t, m)') : c = <<t, k>>
      BY <2>1 DEF Copies
    <3>2. PICK k \in 1..(Shows(t, m)') : c = <<t, k>>  BY <3>1
    <3>3. k \in 1..Shows(t, m) \/ (t = shown /\ k = Shows(shown, m) + 1)
      BY <1>1, <1>3, <3>2
    <3> QED BY <3>2, <3>3, CopyOf
  <2>2. ASSUME NEW c \in Copies(m) PROVE c \in Copies(m)'
    <3>1. PICK t \in Dialogues : \E k \in 1..Shows(t, m) : c = <<t, k>>
      BY <2>2, CopyOf
    <3>2. \E k \in 1..(Shows(t, m)') : c = <<t, k>>  BY <1>1, <1>3, <3>1
    <3> QED BY <3>2 DEF Copies
  <2>3. c0 \in Copies(m)'
    <3>1. Shows(shown, m) + 1 \in 1..(Shows(shown, m)')  BY <1>1, <1>2, <1>3
    <3> QED BY <1>2, <3>1 DEF Copies
  <2> QED BY <2>1, <2>2, <2>3
<1>5. c0 \notin Copies(m)
  <2> SUFFICES ASSUME c0 \in Copies(m) PROVE FALSE  OBVIOUS
  <2>1. PICK t \in Dialogues : \E k \in 1..Shows(t, m) : c0 = <<t, k>>  BY CopyOf
  <2>2. PICK k \in 1..Shows(t, m) : c0 = <<t, k>>  BY <2>1
  <2>3. t = shown /\ k = Shows(shown, m) + 1  BY <2>2
  <2> QED BY <1>1, <1>2, <2>2, <2>3
<1> HIDE DEF c0
<1> QED BY <1>4, <1>5, FS_AddElement DEF Posted

LEMMA Numbers ==
    ASSUME Shape, NEW m \in Msgs, Counted(m), repeat \in [Msgs -> Nat]
    PROVE  /\ pending[m] \in Nat /\ savedHeld[m] \in Nat /\ open[m] \in Nat
           /\ Flushing(m) \in Nat /\ Queued(m) \in Nat /\ Posted(m) \in Nat
           /\ Cardinality(Carriers(m)) \in Nat /\ Cardinality(Late(queue, m)) \in Nat
           /\ Cardinality(Late(queue, m)) <= Queued(m)
           /\ Queued(m) = Cardinality(Adds(queue, m))
           /\ Load(m) \in Nat /\ Reach(m) \in Nat
           /\ repeat[m] \in Nat /\ Budget(m) \in Nat
           /\ Budget(m) = (IF m \in Range(recent) THEN 1 ELSE 0) + repeat[m]
<1>1. pending[m] \in Nat /\ savedHeld[m] \in Nat /\ open[m] \in Nat /\ repeat[m] \in Nat
  BY DEF Shape, Lists
<1>2. Flushing(m) \in Nat  BY UiFacts DEF Shape, Flushing, Idle
<1>3. Queued(m) = Cardinality(Adds(queue, m))  BY DEF Queued, Adds
<1>4. /\ Queued(m) \in Nat /\ Cardinality(Late(queue, m)) \in Nat
      /\ Cardinality(Late(queue, m)) <= Queued(m)
  BY <1>3, AddsFinite DEF Shape, Queue
<1>5. Posted(m) \in Nat /\ Cardinality(Carriers(m)) \in Nat
  BY FS_CardinalityType DEF Counted, Posted
<1>6. Load(m) \in Nat  BY <1>2, <1>4, <1>5 DEF Load
<1>7. Reach(m) \in Nat  BY <1>1, <1>4 DEF Reach
<1>8. Cardinality({m} \cap Range(recent)) = IF m \in Range(recent) THEN 1 ELSE 0
  <2>1. {m} \cap Range(recent) = IF m \in Range(recent) THEN {m} ELSE {}  OBVIOUS
  <2> QED BY <2>1, FS_EmptySet, FS_Singleton
<1> QED BY <1>1, <1>2, <1>3, <1>4, <1>5, <1>6, <1>7, <1>8 DEF Budget

LEMMA CarriersMove ==
    ASSUME NEW r \in Readers, NEW m \in Msgs, IsFiniteSet(Carriers(m)),
           \A o \in Readers : o # r => rd'[o] = rd[o]
    PROVE  /\ IsFiniteSet(Carriers(m)')
           /\ Carrying(rd[r], m) = Carrying(rd'[r], m) => Carriers(m)' = Carriers(m)
           /\ Carrying(rd[r], m) /\ ~Carrying(rd'[r], m)
                 => Cardinality(Carriers(m)') = Cardinality(Carriers(m)) - 1
           /\ ~Carrying(rd[r], m) /\ Carrying(rd'[r], m)
                 => Cardinality(Carriers(m)') = Cardinality(Carriers(m)) + 1
<1>0. Carriers(m)' = {o \in Readers : Carrying(rd'[o], m)}
  BY DEF Carriers, Carrying
<1>1. ASSUME Carrying(rd[r], m) = Carrying(rd'[r], m) PROVE Carriers(m)' = Carriers(m)
  BY <1>0, <1>1 DEF Carriers
<1>2. ASSUME Carrying(rd[r], m), ~Carrying(rd'[r], m)
      PROVE  Carriers(m)' = Carriers(m) \ {r} /\ r \in Carriers(m)
  BY <1>0, <1>2 DEF Carriers
<1>3. ASSUME ~Carrying(rd[r], m), Carrying(rd'[r], m)
      PROVE  Carriers(m)' = Carriers(m) \cup {r} /\ r \notin Carriers(m)
  BY <1>0, <1>3 DEF Carriers
<1>4. Carrying(rd[r], m) \in BOOLEAN /\ Carrying(rd'[r], m) \in BOOLEAN  BY DEF Carrying
<1>5. CASE Carrying(rd[r], m) = Carrying(rd'[r], m)  BY <1>1, <1>5
<1>6. CASE Carrying(rd[r], m) /\ ~Carrying(rd'[r], m)  BY <1>2, <1>6, FS_RemoveElement
<1>7. CASE ~Carrying(rd[r], m) /\ Carrying(rd'[r], m)  BY <1>3, <1>7, FS_AddElement
<1> QED BY <1>4, <1>5, <1>6, <1>7

\* An accepted message has one more reason to be shown; no other has fewer.
LEMMA BudgetGrows ==
    ASSUME Shape, repeat \in [Msgs -> Nat], NEW n \in Msgs, n \notin Range(recent), Remember(n)
    PROVE  /\ repeat' \in [Msgs -> Nat]
           /\ \A m \in Msgs : Budget(m)' >= IF m = n THEN Budget(m) + 1 ELSE Budget(m)
<1> DEFINE ids == Append(recent, n)
           In(x, q) == IF x \in Range(q) THEN 1 ELSE 0
<1>1. /\ recent \in Seq(Msgs) /\ Recents /\ Len(recent) \in Nat
      /\ ids \in Seq(Msgs) /\ Len(ids) = Len(recent) + 1
      /\ \A i \in 1..Len(recent) : ids[i] = recent[i]
      /\ ids[Len(recent) + 1] = n
  BY AppendProperties DEF Shape, Recents
<1>2. n \in Range(recent')  BY <1>1, RememberKeeps
<1>3. \A m \in Msgs : /\ Budget(m) = In(m, recent) + repeat[m]
                      /\ Budget(m)' = In(m, recent') + repeat'[m]
  <2>1. \A m, q : Cardinality({m} \cap Range(q)) = In(m, q)
    <3> TAKE m, q
    <3>1. {m} \cap Range(q) = IF m \in Range(q) THEN {m} ELSE {}  OBVIOUS
    <3> QED BY <3>1, FS_EmptySet, FS_Singleton
  <2> QED BY <2>1 DEF Budget
<1> HIDE DEF ids
<1>4. CASE Len(ids) > MAX_RECENT
  <2>1. recent' = Tail(ids) /\ repeat' = [repeat EXCEPT ![ids[1]] = @ + 1]
    BY <1>4 DEF Remember, ids
  <2>2. Len(recent) > 0
    BY <1>1, <1>4, InboxBounds
  <2>3. ids[1] = recent[1] /\ ids[1] \in Msgs /\ ids[1] \in Range(recent) /\ ids[1] # n
    BY <1>1, <2>2 DEF Range
  <2>4. /\ repeat' \in [Msgs -> Nat]
        /\ \A m \in Msgs : repeat'[m] = IF m = ids[1] THEN repeat[m] + 1 ELSE repeat[m]
    BY <2>1, <2>3
  <2>5. ASSUME NEW m \in Range(recent), m # ids[1] PROVE m \in Range(recent')
    <3>1. PICK i \in 1..Len(recent) : recent[i] = m  BY <1>1, <2>5 DEF Range
    <3>2. i # 1  BY <1>1, <2>3, <2>5, <3>1
    <3>3. ids # <<>>  BY <1>1
    <3>4. /\ Len(Tail(ids)) = Len(recent) /\ Tail(ids) \in Seq(Msgs)
          /\ \A k \in 1..Len(recent) : Tail(ids)[k] = ids[k + 1]
      BY <1>1, <3>3, HeadTailProperties
    <3>5. i - 1 \in 1..Len(recent) /\ (i - 1) + 1 = i /\ Tail(ids)[i - 1] = m
      BY <1>1, <3>1, <3>2, <3>4
    <3>6. DOMAIN Tail(ids) = 1..Len(recent)  BY <3>4
    <3> QED BY <2>1, <3>5, <3>6 DEF Range
  <2>6. ASSUME NEW m \in Msgs
        PROVE  Budget(m)' >= IF m = n THEN Budget(m) + 1 ELSE Budget(m)
    BY <1>2, <1>3, <2>3, <2>4, <2>5
  <2> QED BY <2>4, <2>6
<1>5. CASE ~(Len(ids) > MAX_RECENT)
  <2>1. recent' = ids /\ repeat' = repeat  BY <1>5 DEF Remember, ids
  <2>2. \A m \in Range(recent) : m \in Range(recent')
    <3>1. DOMAIN recent = 1..Len(recent) /\ DOMAIN ids = 1..(Len(recent) + 1)  BY <1>1
    <3>2. ASSUME NEW i \in DOMAIN recent PROVE i \in DOMAIN ids /\ ids[i] = recent[i]
      BY <1>1, <3>1, <3>2
    <3> QED BY <2>1, <3>2 DEF Range
  <2>3. ASSUME NEW m \in Msgs
        PROVE  Budget(m)' >= IF m = n THEN Budget(m) + 1 ELSE Budget(m)
    BY <1>2, <1>3, <2>1, <2>2
  <2> QED BY <2>1, <2>3
<1> QED BY <1>4, <1>5

\* Numbers in the next state.
LEMMA NumbersLater ==
    ASSUME Shape', NEW m \in Msgs, Counted(m)', repeat' \in [Msgs -> Nat]
    PROVE  /\ Queued(m)' \in Nat /\ Posted(m)' \in Nat
           /\ Cardinality(Carriers(m)') \in Nat /\ Reach(m)' \in Nat /\ Budget(m)' \in Nat
<1>1. queue' \in Seq(Ops) /\ open'[m] \in Nat /\ repeat'[m] \in Nat
  BY DEF Shape, Queue, Lists
<1>2. Queued(m)' \in Nat
  <2>1. Queued(m)' = Cardinality(Adds(queue', m))  BY DEF Queued, Adds
  <2> QED BY <1>1, <2>1, AddsFinite
<1>3. Posted(m)' \in Nat /\ Cardinality(Carriers(m)') \in Nat
  BY FS_CardinalityType DEF Counted, Posted
<1>4. Reach(m)' \in Nat
  <2>1. Reach(m)' = Cardinality(Late(queue', m)) + IF HasSet(queue') THEN 0 ELSE open'[m]
    BY DEF Reach, Late, Adds, HasSet
  <2> QED BY <1>1, <2>1, AddsFinite
<1>5. Budget(m)' \in Nat
  <2>1. {m} \cap Range(recent') = IF m \in Range(recent') THEN {m} ELSE {}  OBVIOUS
  <2>2. Cardinality({m}) = 1 /\ Cardinality({}) = 0  BY FS_EmptySet, FS_Singleton
  <2>3. Cardinality({m} \cap Range(recent')) \in {0, 1}  BY <2>1, <2>2
  <2> QED BY <1>1, <2>3 DEF Budget
<1> QED BY <1>2, <1>3, <1>4, <1>5

LEMMA ChatStays ==
    ASSUME NEW m \in Msgs, Untouched, saved' = saved
    PROVE  /\ Copies(m)' = Copies(m) /\ Posted(m)' = Posted(m) /\ Queued(m)' = Queued(m)
           /\ Reach(m)' = Reach(m)
BY SameCopies DEF Untouched, Queued, Reach

LEMMA ChatIsSent ==
    ASSUME Shape, NEW m \in Msgs, NEW op \in Ops, Sent(op), saved' = saved
    PROVE  /\ Copies(m)' = Copies(m) /\ Posted(m)' = Posted(m)
           /\ Queued(m)' = IF op = Add(m) THEN Queued(m) + 1 ELSE Queued(m)
           /\ op.op # "set" => Reach(m)' = IF op = Add(m) THEN Reach(m) + 1 ELSE Reach(m)
<1>1. queue \in Seq(Ops) /\ queue' = Append(queue, op) /\ shown' = shown /\ open' = open
  BY DEF Shape, Queue, Sent
<1>2. Queued(m) = Cardinality(Adds(queue, m)) /\ Queued(m)' = Cardinality(Adds(queue', m))
  BY DEF Queued, Adds
<1>3. Queued(m)' = IF op = Add(m) THEN Queued(m) + 1 ELSE Queued(m)
  BY <1>1, <1>2, AddsAppend
<1>4. ASSUME op.op # "set"
      PROVE  Reach(m)' = IF op = Add(m) THEN Reach(m) + 1 ELSE Reach(m)
  <2>1. Reach(m)' = Cardinality(Late(queue', m)) + IF HasSet(queue') THEN 0 ELSE open'[m]
    BY DEF Reach, Late, Adds, HasSet
  <2>2. /\ Cardinality(Late(queue', m)) = IF op = Add(m) THEN Cardinality(Late(queue, m)) + 1
                                          ELSE Cardinality(Late(queue, m))
        /\ HasSet(queue') <=> HasSet(queue)
    BY <1>1, <1>4, AddsAppend
  <2>3. Cardinality(Late(queue, m)) \in Nat /\ open[m] \in Nat
    BY <1>1, AddsFinite DEF Shape, Lists
  <2> QED BY <1>1, <2>1, <2>2, <2>3 DEF Reach
<1> QED BY <1>1, <1>3, <1>4, SameCopies

LEMMA ChatServes ==
    ASSUME Shape, Shape', OpenCovers, Serve, NEW m \in Msgs, IsFiniteSet(Copies(m))
    PROVE  /\ IsFiniteSet(Copies(m)')
           /\ Queued(m)' + Posted(m)' <= Queued(m) + Posted(m)
           /\ Reach(m)' >= Reach(m)
<1>1. /\ queue \in Seq(Ops) /\ queue # <<>> /\ queue' = Tail(queue) /\ Head(queue) \in Ops
      /\ Lists /\ Threads
  BY ServeFacts DEF Shape
<1>2. Queued(m) = Cardinality(Adds(queue, m)) /\ Queued(m)' = Cardinality(Adds(queue', m))
  BY DEF Queued, Adds
<1>3. Queued(m)' = IF Head(queue) = Add(m) THEN Queued(m) - 1 ELSE Queued(m)
  BY <1>1, <1>2, AddsTail
<1>4. /\ Reach(m)' = Cardinality(Late(queue', m)) + IF HasSet(queue') THEN 0 ELSE open'[m]
      /\ Cardinality(Late(queue', m)) =
            IF Head(queue) = Add(m) /\ ~HasSet(queue) THEN Cardinality(Late(queue, m)) - 1
            ELSE Cardinality(Late(queue, m))
      /\ Head(queue).op # "set" => (HasSet(queue') <=> HasSet(queue))
      /\ Head(queue).op = "set" => HasSet(queue)
  <2>1. Reach(m)' = Cardinality(Late(queue', m)) + IF HasSet(queue') THEN 0 ELSE open'[m]
    BY DEF Reach, Late, Adds, HasSet
  <2> QED BY <1>1, <2>1, AddsTail
<1>5. /\ Cardinality(Late(queue, m)) \in Nat /\ open[m] \in Nat /\ open'[m] \in Nat
      /\ Posted(m) \in Nat /\ Queued(m) \in Nat
      /\ \A t \in Dialogues : saved[t][m] \in Nat
  BY <1>1, <1>2, AddsFinite, FS_CardinalityType DEF Shape, Lists, Posted
<1>6. CASE ServeAdd
  <2>1. Head(queue).op = "add" /\ Head(queue).m \in Msgs /\ Head(queue) = Add(Head(queue).m)
    BY <1>1, <1>6, OpFacts DEF ServeAdd
  <2>2. saved' = saved /\ shown' = shown /\ open' = [open EXCEPT ![Head(queue).m] = @ + 1]
    BY <1>6 DEF ServeAdd, stored
  <2>3. open'[m] = IF Head(queue) = Add(m) THEN open[m] + 1 ELSE open[m]
    BY <1>1, <2>1, <2>2, OpFacts DEF Lists
  <2>4. CASE Head(queue) = Add(m)
    <3>1. IsFiniteSet(Copies(m)') /\ Posted(m)' = Posted(m) + 1
      BY <2>2, <2>3, <2>4, OneMoreCopy
    <3>2. Reach(m)' >= Reach(m)
      BY <1>4, <1>5, <2>1, <2>3, <2>4 DEF Reach
    <3> QED BY <1>3, <1>5, <2>4, <3>1, <3>2
  <2>5. CASE Head(queue) # Add(m)
    <3>1. \A t \in Dialogues : Shows(t, m)' <= Shows(t, m)
      BY <1>5, <2>2, <2>3, <2>5 DEF Shows
    <3>2. IsFiniteSet(Copies(m)') /\ Posted(m)' <= Posted(m)  BY <3>1, FewerCopies
    <3>3. Posted(m)' \in Nat  BY <3>2, FS_CardinalityType DEF Posted
    <3>4. Reach(m)' >= Reach(m)
      BY <1>4, <1>5, <2>1, <2>3, <2>5 DEF Reach
    <3> QED BY <1>3, <1>5, <2>5, <3>2, <3>3, <3>4
  <2> QED BY <2>4, <2>5
<1>7. CASE ServeSave
  <2>1. Head(queue) # Add(m) /\ Head(queue).op # "set"  BY <1>7, OpFacts DEF ServeSave
  <2>2. saved' = [saved EXCEPT ![shown] = open] /\ shown' = shown /\ open' = open
    BY <1>7 DEF ServeSave
  <2>3. \A t \in Dialogues : Shows(t, m)' <= Shows(t, m)
    BY <1>1, <1>5, <2>2 DEF Shows, Lists, Threads
  <2>4. IsFiniteSet(Copies(m)') /\ Posted(m)' <= Posted(m)  BY <2>3, FewerCopies
  <2>5. Posted(m)' \in Nat  BY <2>4, FS_CardinalityType DEF Posted
  <2>6. Reach(m)' >= Reach(m)  BY <1>4, <1>5, <2>1, <2>2 DEF Reach
  <2> QED BY <1>3, <1>5, <2>1, <2>4, <2>5, <2>6
<1>8. CASE ServeSet
  <2>1. /\ Head(queue) # Add(m) /\ Head(queue).op = "set"
        /\ Head(queue).to \in Dialogues
    BY <1>1, <1>8, OpFacts DEF ServeSet, Dialogues
  <2>2. saved' = saved /\ shown' = Head(queue).to /\ open' = saved[Head(queue).to]
    BY <1>8 DEF ServeSet, stored
  <2>3. \A t \in Dialogues : Shows(t, m)' <= Shows(t, m)
    <3> TAKE t \in Dialogues
    <3>1. Shows(t, m)' = saved[t][m]  BY <2>2 DEF Shows
    <3>2. saved[t][m] <= Shows(t, m)  BY <1>5 DEF Shows, OpenCovers
    <3> QED BY <3>1, <3>2
  <2>4. IsFiniteSet(Copies(m)') /\ Posted(m)' <= Posted(m)  BY <2>3, FewerCopies
  <2>5. Posted(m)' \in Nat  BY <2>4, FS_CardinalityType DEF Posted
  <2>6. Reach(m)' >= Reach(m)  BY <1>4, <1>5, <2>1 DEF Reach
  <2> QED BY <1>3, <1>5, <2>1, <2>4, <2>5, <2>6
<1> QED BY <1>6, <1>7, <1>8 DEF Serve

\* The UI and the held list are where they were, and nothing is shown again for
\* nothing.
LEMMA HeldStays ==
    ASSUME Shape, Shape', NEW m \in Msgs, DupFree(m), Counted(m)',
           repeat \in [Msgs -> Nat], repeat' \in [Msgs -> Nat],
           ui' = ui, pending'[m] = pending[m], savedHeld'[m] = savedHeld[m],
           Queued(m)' + Posted(m)' + Cardinality(Carriers(m)') + Budget(m)
             <= Queued(m) + Posted(m) + Cardinality(Carriers(m)) + Budget(m)',
           Reach(m)' >= Reach(m)
    PROVE  DupFree(m)'
<1>1. /\ Flushing(m)' = Flushing(m) /\ Flushing(m) \in Nat
      /\ pending[m] \in Nat /\ savedHeld[m] \in Nat
      /\ Queued(m) \in Nat /\ Posted(m) \in Nat /\ Cardinality(Carriers(m)) \in Nat
      /\ Budget(m) \in Nat /\ Reach(m) \in Nat
  BY Numbers DEF DupFree, Flushing
<1>2. /\ Queued(m)' \in Nat /\ Posted(m)' \in Nat /\ Cardinality(Carriers(m)') \in Nat
      /\ Budget(m)' \in Nat /\ Reach(m)' \in Nat
  <2>1. Shape' /\ Counted(m)' /\ repeat' \in [Msgs -> Nat]  OBVIOUS
  <2> QED BY <2>1, NumbersLater
<1>3. Load(m)' + Budget(m) <= Load(m) + Budget(m)'
  BY <1>1, <1>2 DEF Load
<1>4. Load(m) \in Nat /\ Load(m)' \in Nat  BY <1>1, <1>2 DEF Load
<1>5. pending'[m] + Load(m)' <= Budget(m)'
  BY <1>1, <1>2, <1>3, <1>4 DEF DupFree
<1>6. HeldCopies(m)'
  BY <1>1, <1>2, <1>3, <1>4 DEF DupFree, HeldCopies
<1> QED BY <1>5, <1>6 DEF DupFree

LEMMA DupByReader ==
    ASSUME Shape, Shape', [Next]_vars, DupInv, NEW r \in Readers, ReaderStep(r), NEW m \in Msgs
    PROVE  DupFree(m)' /\ repeat' \in [Msgs -> Nat]
<1>0. /\ Readings /\ Lists /\ DupFree(m) /\ Counted(m) /\ IsFiniteSet(Carriers(m))
      /\ repeat \in [Msgs -> Nat] /\ ui' = ui
  BY QuietUi DEF Shape, DupInv, DupFree, Counted
<1>1. /\ Queued(m) \in Nat /\ Posted(m) \in Nat /\ Cardinality(Carriers(m)) \in Nat
      /\ Budget(m) \in Nat /\ Reach(m) \in Nat /\ Flushing(m) \in Nat
      /\ pending[m] \in Nat /\ savedHeld[m] \in Nat
  BY <1>0, Numbers
<1>2. saved' = saved
  BY DEF ReaderStep, Dedup, Route, PostToChat, SavePost, Hold, PersistHeld, Badge, stored
<1>3. ASSUME recent' = recent, repeat' = repeat PROVE Budget(m)' = Budget(m)
  BY <1>3 DEF Budget
<1>4. CASE Dedup(r)
  <2>1. Untouched /\ pending' = pending /\ savedHeld' = savedHeld
    BY <1>4 DEF Dedup, Untouched, chat, stored
  <2>2. /\ Copies(m)' = Copies(m) /\ Posted(m)' = Posted(m) /\ Queued(m)' = Queued(m)
        /\ Reach(m)' = Reach(m)
    BY <1>2, <2>1, ChatStays
  <2>3. rd[r].at = "dedup" /\ rd[r].m \in Msgs /\ ~Carrying(rd[r], m)
    BY <1>0, <1>4, DedupMoves DEF Carrying
  <2>4. CASE rd[r].m \in Range(recent)
    <3>1. /\ rd'[r].at = "idle" /\ \A o \in Readers : o # r => rd'[o] = rd[o]
      BY <1>0, <1>4, <2>4, DedupMoves, MoveFacts
    <3>2. ~Carrying(rd'[r], m)  BY <3>1 DEF Carrying
    <3>3. Carriers(m)' = Carriers(m)
      <4>1. Carrying(rd[r], m) = Carrying(rd'[r], m)  BY <2>3, <3>2 DEF Carrying
      <4> QED BY <1>0, <3>1, <4>1, CarriersMove
    <3>4. repeat' = repeat /\ recent' = recent  BY <1>4, <2>4 DEF Dedup
    <3>5. Counted(m)'  BY <1>0, <2>2, <3>3 DEF Counted
    <3> QED BY <1>0, <1>1, <1>3, <2>1, <2>2, <3>3, <3>4, <3>5, HeldStays
  <2>5. CASE rd[r].m \notin Range(recent)
    <3>1. /\ rd'[r].at = "route" /\ rd'[r].m = rd[r].m
          /\ \A o \in Readers : o # r => rd'[o] = rd[o]
      BY <1>0, <1>4, <2>5, DedupMoves, MoveFacts
    <3>2. Carrying(rd'[r], m) <=> rd[r].m = m  BY <3>1 DEF Carrying
    <3>3. Remember(rd[r].m)  BY <1>4, <2>5 DEF Dedup
    <3>4. /\ repeat' \in [Msgs -> Nat]
          /\ Budget(m)' >= IF m = rd[r].m THEN Budget(m) + 1 ELSE Budget(m)
      BY <1>0, <2>3, <2>5, <3>3, BudgetGrows
    <3>5. /\ IsFiniteSet(Carriers(m)')
          /\ Cardinality(Carriers(m)') = IF rd[r].m = m THEN Cardinality(Carriers(m)) + 1
                                         ELSE Cardinality(Carriers(m))
      <4>1. CASE rd[r].m = m  BY <1>0, <2>3, <3>1, <3>2, <4>1, CarriersMove
      <4>2. CASE rd[r].m # m
        <5>1. Carrying(rd[r], m) = Carrying(rd'[r], m)  BY <2>3, <3>2, <4>2 DEF Carrying
        <5> QED BY <1>0, <3>1, <4>2, <5>1, CarriersMove
      <4> QED BY <4>1, <4>2
    <3>6. Counted(m)'  BY <1>0, <2>2, <3>5 DEF Counted
    <3>7. Budget(m)' \in Nat  BY <3>4, <3>6, NumbersLater
    <3>8. Queued(m)' + Posted(m)' + Cardinality(Carriers(m)') + Budget(m)
             <= Queued(m) + Posted(m) + Cardinality(Carriers(m)) + Budget(m)'
      BY <1>1, <2>2, <3>4, <3>5, <3>7
    <3>9. Reach(m)' >= Reach(m)  BY <1>1, <2>2
    <3> QED BY <1>0, <2>1, <3>4, <3>6, <3>8, <3>9, HeldStays
  <2> QED BY <2>4, <2>5
<1>5. CASE Route(r) \/ Badge(r)
  <2>1. /\ Untouched /\ pending' = pending /\ savedHeld' = savedHeld
        /\ repeat' = repeat /\ recent' = recent
    BY <1>5 DEF Route, Badge, Untouched, chat, stored
  <2>2. /\ Copies(m)' = Copies(m) /\ Posted(m)' = Posted(m) /\ Queued(m)' = Queued(m)
        /\ Reach(m)' = Reach(m)
    BY <1>2, <2>1, ChatStays
  <2>3. Carriers(m)' = Carriers(m)
    <3>1. CASE Route(r)
      <4>1. /\ rd[r].at = "route" /\ rd'[r].at \in {"post", "hold"} /\ rd'[r].m = rd[r].m
            /\ \A o \in Readers : o # r => rd'[o] = rd[o]
        BY <1>0, <3>1, RouteMoves, MoveFacts
      <4>2. Carrying(rd[r], m) = Carrying(rd'[r], m)  BY <4>1 DEF Carrying
      <4> QED BY <1>0, <4>1, <4>2, CarriersMove
    <3>2. CASE Badge(r)
      <4>1. /\ rd[r].at = "badge" /\ rd'[r].at = "idle"
            /\ \A o \in Readers : o # r => rd'[o] = rd[o]
        BY <1>0, <3>2, BadgeMoves, MoveFacts
      <4>2. Carrying(rd[r], m) = Carrying(rd'[r], m)  BY <4>1 DEF Carrying
      <4> QED BY <1>0, <4>1, <4>2, CarriersMove
    <3> QED BY <1>5, <3>1, <3>2
  <2>4. Counted(m)'  BY <1>0, <2>2, <2>3 DEF Counted
  <2> QED BY <1>0, <1>1, <1>3, <2>1, <2>2, <2>3, <2>4, HeldStays
<1>6. CASE PostToChat(r)
  <2>1. pending' = pending /\ savedHeld' = savedHeld /\ repeat' = repeat /\ recent' = recent
    BY <1>6 DEF PostToChat, stored, ghosts
  <2>2. /\ rd[r].at = "post" /\ rd[r].m \in Msgs /\ rd'[r].at = "save"
        /\ \A o \in Readers : o # r => rd'[o] = rd[o]
    BY <1>0, <1>6, PostMoves, MoveFacts
  <2>3. Sent(Add(rd[r].m)) /\ Add(rd[r].m) \in Ops /\ Add(rd[r].m).op # "set"
    BY <1>6, ReaderSends, OpFacts
  <2>4. Add(rd[r].m) = Add(m) <=> rd[r].m = m  BY OpFacts
  <2>5. /\ Copies(m)' = Copies(m) /\ Posted(m)' = Posted(m)
        /\ Queued(m)' = IF rd[r].m = m THEN Queued(m) + 1 ELSE Queued(m)
        /\ Reach(m)' = IF rd[r].m = m THEN Reach(m) + 1 ELSE Reach(m)
    BY <1>2, <2>3, <2>4, ChatIsSent
  <2>6. /\ IsFiniteSet(Carriers(m)')
        /\ Cardinality(Carriers(m)') = IF rd[r].m = m THEN Cardinality(Carriers(m)) - 1
                                       ELSE Cardinality(Carriers(m))
    <3>1. ~Carrying(rd'[r], m) /\ (Carrying(rd[r], m) <=> rd[r].m = m)  BY <2>2 DEF Carrying
    <3>2. CASE rd[r].m = m  BY <1>0, <2>2, <3>1, <3>2, CarriersMove
    <3>3. CASE rd[r].m # m
      <4>1. Carrying(rd[r], m) = Carrying(rd'[r], m)  BY <3>1, <3>3 DEF Carrying
      <4> QED BY <1>0, <2>2, <3>3, <4>1, CarriersMove
    <3> QED BY <3>2, <3>3
  <2>7. Counted(m)'  BY <1>0, <2>5, <2>6 DEF Counted
  <2>8. Queued(m)' + Posted(m)' + Cardinality(Carriers(m)') + Budget(m)
           <= Queued(m) + Posted(m) + Cardinality(Carriers(m)) + Budget(m)'
    BY <1>1, <1>3, <2>1, <2>5, <2>6
  <2>9. Reach(m)' >= Reach(m)  BY <1>1, <2>5
  <2> QED BY <1>0, <2>1, <2>7, <2>8, <2>9, HeldStays
<1>7. CASE SavePost(r)
  <2>1. pending' = pending /\ savedHeld' = savedHeld /\ repeat' = repeat /\ recent' = recent
    BY <1>7 DEF SavePost, stored
  <2>2. /\ rd[r].at = "save" /\ rd'[r].at = "idle"
        /\ \A o \in Readers : o # r => rd'[o] = rd[o]
    BY <1>0, <1>7, SaveMoves, MoveFacts
  <2>3. Sent(Save) /\ Save \in Ops /\ Save.op # "set" /\ Save # Add(m)
    BY <1>7, ReaderSends, OpFacts
  <2>4. /\ Copies(m)' = Copies(m) /\ Posted(m)' = Posted(m) /\ Queued(m)' = Queued(m)
        /\ Reach(m)' = Reach(m)
    BY <1>2, <2>3, ChatIsSent
  <2>5. Carriers(m)' = Carriers(m)
    <3>1. Carrying(rd[r], m) = Carrying(rd'[r], m)  BY <2>2 DEF Carrying
    <3> QED BY <1>0, <2>2, <3>1, CarriersMove
  <2>6. Counted(m)'  BY <1>0, <2>4, <2>5 DEF Counted
  <2> QED BY <1>0, <1>1, <1>3, <2>1, <2>4, <2>5, <2>6, HeldStays
<1>8. CASE Hold(r)
  <2>1. Untouched /\ repeat' = repeat /\ recent' = recent
    BY <1>8 DEF Hold, Untouched, chat, ghosts
  <2>2. /\ Copies(m)' = Copies(m) /\ Posted(m)' = Posted(m) /\ Queued(m)' = Queued(m)
        /\ Reach(m)' = Reach(m) /\ Budget(m)' = Budget(m) /\ Flushing(m)' = Flushing(m)
    BY <1>0, <1>2, <1>3, <2>1, ChatStays DEF Flushing
  <2>3. /\ rd[r].at = "hold" /\ rd[r].m \in Msgs /\ rd'[r].at = "persist"
        /\ \A o \in Readers : o # r => rd'[o] = rd[o]
    BY <1>0, <1>8, HoldMoves, MoveFacts
  <2>4. /\ pending'[m] = IF rd[r].m = m THEN pending[m] + 1 ELSE pending[m]
        /\ savedHeld'[m] = IF Sender[m] = Sender[rd[r].m] THEN 0 ELSE savedHeld[m]
    BY <1>0, <1>8, <2>3, WithoutType DEF Hold, Lists
  <2>5. /\ IsFiniteSet(Carriers(m)')
        /\ Cardinality(Carriers(m)') = IF rd[r].m = m THEN Cardinality(Carriers(m)) - 1
                                       ELSE Cardinality(Carriers(m))
    <3>1. ~Carrying(rd'[r], m) /\ (Carrying(rd[r], m) <=> rd[r].m = m)  BY <2>3 DEF Carrying
    <3>2. CASE rd[r].m = m  BY <1>0, <2>3, <3>1, <3>2, CarriersMove
    <3>3. CASE rd[r].m # m
      <4>1. Carrying(rd[r], m) = Carrying(rd'[r], m)  BY <3>1, <3>3 DEF Carrying
      <4> QED BY <1>0, <2>3, <3>3, <4>1, CarriersMove
    <3> QED BY <3>2, <3>3
  <2>6. Counted(m)'  BY <1>0, <2>2, <2>5 DEF Counted
  <2>7. /\ Load(m)' = IF rd[r].m = m THEN Load(m) - 1 ELSE Load(m)
        /\ Load(m) \in Nat
    BY <1>1, <2>2, <2>5 DEF Load
  <2>8. pending'[m] + Load(m)' <= Budget(m)'
    BY <1>0, <1>1, <2>2, <2>4, <2>7 DEF DupFree
  <2>9. HeldCopies(m)'
    <3>1. CASE Sender[m] = Sender[rd[r].m]
      BY <1>0, <1>1, <2>2, <2>4, <2>7, <2>8, <3>1 DEF HeldCopies
    <3>2. CASE Sender[m] # Sender[rd[r].m]
      <4>1. rd[r].m # m  BY <3>2
      <4> QED BY <1>0, <1>1, <2>2, <2>4, <2>7, <3>2, <4>1 DEF DupFree, HeldCopies
    <3> QED BY <3>1, <3>2
  <2> QED BY <1>0, <2>1, <2>6, <2>8, <2>9 DEF DupFree
<1>9. CASE PersistHeld(r)
  <2>1. Untouched /\ repeat' = repeat /\ recent' = recent /\ pending' = pending
    BY <1>9 DEF PersistHeld, Untouched, chat, ghosts
  <2>2. /\ Copies(m)' = Copies(m) /\ Posted(m)' = Posted(m) /\ Queued(m)' = Queued(m)
        /\ Reach(m)' = Reach(m) /\ Budget(m)' = Budget(m) /\ Flushing(m)' = Flushing(m)
    BY <1>0, <1>2, <1>3, <2>1, ChatStays DEF Flushing
  <2>3. /\ rd[r].at = "persist" /\ rd'[r].at = "badge"
        /\ \A o \in Readers : o # r => rd'[o] = rd[o]
    BY <1>0, <1>9, PersistMoves, MoveFacts
  <2>4. Carriers(m)' = Carriers(m)
    <3>1. Carrying(rd[r], m) = Carrying(rd'[r], m)  BY <2>3 DEF Carrying
    <3> QED BY <1>0, <2>3, <3>1, CarriersMove
  <2>5. Counted(m)' /\ Load(m)' = Load(m) /\ Load(m) \in Nat
    BY <1>0, <1>1, <2>2, <2>4 DEF Counted, Load
  <2>6. savedHeld'[m] = pending[m] \/ savedHeld'[m] = savedHeld[m]
    BY <1>9 DEF PersistHeld
  <2>7. HeldCopies(m)'
    BY <1>0, <1>1, <2>1, <2>2, <2>5, <2>6 DEF DupFree, HeldCopies
  <2> QED BY <1>0, <2>1, <2>2, <2>5, <2>7 DEF DupFree
<1> QED BY <1>4, <1>5, <1>6, <1>7, <1>8, <1>9 DEF ReaderStep

\* One dialogue loses all its copies.
LEMMA CopiesGone ==
    ASSUME Shape, Shape', NEW m \in Msgs, IsFiniteSet(Copies(m)), NEW d \in Dialogues,
           Shows(d, m)' = 0, \A t \in Dialogues : Shows(t, m)' <= Shows(t, m)
    PROVE  Posted(m)' + Shows(d, m) <= Posted(m)
<1>1. \A t \in Dialogues : Shows(t, m) \in Nat /\ Shows(t, m)' \in Nat
  BY DEF Shape, Lists, Shows
<1> DEFINE D == {c \in Copies(m) : c[1] = d}
           f == [k \in 1..Shows(d, m) |-> <<d, k>>]
<1>2. Copies(m)' \in SUBSET (Copies(m) \ D)
  <2>1. ASSUME NEW c \in Copies(m)' PROVE c \in Copies(m) /\ c \notin D
    <3>1. PICK t \in Dialogues : \E k \in 1..(Shows(t, m)') : c = <<t, k>>
      BY <2>1 DEF Copies
    <3>2. \E k \in 1..Shows(t, m) : c = <<t, k>>  BY <1>1, <3>1
    <3>3. t # d  BY <3>1
    <3>4. c[1] = t  BY <3>1
    <3> QED BY <3>2, <3>3, <3>4, CopyOf
  <2> QED BY <2>1
<1>3. ExistsBijection(1..Shows(d, m), D)
  <2>1. f \in [1..Shows(d, m) -> D]
    <3>1. ASSUME NEW k \in 1..Shows(d, m) PROVE <<d, k>> \in D
      <4>1. <<d, k>> \in Copies(m)  BY CopyOf
      <4> QED BY <4>1
    <3> QED BY <3>1
  <2>2. \A i, j \in 1..Shows(d, m) : f[i] = f[j] => i = j  OBVIOUS
  <2>3. \A c \in D : \E k \in 1..Shows(d, m) : f[k] = c
    <3> TAKE c \in D
    <3>1. PICK t \in Dialogues : \E k \in 1..Shows(t, m) : c = <<t, k>>  BY CopyOf
    <3>2. PICK k \in 1..Shows(t, m) : c = <<t, k>>  BY <3>1
    <3>3. t = d  BY <3>2
    <3> QED BY <3>2, <3>3
  <2>4. f \in Bijection(1..Shows(d, m), D)
    BY <2>1, <2>2, <2>3 DEF Bijection, Injection, Surjection, IsInjective
  <2> QED BY <2>4 DEF ExistsBijection
<1>4. IsFiniteSet(D) /\ Cardinality(D) = Shows(d, m)
  <2>1. IsFiniteSet(1..Shows(d, m)) /\ Cardinality(1..Shows(d, m)) = Shows(d, m)
    BY <1>1, FS_Interval
  <2> QED BY <1>3, <2>1, FS_Bijection
<1>5. D \in SUBSET Copies(m)  OBVIOUS
<1> HIDE DEF D
<1>6. IsFiniteSet(Copies(m) \ D) /\ Cardinality(Copies(m) \ D) = Cardinality(Copies(m)) - Cardinality(D)
  <2>1. Copies(m) \cap D = D  BY <1>5
  <2> QED BY <2>1, FS_Difference
<1>7. Cardinality(Copies(m)') <= Cardinality(Copies(m) \ D)  BY <1>2, <1>6, FS_Subset
<1>8. /\ Cardinality(Copies(m)) \in Nat /\ Cardinality(Copies(m)') \in Nat
  <2>1. IsFiniteSet(Copies(m)')  BY <1>2, <1>6, FS_Subset
  <2> QED BY <2>1, FS_CardinalityType
<1> QED BY <1>1, <1>4, <1>6, <1>7, <1>8 DEF Posted

\* Only the thread being opened has messages in the UI's hands.
LEMMA FlushingFacts ==
    ASSUME Shape, UiInv, NEW m \in Msgs
    PROVE  Flushing(m) > 0 => ui.at = "flush" /\ ui.p = Sender[m]
<1>1. ui.at = "flush" => ui \in UiWorks /\ ui.batch[m] \in Nat
  BY UiFacts DEF Shape, Idle
<1> QED BY <1>1 DEF Flushing, UiInv

LEMMA DupByUi ==
    ASSUME Shape, Shape', ThreadInv, ThreadInv', DupInv, UiStep, NEW m \in Msgs
    PROVE  DupFree(m)' /\ repeat' \in [Msgs -> Nat]
<1>0. /\ Uis /\ Lists /\ DupFree(m) /\ Counted(m) /\ HeldCopies(m)
      /\ pending[m] + Load(m) <= Budget(m)
      /\ repeat \in [Msgs -> Nat] /\ ui # Idle /\ ui \in UiWorks
      /\ rd' = rd /\ recent' = recent /\ repeat' = repeat /\ saved' = saved
      /\ Idle.at = "idle" /\ Sender[m] \in Peers
  <2>1. recent' = recent /\ repeat' = repeat /\ saved' = saved
    BY DEF UiStep, DeletePeerKey, WritePeerKey, SwitchDialogue, TakeHeld, FlushOne,
       ClearBadge, DeletePending, SaveFlushed, ReopenCleared, DropHeld, DropBadge,
       DropPending, stored, ghosts
  <2> QED BY <2>1, UiBusy, QuietReaders, SenderType DEF Shape, DupInv, DupFree, Idle
<1>1. /\ Queued(m) \in Nat /\ Posted(m) \in Nat /\ Cardinality(Carriers(m)) \in Nat
      /\ Budget(m) \in Nat /\ Reach(m) \in Nat /\ Flushing(m) \in Nat
      /\ pending[m] \in Nat /\ savedHeld[m] \in Nat /\ Load(m) \in Nat
  BY <1>0, Numbers
<1>2. Budget(m)' = Budget(m) /\ Carriers(m)' = Carriers(m) /\ Shape'
  BY <1>0 DEF Budget, Carriers
<1>3. /\ Flushing(m) > 0 => ui.at = "flush" /\ ui.p = Sender[m]
  BY FlushingFacts DEF ThreadInv
\* The queue is left alone.
<1>4. ASSUME Untouched, Flushing(m)' = Flushing(m)
      PROVE  Counted(m)' /\ Load(m)' = Load(m) /\ Reach(m)' = Reach(m)
  <2>1. /\ Copies(m)' = Copies(m) /\ Posted(m)' = Posted(m) /\ Queued(m)' = Queued(m)
        /\ Reach(m)' = Reach(m)
    BY <1>0, <1>4, ChatStays
  <2> QED BY <1>0, <1>2, <1>4, <2>1 DEF Counted, Load
\* A message that is no post is sent.
<1>5. ASSUME NEW op \in Ops, Sent(op), op # Add(m), Flushing(m)' = Flushing(m)
      PROVE  Counted(m)' /\ Load(m)' = Load(m)
  <2>1. Copies(m)' = Copies(m) /\ Posted(m)' = Posted(m) /\ Queued(m)' = Queued(m)
    BY <1>0, <1>5, ChatIsSent
  <2> QED BY <1>0, <1>2, <1>5, <2>1 DEF Counted, Load
<1>6. ASSUME pending'[m] = pending[m], savedHeld'[m] = savedHeld[m], Load(m)' = Load(m),
             Counted(m)', savedHeld[m] <= pending[m],
             ui' = Idle \/ ui'.p # Sender[m] \/ ui'.at \notin {"flush", "forget", "unbadge", "undict"}
      PROVE  DupFree(m)'
  BY <1>0, <1>1, <1>2, <1>6 DEF DupFree, HeldCopies
<1>7. CASE DeletePeerKey \/ WritePeerKey \/ SwitchDialogue \/ ReopenCleared
  <2>1. pending' = pending /\ savedHeld' = savedHeld
    BY <1>7 DEF DeletePeerKey, WritePeerKey, SwitchDialogue, ReopenCleared, stored
  <2>2. ui.at \in {"key", "rekey", "set", "reset"} /\ ui'.at \in {"rekey", "set", "take", "drop"}
    BY <1>0, <1>7, UnkeyMoves, KeyMoves, SwitchMoves, ReopenMoves DEF UiAt
  <2>3. Flushing(m)' = Flushing(m)  BY <2>2 DEF Flushing
  <2>4. Counted(m)' /\ Load(m)' = Load(m)
    <3>1. CASE DeletePeerKey \/ WritePeerKey  BY <1>4, <2>3, <3>1, UiSends
    <3>2. CASE SwitchDialogue \/ ReopenCleared
      <4>1. Sent(Set(ui.p)) /\ Set(ui.p) \in Ops /\ Set(ui.p) # Add(m)
        BY <3>2, UiSends, OpFacts
      <4> QED BY <1>5, <2>3, <4>1
    <3> QED BY <1>7, <3>1, <3>2
  <2>5. savedHeld[m] <= pending[m]  BY <1>0, <2>2 DEF HeldCopies
  <2> QED BY <1>0, <1>6, <2>1, <2>2, <2>4, <2>5
<1>8. CASE TakeHeld
  <2>1. /\ ui.at = "take" /\ ui'.at = "flush" /\ ui'.p = ui.p
        /\ ui'.batch = Only(pending, ui.p)
        /\ ui'.had = (Only(pending, ui.p) # Nothing)
    BY <1>0, <1>8, TakeMoves
  <2>2. savedHeld' = savedHeld /\ pending' = Without(pending, ui.p) /\ Untouched
    BY <1>8, UiSends DEF TakeHeld, stored
  <2>3. /\ pending'[m] = IF ui.p = Sender[m] THEN 0 ELSE pending[m]
        /\ Flushing(m)' = IF ui.p = Sender[m] THEN pending[m] ELSE 0
        /\ Flushing(m) = 0
    BY <1>0, <2>1, <2>2, WithoutType, OnlyType DEF Lists, Flushing
  <2>4. /\ Copies(m)' = Copies(m) /\ Posted(m)' = Posted(m) /\ Queued(m)' = Queued(m)
        /\ Reach(m)' = Reach(m)
    BY <1>0, <2>2, ChatStays
  <2>5. Counted(m)'  BY <1>0, <1>2, <2>4 DEF Counted
  <2>6. pending'[m] + Load(m)' <= Budget(m)'
    <3>1. Load(m)' = Flushing(m)' + Queued(m) + Posted(m) + Cardinality(Carriers(m))
      BY <1>2, <2>4 DEF Load
    <3>2. Load(m) = Queued(m) + Posted(m) + Cardinality(Carriers(m))
      BY <1>1, <2>3 DEF Load
    <3>3. pending'[m] + Flushing(m)' = pending[m] /\ Flushing(m)' \in Nat /\ pending'[m] \in Nat
      BY <1>1, <2>3
    <3> HIDE DEF Load
    <3> QED BY <1>0, <1>1, <1>2, <3>1, <3>2, <3>3
  <2>7. HeldCopies(m)'
    <3>1. savedHeld[m] <= pending[m]  BY <1>0, <2>1 DEF HeldCopies
    <3>2. ui.p = Sender[m] => (~ui'.had => pending[m] = 0)
      <4>1. ui.p = Sender[m] => Only(pending, ui.p)[m] = pending[m]  BY <1>0, OnlyType DEF Lists
      <4> QED BY <2>1, <4>1, NothingType
    <3> QED BY <1>1, <2>1, <2>2, <2>3, <2>4, <3>1, <3>2 DEF HeldCopies
  <2> QED BY <1>0, <2>5, <2>6, <2>7 DEF DupFree
<1>9. ASSUME NEW n \in Msgs, FlushOne(n) PROVE DupFree(m)' /\ repeat' \in [Msgs -> Nat]
  <2>1. /\ ui.at = "flush" /\ ui'.at = "flush" /\ ui'.p = ui.p /\ ui'.had = ui.had
        /\ ui.batch[n] > 0 /\ ui.batch[m] \in Nat
        /\ ui'.batch[m] = IF m = n THEN ui.batch[m] - 1 ELSE ui.batch[m]
    BY <1>0, <1>9, FlushMoves DEF UiWorks
  <2>2. /\ savedHeld' = savedHeld /\ pending' = pending
        /\ Sent(Add(n)) /\ Add(n) \in Ops /\ Add(n).op # "set" /\ (Add(n) = Add(m) <=> n = m)
    BY <1>9, UiSends, OpFacts DEF FlushOne, stored
  <2>3. Flushing(m)' = IF m = n THEN Flushing(m) - 1 ELSE Flushing(m)
    BY <2>1 DEF Flushing
  <2>4. /\ Copies(m)' = Copies(m) /\ Posted(m)' = Posted(m)
        /\ Queued(m)' = IF m = n THEN Queued(m) + 1 ELSE Queued(m)
        /\ Reach(m)' = IF m = n THEN Reach(m) + 1 ELSE Reach(m)
    BY <1>0, <2>2, ChatIsSent
  <2>5. Counted(m)'  BY <1>0, <1>2, <2>4 DEF Counted
  <2>6. Load(m)' = Load(m)  BY <1>1, <1>2, <2>3, <2>4 DEF Load
  <2>7. HeldCopies(m)'
    BY <1>0, <1>1, <2>1, <2>2, <2>3, <2>4 DEF HeldCopies
  <2> QED BY <1>0, <1>2, <2>2, <2>5, <2>6, <2>7 DEF DupFree
<1>10. CASE ClearBadge
  <2>1. /\ ui.at = "flush" /\ ui.batch = Nothing
        /\ ui.had => ui'.at = "forget" /\ ui'.p = ui.p /\ ui'.had = ui.had
        /\ ~ui.had => ui' = Idle
    BY <1>0, <1>10, ClearBadgeMoves DEF UiAt
  <2>2. savedHeld' = savedHeld /\ pending' = pending /\ Untouched
    BY <1>10, UiSends DEF ClearBadge, stored
  <2>3. Flushing(m) = 0 /\ Flushing(m)' = 0
    BY <1>0, <2>1, NothingType DEF Flushing
  <2>4. Counted(m)' /\ Load(m)' = Load(m) /\ Reach(m)' = Reach(m)
    BY <1>4, <2>2, <2>3
  <2>5. HeldCopies(m)'
    BY <1>0, <1>1, <2>1, <2>2, <2>3, <2>4 DEF HeldCopies, UiWorks
  <2> QED BY <1>0, <1>2, <2>2, <2>4, <2>5 DEF DupFree
<1>11. CASE DeletePending \/ DropPending
  <2>1. ui.at \in {"forget", "undict"} /\ (ui'.at = "resave" \/ ui' = Idle)
    BY <1>0, <1>11, DeleteMoves, DropPendingMoves DEF UiAt
  <2>2. savedHeld' = Without(savedHeld, ui.p) /\ pending' = pending /\ Untouched
    BY <1>11, UiSends DEF DeletePending, DropPending, stored
  <2>3. savedHeld'[m] = IF ui.p = Sender[m] THEN 0 ELSE savedHeld[m]
    BY <1>0, <2>2, WithoutType DEF Lists
  <2>4. Flushing(m)' = Flushing(m)  BY <1>0, <2>1 DEF Flushing
  <2>5. Counted(m)' /\ Load(m)' = Load(m)  BY <1>4, <2>2, <2>4
  <2>6. savedHeld'[m] <= pending'[m]
    BY <1>0, <1>1, <2>2, <2>3 DEF HeldCopies
  <2>7. HeldCopies(m)'  BY <1>0, <2>1, <2>6 DEF HeldCopies
  <2> QED BY <1>0, <1>2, <2>2, <2>5, <2>7 DEF DupFree
<1>12. CASE SaveFlushed
  <2>1. ui.at = "resave" /\ ui' = Idle  BY <1>0, <1>12, SaveFlushedMoves
  <2>2. /\ savedHeld' = savedHeld /\ pending' = pending
        /\ Sent(Save) /\ Save \in Ops /\ Save # Add(m)
    BY <1>12, UiSends, OpFacts DEF SaveFlushed, stored
  <2>3. Flushing(m)' = Flushing(m)  BY <1>0, <2>1 DEF Flushing
  <2>4. Counted(m)' /\ Load(m)' = Load(m)  BY <1>5, <2>2, <2>3
  <2>5. savedHeld[m] <= pending[m]  BY <1>0, <2>1 DEF HeldCopies
  <2> QED BY <1>0, <1>6, <2>1, <2>2, <2>4, <2>5
<1>13. CASE DropHeld
  <2>1. ui.at = "drop" /\ ui'.at = "unbadge" /\ ui'.p = ui.p
    BY <1>0, <1>13, DropHeldMoves DEF UiAt
  <2>2. savedHeld' = savedHeld /\ pending' = Without(pending, ui.p) /\ Untouched
    BY <1>13, UiSends DEF DropHeld, stored
  <2>3. pending'[m] = IF ui.p = Sender[m] THEN 0 ELSE pending[m]
    BY <1>0, <2>2, WithoutType DEF Lists
  <2>4. Flushing(m)' = Flushing(m)  BY <2>1 DEF Flushing
  <2>5. Counted(m)' /\ Load(m)' = Load(m)  BY <1>4, <2>2, <2>4
  <2>6. savedHeld[m] <= pending[m]  BY <1>0, <2>1 DEF HeldCopies
  <2>7. pending'[m] + Load(m)' <= Budget(m)'
    BY <1>0, <1>1, <1>2, <2>3, <2>5
  <2>8. HeldCopies(m)'
    BY <1>0, <1>1, <1>2, <2>1, <2>2, <2>3, <2>5, <2>6 DEF HeldCopies
  <2> QED BY <1>0, <2>5, <2>7, <2>8 DEF DupFree
<1>14. CASE DropBadge
  <2>1. ui.at = "unbadge" /\ ui'.at = "undict" /\ ui'.p = ui.p
    BY <1>0, <1>14, DropBadgeMoves DEF UiAt
  <2>2. savedHeld' = savedHeld /\ pending' = pending /\ Untouched
    BY <1>14, UiSends DEF DropBadge, stored
  <2>3. Flushing(m)' = Flushing(m)  BY <2>1 DEF Flushing
  <2>4. Counted(m)' /\ Load(m)' = Load(m)  BY <1>4, <2>2, <2>3
  <2>5. HeldCopies(m)'  BY <1>0, <1>2, <2>1, <2>2, <2>4 DEF HeldCopies
  <2> QED BY <1>0, <1>2, <2>2, <2>4, <2>5 DEF DupFree
<1> QED BY <1>0, <1>7, <1>8, <1>9, <1>10, <1>11, <1>12, <1>13, <1>14 DEF UiStep

\* A crash brings back what is stored: the dialogues, and the held copies beside
\* them.  Those are copies of messages held or on their way, or repeat counts them.
LEMMA DupByCrash ==
    ASSUME Shape, Shape', ThreadInv, OpenCovers, DupInv, Crash, NEW m \in Msgs
    PROVE  DupFree(m)' /\ repeat' \in [Msgs -> Nat]
<1>0. /\ Uis /\ Lists /\ Threads /\ Counted(m) /\ HeldCopies(m)
      /\ pending[m] + Load(m) <= Budget(m)
      /\ repeat \in [Msgs -> Nat] /\ Idle.at = "idle"
      /\ Sender[m] \in Dialogues
  BY SenderType DEF Shape, DupInv, DupFree, Idle
<1>1. /\ Queued(m) \in Nat /\ Posted(m) \in Nat /\ Cardinality(Carriers(m)) \in Nat
      /\ Budget(m) \in Nat /\ Reach(m) \in Nat /\ Flushing(m) \in Nat
      /\ pending[m] \in Nat /\ savedHeld[m] \in Nat /\ Load(m) \in Nat /\ open[m] \in Nat
      /\ Cardinality(Late(queue, m)) \in Nat /\ Cardinality(Late(queue, m)) <= Queued(m)
  BY <1>0, Numbers
<1>2. /\ pending' = savedHeld /\ savedHeld' = savedHeld /\ queue' = <<>> /\ ui' = Idle
      /\ shown' = savedPeer /\ open' = saved[savedPeer] /\ saved' = saved /\ recent' = <<>>
      /\ rd' = [r \in Readers |-> Idle]
      /\ repeat' = [n \in Msgs |-> repeat[n] + Cardinality({n} \cap Range(recent))
                                     + IF Doubled(n) THEN savedHeld[n] ELSE 0]
  BY DEF Crash, stored
<1> DEFINE Twice(n) == IF Doubled(n) THEN savedHeld[n] ELSE 0
<1>3. repeat' \in [Msgs -> Nat]
  <2>1. ASSUME NEW n \in Msgs
        PROVE  repeat[n] + Cardinality({n} \cap Range(recent)) + Twice(n) \in Nat
    <3>1. {n} \cap Range(recent) = IF n \in Range(recent) THEN {n} ELSE {}  OBVIOUS
    <3>2. Cardinality({n}) = 1 /\ Cardinality({}) = 0  BY FS_EmptySet, FS_Singleton
    <3>3. Cardinality({n} \cap Range(recent)) \in {0, 1}  BY <3>1, <3>2
    <3>4. savedHeld[n] \in Nat /\ repeat[n] \in Nat  BY <1>0 DEF Lists
    <3> QED BY <3>3, <3>4
  <2> QED BY <1>2, <2>1
<1>4. Budget(m)' = Budget(m) + Twice(m) /\ Twice(m) \in Nat
  <2>1. Range(<<>>) = {}  BY DEF Range
  <2>2. {m} \cap Range(recent') = {}  BY <1>2, <2>1
  <2>3. Cardinality({m} \cap Range(recent')) = 0  BY <2>2, FS_EmptySet
  <2>4. repeat'[m] = repeat[m] + Cardinality({m} \cap Range(recent)) + Twice(m)
    BY <1>2
  <2>5. repeat[m] \in Nat /\ Twice(m) \in Nat  BY <1>0, <1>1
  <2>6. Cardinality({m} \cap Range(recent)) = Budget(m) - repeat[m]
    <3>1. Budget(m) = (IF m \in Range(recent) THEN 1 ELSE 0) + repeat[m]  BY <1>0, Numbers
    <3>2. {m} \cap Range(recent) = IF m \in Range(recent) THEN {m} ELSE {}  OBVIOUS
    <3>3. Cardinality({m}) = 1 /\ Cardinality({}) = 0  BY FS_EmptySet, FS_Singleton
    <3>4. Cardinality({m} \cap Range(recent)) = IF m \in Range(recent) THEN 1 ELSE 0
      BY <3>2, <3>3
    <3> QED BY <2>5, <3>1, <3>4
  <2>7. Budget(m)' = 0 + repeat'[m]  BY <2>3 DEF Budget
  <2> HIDE DEF Twice
  <2> QED BY <1>1, <2>4, <2>5, <2>6, <2>7
<1>5. /\ \A t \in Dialogues : /\ Shows(t, m) \in Nat /\ saved[t][m] \in Nat
                              /\ Shows(t, m)' = saved[t][m]
                              /\ saved[t][m] <= Shows(t, m)
  BY <1>0, <1>2 DEF Shows, OpenCovers, Lists
<1>6. IsFiniteSet(Copies(m)') /\ Posted(m)' <= Posted(m)
  BY <1>0, <1>5, FewerCopies DEF Counted
<1>7. /\ IsFiniteSet(Carriers(m)') /\ Cardinality(Carriers(m)') = 0
      /\ Queued(m)' = 0 /\ Flushing(m)' = 0 /\ Posted(m)' \in Nat
  <2>1. Carriers(m)' = {}  BY <1>0, <1>2 DEF Carriers, Carrying
  <2>2. {i \in DOMAIN queue' : queue'[i] = Add(m)} = {}  BY <1>2
  <2>3. Queued(m)' = 0  BY <2>2, FS_EmptySet DEF Queued, Add
  <2>4. Flushing(m)' = 0  BY <1>0, <1>2 DEF Flushing
  <2> QED BY <1>6, <2>1, <2>3, <2>4, FS_EmptySet, FS_CardinalityType DEF Posted
<1>8. Load(m)' = Posted(m)'  BY <1>7 DEF Load
<1>9. savedHeld[m] + Posted(m)' <= Budget(m) + Twice(m)
  <2>1. Load(m) = Flushing(m) + Queued(m) + Posted(m) + Cardinality(Carriers(m))  BY DEF Load
  <2>2. CASE Doubled(m)  BY <1>0, <1>1, <1>6, <1>7, <2>1, <2>2
  <2>3. CASE savedHeld[m] = 0  BY <1>0, <1>1, <1>4, <1>6, <1>7, <2>1, <2>3
  <2>4. CASE savedHeld[m] <= pending[m]  BY <1>0, <1>1, <1>4, <1>6, <1>7, <2>1, <2>4
  <2>5. CASE ui.at \in {"unbadge", "undict"} /\ ui.p = Sender[m]
    BY <1>0, <1>1, <1>4, <1>6, <1>7, <2>1, <2>5 DEF HeldCopies
  <2>6. CASE /\ ui.at \in {"flush", "forget"} /\ ui.p = Sender[m]
             /\ ~Doubled(m) /\ savedHeld[m] # 0
    <3>1. saved[Sender[m]][m] = 0  BY <1>0, <1>1, <1>5, <2>6 DEF Doubled
    <3>2. savedHeld[m] <= pending[m] + Flushing(m) + Reach(m)  BY <1>0, <2>6 DEF HeldCopies
    <3>3. CASE HasSet(queue)
      <4>1. Reach(m) = Cardinality(Late(queue, m))  BY <1>1, <3>3 DEF Reach
      <4> QED BY <1>0, <1>1, <1>4, <1>6, <1>7, <2>1, <3>2, <4>1
    <3>4. CASE ~HasSet(queue)
      <4>1. Reach(m) = Cardinality(Late(queue, m)) + open[m]  BY <3>4 DEF Reach
      <4>2. shown = Sender[m]
        <5>1. AtEnd(Sender[m])
          <6>1. ui # Idle /\ ui.at \notin {"key", "rekey", "set"}  BY <1>0, <2>6
          <6>2. current = ui.p /\ AtEnd(current)  BY <6>1 DEF ThreadInv, UiInv, EndInv
          <6> QED BY <2>6, <6>2
        <5>2. \A j \in 1..((Len(queue) + 1) - 1) : queue[j].op # "set"
          <6>1. Len(queue) \in Nat  BY DEF Shape, Queue
          <6> QED BY <3>4, <6>1 DEF HasSet
        <5> QED BY <5>1, <5>2, OpFacts DEF AtEnd, OpenIn
      <4>3. Posted(m)' + open[m] <= Posted(m)
        BY <1>0, <1>5, <3>1, <4>2, CopiesGone DEF Shows, Counted
      <4> QED BY <1>0, <1>1, <1>4, <1>7, <2>1, <3>2, <4>1, <4>3
    <3> QED BY <3>3, <3>4
  <2> QED BY <1>0, <2>2, <2>3, <2>4, <2>5, <2>6 DEF HeldCopies
<1>10. pending'[m] + Load(m)' <= Budget(m)'  BY <1>2, <1>4, <1>8, <1>9
<1>11. HeldCopies(m)'  BY <1>0, <1>1, <1>2 DEF HeldCopies
<1> QED BY <1>3, <1>6, <1>7, <1>10, <1>11 DEF DupFree, Counted

LEMMA DupKept ==
    ASSUME Shape, Shape', ThreadInv, ThreadInv', OpenCovers, DupInv, [Next]_vars, NEW m \in Msgs
    PROVE  DupFree(m)'
<1>0. /\ DupFree(m) /\ Counted(m) /\ IsFiniteSet(Carriers(m)) /\ IsFiniteSet(Copies(m))
      /\ repeat \in [Msgs -> Nat] /\ Lists
  BY DEF DupInv, DupFree, Counted, Shape
<1>1. /\ Queued(m) \in Nat /\ Posted(m) \in Nat /\ Cardinality(Carriers(m)) \in Nat
      /\ Budget(m) \in Nat /\ Reach(m) \in Nat /\ Flushing(m) \in Nat
      /\ pending[m] \in Nat /\ savedHeld[m] \in Nat /\ Load(m) \in Nat
  BY <1>0, Numbers
<1>2. CASE Serve
  <2>1. /\ rd' = rd /\ ui' = ui /\ pending' = pending /\ savedHeld' = savedHeld
        /\ recent' = recent /\ repeat' = repeat
    BY <1>2 DEF Serve, ServeAdd, ServeSave, ServeSet, DeleteDialogue, stored, ghosts
  <2>2. Carriers(m)' = Carriers(m) /\ Budget(m)' = Budget(m)  BY <2>1 DEF Carriers, Budget
  <2>3. /\ IsFiniteSet(Copies(m)')
        /\ Queued(m)' + Posted(m)' <= Queued(m) + Posted(m)
        /\ Reach(m)' >= Reach(m)
    BY <1>0, <1>2, ChatServes
  <2>4. Counted(m)'  BY <1>0, <2>2, <2>3 DEF Counted
  <2>5. Queued(m)' \in Nat /\ Posted(m)' \in Nat  BY <1>0, <2>1, <2>4, NumbersLater
  <2>6. Queued(m)' + Posted(m)' + Cardinality(Carriers(m)') + Budget(m)
           <= Queued(m) + Posted(m) + Cardinality(Carriers(m)) + Budget(m)'
    BY <1>1, <2>2, <2>3, <2>5
  <2> QED BY <1>0, <2>1, <2>3, <2>4, <2>6, HeldStays
<1>3. ASSUME UNCHANGED <<ui, pending, savedHeld, saved, recent, repeat>>, Untouched,
             Carriers(m)' = Carriers(m)
      PROVE  DupFree(m)'
  <2>1. /\ Copies(m)' = Copies(m) /\ Posted(m)' = Posted(m) /\ Queued(m)' = Queued(m)
        /\ Reach(m)' = Reach(m) /\ Budget(m)' = Budget(m)
    BY <1>3, ChatStays DEF Budget
  <2>2. Counted(m)'  BY <1>0, <1>3, <2>1 DEF Counted
  <2> QED BY <1>0, <1>1, <1>3, <2>1, <2>2, HeldStays
<1>4. CASE UNCHANGED vars
  BY <1>3, <1>4 DEF vars, chat, stored, ghosts, Untouched, Carriers
<1>5. ASSUME NEW r \in Readers, NEW n \in Msgs, NEW live \in BOOLEAN, Arrive(r, n, live)
      PROVE  DupFree(m)'
  <2>1. UNCHANGED <<ui, pending, savedHeld, saved, recent, repeat>> /\ Untouched
    BY <1>5 DEF Arrive, Untouched, chat, stored
  <2>2. /\ rd[r] = Idle /\ rd'[r] = [at |-> "dedup", m |-> n]
        /\ \A o \in Readers : o # r => rd'[o] = rd[o]
    BY <1>5 DEF Arrive, Shape, Readings
  <2>3. Carrying(rd[r], m) = Carrying(rd'[r], m)  BY <2>2 DEF Carrying, Idle
  <2>4. Carriers(m)' = Carriers(m)  BY <1>0, <2>2, <2>3, CarriersMove
  <2> QED BY <1>3, <2>1, <2>4
<1>6. CASE (\E p \in Peers : ActivatePeer(p)) \/ ClearHistory
  <2>1. /\ rd' = rd /\ pending' = pending /\ savedHeld' = savedHeld
        /\ recent' = recent /\ repeat' = repeat /\ Untouched
    BY <1>6 DEF ActivatePeer, ClearHistory, stored, Untouched, chat
  <2>2. ui = Idle /\ ui'.at \in {"key", "reset"}  BY <1>6, ActivateMoves, ClearMoves
  <2>3. Carriers(m)' = Carriers(m) /\ Budget(m)' = Budget(m) /\ Queued(m)' = Queued(m)
    BY <2>1 DEF Carriers, Budget, Queued, Untouched
  <2>4. Flushing(m) = 0 /\ Flushing(m)' = 0  BY <2>2 DEF Flushing, Idle
  <2>5. \A t \in Dialogues : Shows(t, m)' <= Shows(t, m)
    <3>1. saved' = saved \/ saved' = [saved EXCEPT ![current] = Nothing]
      BY <1>6 DEF ActivatePeer, ClearHistory, stored
    <3>2. \A t \in Dialogues : saved[t][m] \in Nat /\ saved'[t][m] \in {saved[t][m], 0}
      BY <1>0, <3>1, NothingType DEF Lists
    <3> QED BY <1>0, <2>1, <3>2 DEF Shows, Untouched, Lists
  <2>6. IsFiniteSet(Copies(m)') /\ Posted(m)' <= Posted(m)  BY <1>0, <2>5, FewerCopies
  <2>7. Posted(m)' \in Nat  BY <2>6, FS_CardinalityType DEF Posted
  <2>8. Load(m)' <= Load(m) /\ Load(m)' \in Nat
    BY <1>1, <2>3, <2>4, <2>6, <2>7 DEF Load
  <2>9. savedHeld[m] <= pending[m]  BY <1>0, <2>2 DEF DupFree, HeldCopies, Idle
  <2>10. HeldCopies(m)'  BY <2>1, <2>2, <2>9 DEF HeldCopies
  <2>11. pending'[m] + Load(m)' <= Budget(m)'
    BY <1>0, <1>1, <2>1, <2>3, <2>8 DEF DupFree
  <2> QED BY <1>0, <2>3, <2>6, <2>10, <2>11 DEF DupFree, Counted
<1>7. CASE DeleteDialogue
  <2>1. /\ rd' = rd /\ ui' = ui /\ pending' = pending /\ savedHeld' = savedHeld
        /\ recent' = recent /\ repeat' = repeat
        /\ shown' = shown /\ open' = open /\ queue' = queue
        /\ saved' = [saved EXCEPT ![shown] = Nothing]
    BY <1>7 DEF DeleteDialogue, ghosts
  <2>2. /\ Carriers(m)' = Carriers(m) /\ Budget(m)' = Budget(m) /\ Queued(m)' = Queued(m)
        /\ Reach(m)' = Reach(m)
    BY <2>1 DEF Carriers, Budget, Queued, Reach
  <2>3. \A t \in Dialogues : Shows(t, m)' <= Shows(t, m)
    <3>1. \A t \in Dialogues : saved[t][m] \in Nat /\ (t # shown => saved'[t] = saved[t])
      BY <1>0, <2>1 DEF Lists
    <3> QED BY <1>0, <2>1, <3>1 DEF Shows, Lists
  <2>4. IsFiniteSet(Copies(m)') /\ Posted(m)' <= Posted(m)  BY <1>0, <2>3, FewerCopies
  <2>5. Posted(m)' \in Nat  BY <2>4, FS_CardinalityType DEF Posted
  <2>6. Counted(m)'  BY <1>0, <2>2, <2>4 DEF Counted
  <2>7. Queued(m)' + Posted(m)' + Cardinality(Carriers(m)') + Budget(m)
           <= Queued(m) + Posted(m) + Cardinality(Carriers(m)) + Budget(m)'
    BY <1>1, <2>2, <2>4, <2>5
  <2> QED BY <1>0, <1>1, <2>1, <2>2, <2>6, <2>7, HeldStays
<1> QED BY Steps, <1>2, <1>4, <1>5, <1>6, <1>7, DupByReader, DupByUi, DupByCrash

LEMMA RepeatType ==
    ASSUME Shape, DupInv, [Next]_vars
    PROVE  repeat' \in [Msgs -> Nat]
<1>0. repeat \in [Msgs -> Nat] /\ Lists /\ Readings  BY DEF DupInv, Shape
<1>1. ASSUME NEW r \in Readers, ReaderStep(r) PROVE repeat' \in [Msgs -> Nat]
  <2>1. CASE Dedup(r) /\ rd[r].m \notin Range(recent)
    <3>1. rd[r].m \in Msgs /\ Remember(rd[r].m)  BY <1>0, <2>1, DedupMoves DEF Dedup
    <3> QED BY <1>0, <2>1, <3>1, BudgetGrows
  <2>2. CASE ~(Dedup(r) /\ rd[r].m \notin Range(recent))
    BY <1>0, <1>1, <2>2 DEF ReaderStep, Dedup, Route, PostToChat, SavePost, Hold, PersistHeld,
       Badge, ghosts
  <2> QED BY <2>1, <2>2
<1>2. UiStep => repeat' = repeat
  BY DEF UiStep, DeletePeerKey, WritePeerKey, SwitchDialogue, TakeHeld, FlushOne, ClearBadge,
     DeletePending, SaveFlushed, ReopenCleared, DropHeld, DropBadge, DropPending, ghosts
<1>3. (\E r \in Readers, n \in Msgs, live \in BOOLEAN : Arrive(r, n, live))
         \/ (\E p \in Peers : ActivatePeer(p)) \/ ClearHistory \/ Serve \/ DeleteDialogue \/ UNCHANGED vars
      => repeat' = repeat
  BY DEF Arrive, ActivatePeer, ClearHistory, Serve, ServeAdd, ServeSave, ServeSet,
     DeleteDialogue, vars, ghosts
<1>4. ASSUME Crash PROVE repeat' \in [Msgs -> Nat]
  <2>1. ASSUME NEW n \in Msgs
        PROVE  repeat[n] + Cardinality({n} \cap Range(recent))
                 + (IF Doubled(n) THEN savedHeld[n] ELSE 0) \in Nat
    <3>1. {n} \cap Range(recent) = IF n \in Range(recent) THEN {n} ELSE {}  OBVIOUS
    <3>2. Cardinality({n}) = 1 /\ Cardinality({}) = 0  BY FS_EmptySet, FS_Singleton
    <3>3. Cardinality({n} \cap Range(recent)) \in {0, 1}  BY <3>1, <3>2
    <3>4. savedHeld[n] \in Nat /\ repeat[n] \in Nat  BY <1>0 DEF Lists
    <3> QED BY <3>3, <3>4
  <2> QED BY <1>4, <2>1 DEF Crash
<1> QED BY <1>0, Steps, <1>1, <1>2, <1>3, <1>4

LEMMA DupInit == Init => DupInv
<1> SUFFICES ASSUME Init, NEW m \in Msgs PROVE DupFree(m)
  BY NothingType DEF DupInv, Init
<1>1. /\ pending[m] = 0 /\ savedHeld[m] = 0 /\ repeat[m] = 0 /\ Flushing(m) = 0
      /\ \A t \in Dialogues : Shows(t, m) = 0
  BY NothingType DEF Init, Flushing, Shows, Idle
<1>2. Copies(m) = {}
  <2>1. ASSUME NEW c \in Copies(m) PROVE FALSE
    <3>1. PICK t \in Dialogues : \E k \in 1..Shows(t, m) : c = <<t, k>>  BY <2>1, CopyOf
    <3> QED BY <1>1, <3>1
  <2> QED BY <2>1
<1>3. Carriers(m) = {}  BY DEF Init, Carriers, Carrying, Idle
<1>4. {i \in DOMAIN queue : queue[i] = Add(m)} = {}  BY DEF Init
<1>5. {m} \cap Range(recent) = {}  BY DEF Init, Range
<1>6. /\ Counted(m) /\ Posted(m) = 0 /\ Cardinality(Carriers(m)) = 0 /\ Queued(m) = 0
      /\ Cardinality({m} \cap Range(recent)) = 0
  BY <1>2, <1>3, <1>4, <1>5, FS_EmptySet DEF Counted, Posted, Queued
<1>7. Load(m) = 0 /\ Budget(m) = 0  BY <1>1, <1>6 DEF Load, Budget
<1>8. ui.at = "idle"  BY DEF Init, Idle
<1> QED BY <1>1, <1>6, <1>7, <1>8 DEF DupFree, HeldCopies

LEMMA DupHolds == Spec => [](Shape /\ ThreadInv /\ OpenCovers /\ DupInv)
<1> DEFINE I == Shape /\ ThreadInv /\ OpenCovers /\ DupInv
<1>1. Init => I
  BY ShapeInit, ThreadInit, KeepInit, DupInit DEF KeepInv
<1>2. I /\ [Next]_vars => I'
  <2> SUFFICES ASSUME I, [Next]_vars PROVE I'  OBVIOUS
  <2>1. Shape' /\ ThreadInv' /\ OpenCovers'  BY ShapeStep, ThreadStep, OpenCoversStep
  <2>2. \A m \in Msgs : DupFree(m)'  BY <2>1, DupKept
  <2>3. DupInv'  BY <2>2, RepeatType DEF DupInv
  <2> QED BY <2>1, <2>3
<1> QED BY <1>1, <1>2, PTL DEF Spec

\* deliver_lxmf tests and extends recent_msg_ids under one lock, so two readers
\* with the same message pass it on once; and whatever the UI flushes, drops and
\* deletes step by step, and wherever a crash cuts it short, a message is shown,
\* held or queued no more often than its id was forgotten or a crash found it both
\* held and shown.
THEOREM NoDuplicateHolds == Spec => []NoDuplicate
<1>1. Shape /\ DupInv => NoDuplicate
  <2> SUFFICES ASSUME Shape, DupInv, NEW m \in Msgs
               PROVE  pending[m] + Flushing(m) + Queued(m) + Posted(m) <= 1 + repeat[m]
    BY DEF NoDuplicate
  <2>1. /\ Counted(m) /\ repeat \in [Msgs -> Nat]
        /\ pending[m] + Load(m) <= Budget(m)
    BY DEF DupInv, DupFree
  <2>2. /\ Queued(m) \in Nat /\ Posted(m) \in Nat /\ Cardinality(Carriers(m)) \in Nat
        /\ Flushing(m) \in Nat /\ pending[m] \in Nat /\ repeat[m] \in Nat
        /\ Budget(m) = (IF m \in Range(recent) THEN 1 ELSE 0) + repeat[m]
    BY <2>1, Numbers
  <2>3. Load(m) = Flushing(m) + Queued(m) + Posted(m) + Cardinality(Carriers(m))  BY DEF Load
  <2>4. Budget(m) <= 1 + repeat[m] /\ Budget(m) \in Nat  BY <2>2
  <2> QED BY <2>1, <2>2, <2>3, <2>4
<1> QED BY <1>1, DupHolds, PTL

=============================================================================
