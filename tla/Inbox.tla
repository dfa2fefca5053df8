-------------------------------- MODULE Inbox --------------------------------
(***************************************************************************)
(* What happens to a message that reaches this device: deliver_lxmf in     *)
(* apps/lxmfchat/src/net.rs drops the ones it has seen, posts a message of *)
(* the conversation on screen and holds every other until its thread is    *)
(* opened (activate_peer in lib.rs).                                       *)
(*                                                                         *)
(* Three kinds of thread take part, and no lock covers them together:      *)
(*   - the readers (hub connection, local peers) run deliver_lxmf;         *)
(*   - the UI thread switches conversations and clears their history;      *)
(*   - the chat server (libs/chat) owns the dialogue on screen.  Posts,    *)
(*     saves and switches reach it as messages in one FIFO queue, and it   *)
(*     adds a post to whichever dialogue is open when it handles it.       *)
(* A step is what a thread does between two lock acquisitions, PDDB writes *)
(* or sends.  A crash keeps the PDDB (savedPeer, savedHeld, saved) and     *)
(* nothing else.  A PDDB value is replaced in two steps: delete_key, which *)
(* is on disk at once, and then the write of the new value and its sync.   *)
(*                                                                         *)
(* A dialogue is the number of times it shows each message: post_add sorts *)
(* by timestamp and never replaces.  A held list is keyed by its sender,   *)
(* so `pending` gives for each message how often it is in its sender's, and *)
(* `unread` how often the sender's badge counts it.                        *)
(***************************************************************************)
EXTENDS Integers, Sequences, FiniteSets, SequencesExt

CONSTANTS
    Msgs,           \* messages, by message_id
    Peers,          \* their senders, each with a thread of its own
    Sender,         \* the sender of each message
    Welcome,        \* DIALOGUE_WELCOME, the thread shown before any peer's
    Readers,        \* the threads that run handle_frame
    MAX_RECENT,     \* how many message ids recent_msg_ids keeps (64)
    MaxArrivals,    \* bound on packets that carry a message to us
    MaxUiOps,       \* bound on switches and clears by the user
    MaxCrashes      \* bound on crashes

ASSUME SenderAssumption == Sender \in [Msgs -> Peers] /\ Welcome \notin Peers
ASSUME InboxBounds == /\ MAX_RECENT \in Nat \ {0}
                      /\ {MaxArrivals, MaxUiOps, MaxCrashes} \subseteq Nat

VARIABLES
    recent,         \* shared.recent_msg_ids
    pending,        \* shared.pending: messages held for threads not shown
    unread,         \* shared.unread, by message: a badge is its peer's total
    current,        \* shared.current_peer
    shown,          \* the chat server's pddb_key
    open,           \* the chat server's in-memory dialogue
    queue,          \* the chat server's message queue
    saving,         \* is the chat server between the two steps of a save?
    rd,             \* what each reader is doing
    ui,             \* what the UI thread is doing
    savedPeer,      \* PDDB: KEY_PEER
    savedHeld,      \* PDDB: PENDING_DICT
    saved,          \* PDDB: DIALOGUE_DICT
    arrivals, uiOps, crashes,
    acked,          \* ghost: messages the sender or the node was told we have
    raced,          \* ghost: messages handed over while the user was switching
    blurred,        \* ghost: peers opened or cleared under a delivery to them
    caught,         \* ghost: acknowledged messages a crash took on their way
    wiped,          \* ghost: messages the user cleared
    repeat          \* ghost: how often there was a reason to show one again

stored == <<savedPeer, savedHeld, saved>>
bounds == <<arrivals, uiOps, crashes>>
ghosts == <<acked, raced, blurred, caught, wiped, repeat>>
chat == <<shown, open, queue, saving>>
vars == <<recent, pending, unread, current, chat, rd, ui, stored, bounds,
          ghosts>>

Dialogues == Peers \cup {Welcome}
Nothing == [m \in Msgs |-> 0]
From(p) == {m \in Msgs : Sender[m] = p}
Without(held, p) == [m \in Msgs |-> IF Sender[m] = p THEN 0 ELSE held[m]]
Only(held, p) == [m \in Msgs |-> IF Sender[m] = p THEN held[m] ELSE 0]

Idle == [at |-> "idle"]
Send(op) == queue' = Append(queue, op)
Add(m) == [op |-> "add", m |-> m]
Save == [op |-> "save"]
Set(t) == [op |-> "set", to |-> t]

\* Messages whose delivery has read current_peer and is not over.
Delivering == {rd[r].m : r \in {x \in Readers :
                                rd[x].at \in {"post", "save", "hold", "persist",
                                             "badge"}}}
\* A delivery for p that will touch its held list or its badge is under way.
HoldsFor(p) == \E r \in Readers : /\ rd[r].at \in {"hold", "persist", "badge"}
                                 /\ Sender[rd[r].m] = p
\* The mutex of `pending`, which a reader keeps while it persists.
PendingFree == \A r \in Readers : rd[r].at # "persist"
Durable(m) == saved[Sender[m]][m] + savedHeld[m] > 0

Init ==
    /\ recent = <<>> /\ pending = Nothing /\ unread = Nothing
    /\ current = Welcome /\ shown = Welcome /\ open = Nothing /\ queue = <<>>
    /\ saving = FALSE
    /\ rd = [r \in Readers |-> Idle] /\ ui = Idle
    /\ savedPeer = Welcome /\ savedHeld = Nothing
    /\ saved = [t \in Dialogues |-> Nothing]
    /\ arrivals = 0 /\ uiOps = 0 /\ crashes = 0
    /\ acked = {} /\ raced = {} /\ blurred = {} /\ caught = {} /\ wiped = {}
    /\ repeat = Nothing

-----------------------------------------------------------------------------
(* The readers: handle_frame's message events and deliver_lxmf.            *)

\* A message arrives.  For one received live the proof is sent back first;
\* one synced from the propagation node is confirmed after its delivery.
Arrive(r, m, live) ==
    /\ rd[r] = Idle /\ arrivals < MaxArrivals
    /\ arrivals' = arrivals + 1
    /\ rd' = [rd EXCEPT ![r] = [at |-> "dedup", m |-> m]]
    /\ acked' = IF live THEN acked \cup {m} ELSE acked
    /\ UNCHANGED <<recent, pending, unread, current, chat, ui, stored, uiOps,
                   crashes, raced, blurred, caught, wiped, repeat>>

\* The delivery is over: a synced message is now confirmed to the node.
Done(r) ==
    /\ rd' = [rd EXCEPT ![r] = Idle]
    /\ acked' = acked \cup {rd[r].m}

MutRemember(m) == UNCHANGED <<recent, repeat>>
MutNoCap(m) == recent' = Append(recent, m) /\ UNCHANGED repeat

\* recent_msg_ids is tested and extended under one lock.  A message whose id
\* leaves it may be accepted again.
Remember(m) ==
    LET ids == Append(recent, m)
    IN  IF Len(ids) > MAX_RECENT
        THEN recent' = Tail(ids) /\ repeat' = [repeat EXCEPT ![ids[1]] = @ + 1]
        ELSE recent' = ids /\ UNCHANGED repeat

Dedup(r) ==
    /\ rd[r].at = "dedup"
    /\ LET m == rd[r].m
       IN  IF m \in Range(recent)
           THEN Done(r) /\ UNCHANGED <<recent, repeat, wiped>>
           ELSE /\ Remember(m)
                /\ rd' = [rd EXCEPT ![r].at = "route"]
                /\ wiped' = wiped \ {m}
                /\ UNCHANGED acked
    /\ UNCHANGED <<pending, unread, current, chat, ui, stored, bounds, raced,
                   blurred, caught>>

\* current_peer decides where the message goes.
MutRoute(r) ==
    /\ rd[r].at = "route"
    /\ rd' = [rd EXCEPT ![r].at = "post"]
    /\ raced' = IF ui = Idle THEN raced ELSE raced \cup {rd[r].m}
    /\ UNCHANGED <<recent, pending, unread, current, chat, ui, stored, bounds,
                   acked, blurred, caught, wiped, repeat>>

Route(r) ==
    /\ rd[r].at = "route"
    /\ rd' = [rd EXCEPT ![r].at =
                IF current = Sender[rd[r].m] THEN "post" ELSE "hold"]
    /\ raced' = IF ui = Idle THEN raced ELSE raced \cup {rd[r].m}
    /\ UNCHANGED <<recent, pending, unread, current, chat, ui, stored, bounds,
                   acked, blurred, caught, wiped, repeat>>

\* post_to_chat: two sends to the chat server.
PostToChat(r) ==
    /\ rd[r].at = "post"
    /\ Send(Add(rd[r].m))
    /\ rd' = [rd EXCEPT ![r].at = "save"]
    /\ UNCHANGED <<recent, pending, unread, current, shown, open, saving, ui,
                   stored, bounds, ghosts>>

SavePost(r) ==
    /\ rd[r].at = "save"
    /\ Send(Save)
    /\ Done(r)
    /\ UNCHANGED <<recent, pending, unread, current, shown, open, saving, ui,
                   stored, bounds, raced, blurred, caught, wiped, repeat>>

\* A held list that is kept in memory only.
MutHold(r) ==
    /\ rd[r].at = "hold" /\ PendingFree
    /\ pending' = [pending EXCEPT ![rd[r].m] = @ + 1]
    /\ rd' = [rd EXCEPT ![r].at = "badge"]
    /\ UNCHANGED <<recent, unread, current, chat, ui, stored, bounds, ghosts>>

\* The sender's held list is extended and, under the same lock, persisted:
\* persist_pending deletes the stored list first ...
Hold(r) ==
    /\ rd[r].at = "hold" /\ PendingFree
    /\ pending' = [pending EXCEPT ![rd[r].m] = @ + 1]
    /\ savedHeld' = Without(savedHeld, Sender[rd[r].m])
    /\ rd' = [rd EXCEPT ![r].at = "persist"]
    /\ UNCHANGED <<recent, unread, current, chat, ui, savedPeer, saved, bounds,
                   ghosts>>

\* ... and writes the whole list again; the lock is released.
PersistHeld(r) ==
    /\ rd[r].at = "persist"
    /\ savedHeld' = [m \in Msgs |-> IF Sender[m] = Sender[rd[r].m]
                                   THEN pending[m] ELSE savedHeld[m]]
    /\ rd' = [rd EXCEPT ![r].at = "badge"]
    /\ UNCHANGED <<recent, pending, unread, current, chat, ui, savedPeer, saved,
                   bounds, ghosts>>

\* The badge is bumped under a lock of its own.
Badge(r) ==
    /\ rd[r].at = "badge"
    /\ unread' = [unread EXCEPT ![rd[r].m] = @ + 1]
    /\ Done(r)
    /\ UNCHANGED <<recent, pending, current, chat, ui, stored, bounds, raced,
                   blurred, caught, wiped, repeat>>

-----------------------------------------------------------------------------
(* The UI thread: activate_peer, a step per lock, PDDB write or send.      *)

UiStart == ui = Idle /\ uiOps < MaxUiOps /\ uiOps' = uiOps + 1
UiGoes(at) == ui' = [ui EXCEPT !.at = at]
\* p's held list and badge are about to be emptied, each under its own lock.
Blur(p) ==
    blurred' = IF HoldsFor(p) THEN blurred \cup {p} ELSE blurred \ {p}

ActivatePeer(p) ==
    /\ UiStart
    /\ current' = p
    /\ ui' = [at |-> "key", p |-> p, batch |-> Nothing, had |-> FALSE]
    /\ raced' = raced \cup Delivering
    /\ Blur(p)
    /\ UNCHANGED <<recent, pending, unread, chat, rd, stored, arrivals,
                   crashes, acked, caught, wiped, repeat>>

\* write_string: without a KEY_PEER the welcome thread would open.
DeletePeerKey ==
    /\ ui.at = "key"
    /\ savedPeer' = Welcome
    /\ UiGoes("rekey")
    /\ UNCHANGED <<recent, pending, unread, current, chat, rd, savedHeld, saved,
                   bounds, ghosts>>

WritePeerKey ==
    /\ ui.at = "rekey"
    /\ savedPeer' = ui.p
    /\ UiGoes("set")
    /\ UNCHANGED <<recent, pending, unread, current, chat, rd, savedHeld, saved,
                   bounds, ghosts>>

SwitchDialogue ==
    /\ ui.at = "set"
    /\ Send(Set(ui.p))
    /\ UiGoes("take")
    /\ UNCHANGED <<recent, pending, unread, current, shown, open, saving, rd,
                   stored, bounds, ghosts>>

TakeHeld ==
    /\ ui.at = "take" /\ PendingFree
    /\ pending' = Without(pending, ui.p)
    /\ ui' = [ui EXCEPT !.at = "flush", !.batch = Only(pending, ui.p),
                        !.had = Only(pending, ui.p) # Nothing]
    /\ UNCHANGED <<recent, unread, current, chat, rd, stored, bounds, ghosts>>

FlushOne(m) ==
    /\ ui.at = "flush" /\ ui.batch[m] > 0
    /\ Send(Add(m))
    /\ ui' = [ui EXCEPT !.batch[m] = @ - 1]
    /\ UNCHANGED <<recent, pending, unread, current, shown, open, saving, rd,
                   stored, bounds, ghosts>>

ClearBadge ==
    /\ ui.at = "flush" /\ ui.batch = Nothing
    /\ unread' = Without(unread, ui.p)
    /\ IF ui.had THEN UiGoes("forget") ELSE ui' = Idle
    /\ UNCHANGED <<recent, pending, current, chat, rd, stored, bounds, ghosts>>

MutDeletePending ==
    /\ ui.at = "forget"
    /\ UiGoes("resave")
    /\ UNCHANGED <<recent, pending, unread, current, chat, rd, stored, bounds,
                   ghosts>>

DeletePending ==
    /\ ui.at = "forget"
    /\ savedHeld' = Without(savedHeld, ui.p)
    /\ UiGoes("resave")
    /\ UNCHANGED <<recent, pending, unread, current, chat, rd, savedPeer, saved,
                   bounds, ghosts>>

SaveFlushed ==
    /\ ui.at = "resave"
    /\ Send(Save)
    /\ ui' = Idle
    /\ UNCHANGED <<recent, pending, unread, current, shown, open, saving, rd,
                   stored, bounds, ghosts>>

(* clear_history_interactive, after the user's confirmation. Clearing the  *)
(* welcome thread, which holds no peer's message, is left out.             *)

\* A save queued for the chat server, or about to be, races with the clear:
\* it may write the dialogue back.
ClearHistory ==
    /\ UiStart
    /\ current \in Peers
    /\ saved' = [saved EXCEPT ![current] = Nothing]
    /\ ui' = [at |-> "reset", p |-> current, batch |-> Nothing, had |-> FALSE]
    /\ raced' = raced \cup Delivering
                   \cup IF queue = <<>> /\ Delivering = {} THEN {}
                        ELSE From(current)
    /\ Blur(current)
    /\ wiped' = wiped \cup
          {m \in From(current) : \A r \in Readers :
                                    rd[r].at = "route" => rd[r].m # m}
    /\ UNCHANGED <<recent, pending, unread, current, chat, rd, savedPeer,
                   savedHeld, arrivals, crashes, acked, caught, repeat>>

ReopenCleared ==
    /\ ui.at = "reset"
    /\ Send(Set(ui.p))
    /\ UiGoes("drop")
    /\ UNCHANGED <<recent, pending, unread, current, shown, open, saving, rd,
                   stored, bounds, ghosts>>

\* Dropping the in-memory list only, not its copy in the PDDB.
MutDropPending ==
    /\ ui.at = "undict"
    /\ ui' = Idle
    /\ UNCHANGED <<recent, pending, unread, current, chat, rd, stored, bounds,
                   ghosts>>

DropHeld ==
    /\ ui.at = "drop" /\ PendingFree
    /\ pending' = Without(pending, ui.p)
    /\ UiGoes("unbadge")
    /\ UNCHANGED <<recent, unread, current, chat, rd, stored, bounds, ghosts>>

DropBadge ==
    /\ ui.at = "unbadge"
    /\ unread' = Without(unread, ui.p)
    /\ UiGoes("undict")
    /\ UNCHANGED <<recent, pending, current, chat, rd, stored, bounds, ghosts>>

DropPending ==
    /\ ui.at = "undict"
    /\ savedHeld' = Without(savedHeld, ui.p)
    /\ ui' = Idle
    /\ UNCHANGED <<recent, pending, unread, current, chat, rd, savedPeer, saved,
                   bounds, ghosts>>

-----------------------------------------------------------------------------
(* The chat server handles the next message of its queue.                  *)

ServeAdd ==
    /\ queue # <<>> /\ Head(queue).op = "add"
    /\ open' = [open EXCEPT ![Head(queue).m] = @ + 1]
    /\ queue' = Tail(queue)
    /\ UNCHANGED <<recent, pending, unread, current, shown, saving, rd, ui,
                   stored, bounds, ghosts>>

\* dialogue_save deletes the stored dialogue ...
DeleteDialogue ==
    /\ queue # <<>> /\ Head(queue).op = "save" /\ ~saving
    /\ saved' = [saved EXCEPT ![shown] = Nothing]
    /\ saving' = TRUE
    /\ UNCHANGED <<recent, pending, unread, current, shown, open, queue, rd, ui,
                   savedPeer, savedHeld, bounds, ghosts>>

\* ... and writes the one on screen.
ServeSave ==
    /\ queue # <<>> /\ Head(queue).op = "save" /\ saving
    /\ saved' = [saved EXCEPT ![shown] = open]
    /\ queue' = Tail(queue)
    /\ saving' = FALSE
    /\ UNCHANGED <<recent, pending, unread, current, shown, open, rd, ui,
                   savedPeer, savedHeld, bounds, ghosts>>

\* The dialogue is read from the PDDB; what was in memory is dropped.
ServeSet ==
    /\ queue # <<>> /\ Head(queue).op = "set"
    /\ shown' = Head(queue).to
    /\ open' = saved[Head(queue).to]
    /\ queue' = Tail(queue)
    /\ UNCHANGED <<recent, pending, unread, current, saving, rd, ui, stored,
                   bounds, ghosts>>

-----------------------------------------------------------------------------
(* The device stops at any moment and starts again: LxmfChat::new reads    *)
(* everything back (load_pending gives the badges too).                    *)

\* A message that a crash finds both held and in its thread (flushed and saved,
\* its held copy not yet deleted) is there again after the restart.
Doubled(m) == saved[Sender[m]][m] > 0 /\ savedHeld[m] > 0

\* A clear that a crash interrupts may leave the held copies behind.
Clearing == {"reset", "drop", "unbadge", "undict"}

\* A message that may be only in memory, its stored copy being replaced or
\* cleared: it is being delivered, its sender's held list is being written again
\* or has been taken to be shown, its thread is being cleared, or it is on its
\* way to, or in, a dialogue that the chat server has yet to save.
Exposed(m) ==
    \/ \E r \in Readers :
          \/ /\ rd[r].at \in {"dedup", "route", "post", "save", "hold"}
             /\ rd[r].m = m
          \/ rd[r].at = "persist" /\ Sender[rd[r].m] = Sender[m]
    \/ /\ ui.at \in {"flush", "forget", "resave"} \cup Clearing
       /\ ui.p = Sender[m]
    \/ \E i \in DOMAIN queue : queue[i] = Add(m)
    \/ /\ shown = Sender[m] /\ open[m] > 0
       /\ \E i \in DOMAIN queue : queue[i] = Save

Crash ==
    /\ crashes < MaxCrashes /\ crashes' = crashes + 1
    /\ recent' = <<>>
    /\ pending' = savedHeld
    /\ unread' = savedHeld
    /\ current' = savedPeer
    /\ shown' = savedPeer /\ open' = saved[savedPeer] /\ queue' = <<>>
    /\ saving' = FALSE
    /\ rd' = [r \in Readers |-> Idle] /\ ui' = Idle
    /\ caught' = caught \cup {m \in acked : Exposed(m) /\ ~Durable(m)}
    /\ blurred' = {}
    /\ repeat' = [m \in Msgs |-> repeat[m] + Cardinality({m} \cap Range(recent))
                                   + IF Doubled(m) THEN savedHeld[m] ELSE 0]
    /\ wiped' = IF ui.at \in Clearing THEN wiped \ From(ui.p) ELSE wiped
    /\ UNCHANGED <<stored, arrivals, uiOps, acked, raced>>

Next ==
    \/ \E r \in Readers :
          \/ \E m \in Msgs, live \in BOOLEAN : Arrive(r, m, live)
          \/ Dedup(r) \/ Route(r)
          \/ PostToChat(r) \/ SavePost(r)
          \/ Hold(r) \/ PersistHeld(r) \/ Badge(r)
    \/ \E p \in Peers : ActivatePeer(p)
    \/ DeletePeerKey \/ WritePeerKey \/ SwitchDialogue \/ TakeHeld
    \/ \E m \in Msgs : FlushOne(m)
    \/ ClearBadge \/ DeletePending \/ SaveFlushed
    \/ ClearHistory \/ ReopenCleared \/ DropHeld \/ DropBadge \/ DropPending
    \/ ServeAdd \/ DeleteDialogue \/ ServeSave \/ ServeSet
    \/ Crash

Spec == Init /\ [][Next]_vars

-----------------------------------------------------------------------------
Quiet == ui = Idle /\ queue = <<>> /\ \A r \in Readers : rd[r] = Idle

Queued(m) == Cardinality({i \in DOMAIN queue : queue[i] = Add(m)})
\* The copies of m in the dialogues, the one on screen as it is in memory.
Shows(t, m) == IF t = shown THEN open[m] ELSE saved[t][m]
Copies(m) == UNION {{t} \X (1..Shows(t, m)) : t \in Dialogues}
Posted(m) == Cardinality(Copies(m))
Flushing(m) == IF ui.at = "flush" THEN ui.batch[m] ELSE 0

TypeOK ==
    /\ recent \in Seq(Msgs) /\ Len(recent) <= MAX_RECENT
    /\ pending \in [Msgs -> Nat] /\ unread \in [Msgs -> Nat]
    /\ current \in Dialogues /\ shown \in Dialogues /\ savedPeer \in Dialogues
    /\ saving \in BOOLEAN /\ blurred \subseteq Peers
    /\ open \in [Msgs -> Nat] /\ savedHeld \in [Msgs -> Nat]
    /\ saved \in [Dialogues -> [Msgs -> Nat]]
    /\ \A r \in Readers :
          rd[r] = Idle \/ rd[r] \in [at : {"dedup", "route", "post", "save",
                                           "hold", "persist", "badge"},
                                     m : Msgs]
    /\ ui = Idle \/ ui \in [at : {"key", "rekey", "set", "take", "flush",
                                  "forget", "resave", "reset", "drop",
                                  "unbadge", "undict"},
                            p : Peers, batch : [Msgs -> Nat], had : BOOLEAN]

\* A message is held, on its way to the chat server or shown at most once,
\* plus once for each time its id was forgotten (by the cap or a restart) or a
\* crash left it both held and shown.
NoDuplicate ==
    \A m \in Msgs : pending[m] + Flushing(m) + Queued(m) + Posted(m)
                        <= 1 + repeat[m]

\* Only a delivery that overlapped the user's switch can land in another
\* peer's thread.
RightThreadUnlessRaced ==
    \A m \in Msgs \ raced, t \in Dialogues :
        t # Sender[m] => saved[t][m] = 0 /\ (shown = t => open[m] = 0)

\* When nothing is under way, a message whose sender (or the node) was told we
\* have it is in the PDDB, in its sender's thread or held for it.  It is lost
\* only if its delivery overlapped a switch, the user cleared it, or a crash
\* came while it was exposed: before its first save, while the dialogue or the
\* held list that stored it was deleted to be written again, or in a clear.
KeptWhenQuiet ==
    Quiet => \A m \in acked \ (raced \cup caught \cup wiped) : Durable(m)

\* When nothing is under way, a peer's badge counts the messages held for it,
\* and the PDDB has the same list.  The exception is a peer that the user opened
\* or cleared after a delivery had decided to hold a message for it: the badge
\* may then count too few or too many, or the stored list lack a held message,
\* until the peer is opened or cleared without such a delivery, or a restart.
BadgeIsTrue ==
    Quiet => \A p \in Peers \ blurred :
        /\ Only(unread, p) = Only(pending, p)
        /\ Only(pending, p) = Only(savedHeld, p)

\* History the user cleared is gone, if no delivery and no queued save overlapped
\* the clear and no crash interrupted it.
ClearedIsGone ==
    Quiet => \A p \in Peers :
        From(p) \cap raced = {} =>
            \A m \in wiped \cap From(p) : ~Durable(m) /\ pending[m] = 0
=============================================================================
