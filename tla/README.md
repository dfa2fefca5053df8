# A TLA+ model of the LXMF chat application for the Precursor

The repository holds an LXMF messenger for the Precursor (Xous): the application
`xous-core/apps/lxmfchat`, its protocol libraries `xous-core/libs/reticulum-core`
and `xous-core/libs/lxmf`, and a host client that drives the libraries on a
workstation. The rest of `xous-core` is the upstream operating system and
`reference/` the Python implementation kept for interoperability. This directory
models the part that is the program's own: how a message gets from the user to
its recipient on an unreliable network, with six or more threads sharing state
through mutexes.

Source paths below are relative to `src/xous-core/`; `net.rs` and `lib.rs` are those
of `apps/lxmfchat/src/`, `ui.rs` that of `libs/chat/src/`, the others those of `libs/reticulum-core/src/`.

## 1. Inventory

| Component | State it keeps | Operations | Hard behaviour |
|---|---|---|---|
| Outbound delivery engine (`net.rs` 97-163, 3495-4394, 967-1002; `lib.rs` `post`) | `shared.outbox` (Vec of `OutboundMsg`), `delivery_updates`, the bubbles' marks | post, pump pass, mine stamp, mine blob, proof, escalate, fail, clear history | four kinds of thread on one mutex; work on snapshots without the lock; timeouts racing late proofs; retries and escalation |
| Resource transfer (`resource.rs`; `net.rs` 1286-1580; `transport.rs` 1200-1300) | `ResourceReceiver`, `ResourceSender`, `in_resources`, `out_resources` | advertise, request window, part, hashmap page, assemble, prove | reordering, loss, duplication, two reader threads, page and window boundaries, no receiver timer |
| Transport tables and dispatch (`transport.rs`) | `known`, `paths`, `links`, `out_links`, `pending_out`, `receipts`, their FIFO order queues | `handle_frame`, link request and proof, receipts, `connection_reset` | bounded tables whose map and queue must agree; expiry; stale entries |
| Hub connection (`net.rs` 590-880, 1775-2246) | `writer`, `ctl`, `connected`, `write_started`, `last_inbound`, `hub_enabled` | connect, read loop, `hub_write`, keepalive, watchdogs, `force_reconnect`, suspend and Wi-Fi watchers | a blocked write under a mutex, a watchdog that must free it, a reset racing a reconnect |
| Propagation sync (`net.rs` 2248-2735, 3646-3790) | `SyncState` (phase, link, wanted ids, receiver, deadline, tries) | start, link up, list, get, finish, timeout, automatic sync | phases advanced by two threads; late answers of an earlier phase; a shared link |
| Inbound delivery (`net.rs` 1611-1770; `lib.rs` 676-720, 880-930; `libs/chat`) | `recent_msg_ids`, `pending`, `unread`, `current_peer`, the dialogue of the chat server, their copies in the PDDB | `deliver_lxmf`, activate a peer, clear history | acknowledge before or after storing; restart between the two; a switch of thread racing a delivery |
| Page browser (`net.rs` 2740-3470) | `BrowserState` | fetch, answer, back, suspend, resume | a stale answer for a page left meanwhile; state, screen and history changed under different locks; a link that must stay anonymous |
| AutoInterface (`autoiface.rs`, `autointerface.rs`) | peers with their last beacon | discovery, expiry, send to peers | a second reader thread; packets doubled on two interfaces |
| HDLC framing (`hdlc.rs`) | deframer buffer | encode, push | resynchronisation |
| Link handshake, packets, announces, identities, crypto, msgpack, LXMF codec, stamps | none | pure functions | covered by the repository's vectors, out of a model checker's reach |
| UI, menus, contacts, settings (`lib.rs`, `main.rs`) | contacts, current peer | dialogs, single PDDB writes | only where it touches the outbox |

**Interaction.** The UI thread puts messages into the outbox. The pump thread
(`outbox_pump_thread`) wakes every second, mines proofs-of-work and walks the outbox.
The hub read loop and the AutoInterface `data_rx` thread feed `handle_frame`, whose
events (announce, link up, link identified, delivered, resource packets) change the
outbox, the inbound transfers and the sync and browser states, and run
`pump_outbox` themselves. The keepalive, suspend and Wi-Fi threads tear the hub
connection down. Every packet leaves through `broadcast_out`, on all interfaces. All
sharing is through mutexes taken by `plock`, which polls.

**What makes each part correct.** Outbox: no message lost, one verdict per message,
the verdict is true, bytes that need a stamp are not sent without it, every message
settles, the propagation node is tried before failure. Resource: the payload is
handed over intact, once, and the sender is told only then; the transfer never
stalls on a lossless network; no panic under the mutex. Tables: map and order queue
agree, caps hold, nothing outlives its link. Hub: a stuck write is always freed, a
reset never hits the next session. Sync: each answer is applied in the phase that
asked for it, and the phase always returns to idle. Inbox: an acknowledged message
is stored, shown once, in its sender's thread, and gone once cleared. Browser: screen,
address and history agree, the node does not learn who we are, every fetch ends.

`PROJECT.json` lists all components with their status, and under `hazards` the lines
where these things can go wrong, each with the properties that watch it or the
reason there is none yet.

## 2. Modules

| Module | What it is |
|---|---|
| `ResourceTransfer` | one link's Resource transfer: both ends, the network, two receiving threads |
| `LargeDelivery` | what a transfer promises the application; `ResourceTransfer` implements it |
| `ResourceTransferProofs` | TLAPS theorems about `ResourceTransfer` |
| `Outbox` | the delivery engine, the transport entries it relies on, the network and the clock |
| `OutboxProofs` | TLAPS theorems about `Outbox` |
| `HubConnection` | the TCP connection to the hub: manager, shared writer, watchdogs, watchers |
| `HubConnectionProofs` | TLAPS theorems about `HubConnection` |
| `Inbox` | what happens to a message that arrives: readers, UI thread, chat server, PDDB, crashes |
| `InboxProofs` | TLAPS theorems about `Inbox` |
| `Sync` | the download from the propagation node: one `SyncState`, several threads, the node |
| `SyncProofs` | TLAPS theorems about `Sync` |
| `Browser` | the page browser: one `BrowserState`, several threads, the document view, the node |
| `BrowserProofs` | TLAPS theorems about `Browser` |
| `TransportTables` | all bounded tables of the transport with their order queues |
| `TransportTablesProofs` | TLAPS theorems about `TransportTables` |
| `MCResourceTransfer`, `MCOutbox`, `MCHubConnection`, `MCInbox`, `MCSync`, `MCBrowser`, `MCTransportTables` | constants for TLC |

The modules overlap where components do: what the outbox, a sync or the browser need of
the transport (the entry of one peer, the link to one node) is state of their modules, with
every change that others can make to it as an action; `TransportTables` is the whole of it,
without the users. `Inbox` starts where `ResourceTransfer`'s `Deliver` and `Sync`'s
`DeliverSynced` end.

Operators called `Mut...` are plausible wrong versions of the definition that follows
them. Substituting one for the definition makes TLC violate the property that
`PROJECT.json` pairs it with, which shows that the property depends on that code.
No specification refers to them.

### ResourceTransfer

The pure operators carry the names of the Rust methods: `accept`, `next_request`,
`receive_hashmap_update`, `receive_part`, `is_complete` of `ResourceReceiver`,
`handle_request` of `ResourceSender`. A part is its index; a map-hash is the lowest
index whose part has that 4-byte hash, so collisions exist where `MapHash` says so and
`position` finds the first. `known` is the set of indices with `map_hashes[i] = Some`.
The `expect("known prefix")` is `RequestPanics`: it sets `poisoned`, after which
nothing takes the mutex again, as `plock` panics on a poisoned mutex.

The driver `inbound_resource` is an action per context (`RecvAdv`, `RecvPart`, `RecvHmu`) and
two more for what happens after the critical section: `Assemble` (take the receiver out
under the lock, decrypt, verify, prove) and `Deliver` (`deliver_lxmf`). Any thread of
`RxThreads` may run any of them, so two threads can both see the last part in.
`outlink_resource` is the same code on links we opened. The network is a set:
packets arrive in any order; `Faults` adds loss, duplication, loss of the link on
either side, and eviction from the full `in_resources` table by another link's
advertisement.

Abstracted: msgpack, encryption, compression. `Intact` is the outcome of decrypting and
hashing the assembled stream. A resource is never sent again under the same hash
(each send draws a fresh random hash), so a retry is another element of `Resources`.

### Outbox

State: `outbox`/`msg` are the Vec and its entries (the Vec is in `display_ts` order, which
`last_ts` makes unique, so a set of numbers suffices), `bubble`, `active` and `held`
the chat dialogue, the active peer and `delivery_updates`; `known`, `path`, `link`, `pend`
the transport's entries for peers and node, `back` the back-channels, `costs` the
announced stamp costs; `hasNode` whether the build has a propagation node (it is compiled in,
so the variable never changes, and `Builds` are the builds to check); `task` and `verdict` the local state of each thread. `proofs` holds
the proofs still on their way whose receipt and link still exist; `reached` is a ghost
that records where each message really arrived.

`pump_outbox` holds the outbox lock for a whole pass. `pass` is its holder and loop index;
each loop iteration is one step per stage (`PassDeadline`, `PassProofTimeout`, then the
propagation branch `PassPn...` or the direct branch), because transport and
back-channels are under locks of their own and may change between stages: a link may
vanish between its look-up and the send. A stage that falls through to the next one in
the code leaves the index where it is. Every other user of the outbox waits for `Free`.
Marks are shown after the unlock (`update_mark`), so another thread can get in between.

`post` is two steps: it shows the bubble and looks up the peer's stamp cost (`Post`), packs, signs
and saves the contact, and only then pushes the entry (`enqueue_outbound`); `draft` is the message
in between. The announce handler is three: it stores the cost (`Announce`), looks it up again
after saving the contact (`LookUpCost`), and sweeps the outbox with it (`OutboxOnAnnounce`, entry by
entry `Swept`). The ghost `overtaken` marks a message whose peer announced while it was the
draft, until a sweep has reached it.

Mining is three steps: snapshot under the lock, time passing (`Tick` is allowed while the
pump thread mines), and storing the result into the entry found again.

Time is relative: `wait` is `next_action - now`, `left` is `deadline - now`, `pend` the remaining
life of a link request (1 = expired, not yet pruned). `Tick` happens between the
threads' steps: they take milliseconds, a tick is a second; a pass samples the
clock once.

The network owes nothing: path requests (`asked`), link requests (`pend`) and packets
(`proofs`) may be answered at any later time or never, at the price of an `event` if
they are lost. `events`, bounded by `MaxEvents`, also counts announces and
identifications nobody asked for, failed writes, lost links and connection resets.

Left out: the wording of status lines, the choice among stored keys and ratchets, the
sync that may share the node's link (it appears as the choice `syncing`, which keeps
a link that timed out, and as `LinkLost`), and the atomicity of `update_mark` against a
switch of dialogue: the code may find the dialogue inactive, the user open it, and only
then the verdict be queued (`net.rs` 4385), so that the bubble stays pending until
the dialogue is opened again.

### HubConnection

`pc` is where the manager, the keepalive thread and the watchers are, `w` where each
thread is inside `hub_write`; a thread inside `hub_write` does not move otherwise.
`hub_write` is `Lock` or `Busy` (two seconds without the mutex), then `Wrote`, or
`WriteError` and `WriteFailed`, which keep the mutex while `connected` and `ctl` are cleared.
`force_reconnect` is two steps, `ClearConnected` and `Shoot`, and what made the
caller call it is a step before them, so a decision may be stale when it is carried
out. The manager arms `writer`, `ctl` and `connected` in three steps and drops them in
three, the last with a bounded wait. Every access of `connected`, `ctl` and
`write_started` by another thread can fall between any two of these.

Sockets are `open`, `dead` (held across a suspend or a change of network: reads time out,
writes are buffered, block or time out, and a shutdown may not be honoured, as the
comments at `net.rs` 774-779 and 1951-1955 report from the device) or `shut`. Their numbers
are taken again once no handle refers to them. `CanBlock` are the threads whose write to a
dead socket has no working timeout; the comment at 1803-1805 says that this happens.
Ages are classes of the thresholds they are compared with.

Left out: what the end of a session does to links, transfers, sync and browser (their
modules have it as `connection_reset`), backoff times, the thread-death detector and the
recorded reason of a disconnect, which only produce status text. The keepalive
thread is assumed to have its random generator; without one the silence watchdog is off.

### Inbox

`deliver_lxmf` is the reader's chain `Arrive` (acknowledged by the proof before, or the sync's
confirmation after), `Dedup`, `Route`, then `PostToChat` and `SavePost` for the thread on screen
or `Hold`, `PersistHeld` and `Badge` for another; the UI thread's `activate_peer` the chain
`ActivatePeer`, `DeletePeerKey`, `WritePeerKey`, `SwitchDialogue`, `TakeHeld`, `FlushOne`, `ClearBadge`, `DeletePending`,
`SaveFlushed`; `clear history` the chain `ClearHistory` to `DropPending`. The chat server is
another process: posts, saves and switches are messages in its FIFO `queue`, and a post
goes to the dialogue open when it is served (`ServeAdd`, `DeleteDialogue` and `ServeSave`, `ServeSet`).
`savedPeer`, `savedHeld` and `saved` are the PDDB; `Crash` keeps those and nothing else. The code
replaces a PDDB value by deleting the key, which the PDDB syncs to disk at once, and then creating
and writing it; these are two steps of the model, for the dialogue (`DeleteDialogue`, `ServeSave`), the
held list (`Hold`, `PersistHeld`, both under the mutex of `pending`, hence `PendingFree`) and the
active peer (`DeletePeerKey`, `WritePeerKey`), and a crash may come between them.
Held lists and badges are kept by message: `pending[m]` is how often `m` is in its sender's list,
and a peer's badge is the total of `unread` over the peer's messages.

The ghosts name the exceptions. `raced` are messages whose delivery overlapped a switch or a
clear, and all of a peer's messages when a clear of its thread meets a queued save or a
delivery, which may write the dialogue back. `caught` are acknowledged ones that a crash took
while they were `Exposed`, which is said by what the threads are doing and not by the loss: the
message is being delivered, its sender's held list is being written again or has been taken to be
flushed, its thread is being cleared, its post is in the queue, or it is in the dialogue on screen
with a save in the queue. `blurred` are peers that the user opened or cleared while a
delivery had decided to hold a message for them; the next opening or clear without one, or a restart,
takes them out. `wiped` are those the user cleared; a crash in the middle of the clear takes
them out again. `repeat` counts the times a message may rightly be shown again: its id fell out of
`recent_msg_ids`, or a crash found it both held and in its thread.

Left out: tickets and the sender's name, which `deliver_lxmf` stores beside the message, and PDDB
writes that fail, which the code logs or ignores.

### Sync

`sync` is `SyncState` without the wanted ids (an answer carries its own), `work` what each thread
is doing between two acquisitions of the lock. `maybe_auto_sync` is `WakeStalled`,
`WakeLinking`, `WakeRequested` or `WakeAuto` and what follows; `start_sync` is `StartSync`,
`BeginLinking`, `Lookup`, then `UseLink` or `AskLink`, because it lets go of the lock between
them; `sync_on_link_up`, `sync_on_outlink_data` and `handle_sync_response` are steps of
the readers; `sync_finish` is `Finish` and `DropOutLink`, by any thread. The hub's reader is
the connection manager and ends a sync when the connection drops (`ConnectionLost`,
`EndSync`). The transport holds at most one link to the node or one request for it, and the
outbox may have asked for it (`OutboxAsks`). The node answers what it was asked in order, with
any non-empty part of what was wanted, in a packet or as a Resource, or with an error
or by closing the link. An answer does not say which request it belongs to, as in the code.
Link ids are taken again when nothing refers to them. `MaxLinks` bounds how many are referred to
at once (the guard of `NewLink`), not how many links there are over time.

### Browser

Like `Sync`, with the user. `b` is `BrowserState`; `screen` holds the chat library's shown,
staged and suspended documents. `request_page` is `Accept` (called by `OpenPage`,
`RequestBack`), `browser_tick` is `TickStalled`, `TickLinking` or `TickJob`, `start_fetch` the steps
`StartFetch` to `AskLink`, `page_received` is `PageReceived`, `DocumentBegin`, `DocumentShow`: the
state changes first, then the screen. `browser_back` is `PeekBack`, `RequestBack`,
`MarkPop`; `browser_suspend` and `browser_resume` ask the chat server in between. `Identify` is the
decision in the link-up handler to tell the other end who we are. The ghosts: `wanted` is
the last request accepted, with its push or pop, and `mixed` when another thread got between that
request's steps; `identified` and `orphan` say of the link
whether the node knows us and whether its fetch had ended before it came up; `crossed`
that at some time two threads were at work at once, that is, in the middle of any piece of
work on the browser (waiting to retry and noticing a lost connection aside). It stays set.

One node only. Left out: micron parsing, resolving relative links, bookmarks.

### TransportTables

A table is a map and its order queue; `Put` is the seven `insert_...` methods, which differ only
in the table and its cap, `Drop` removes a key from both, `Forget` from the map only, as the code
does for answered requests and receipts. Every method and every branch of `handle_frame`
that changes a table is one action, since all run under the transport's lock. The
environment calls them in any order and delivers any frame at any time. `session` tags
entries with the hub session they were made in. `sent` and `locked` are the other end
of an inbound link: the keys we have proved to it and the one it took.

## 3. Runs

| Run | Specification | Checks | Instance | States |
|---|---|---|---|---|
| `resource_faulty` | `Spec` | `TypeOK`, `ExpectHolds`, `Accounting`, `DeliveredOnce`, `TransferInv`, `ImplementsLargeDelivery` | resources of 7 parts (four pages of two), 3 parts with two equal map-hashes, and one too large; two threads; loss, link loss, eviction | 132 K |
| `resource_live` | `FairSpec` | `NeverSilent`, `TransferCompletes` | 7 parts, four pages, window from 2 to 4, reordering only | 258 |
| `resource_dup` | `Spec` | `ExpectHolds`, violated | the same with duplication | - |
| `outbox_one` | `Spec` | `TypeOK`, `OneFate`, `MarkIsTrue`, `SnapshotIsFresh`, `StampBeforeSend`, `NodeBeforeFailure` | one message, tickets, both stamp costs, any saved keys, two events | 2.5 M |
| `outbox_two` | `Spec` | `MarkIsTrue` | two large messages to one peer, one event | 2.0 M |
| `outbox_settles` | `FairSpec` | `EveryMessageSettles` | one message, with a node and without | 80 K |
| `outbox_offline` | `PromptSpec` | `StoredWhenOffline` | one message to each of two unreachable peers, a reachable node | 2 K |
| `hub_session` | `FairSpec` | `SessionCoherent`, `WatchdogArmed`, `StaysUp` | one writing thread, whose write may hang, besides manager and keepalive, all watchers, two faults | 310 K |
| `inbox` | `Spec` | `TypeOK`, `NoDuplicate`, `RightThreadUnlessRaced`, `KeptWhenQuiet`, `BadgeIsTrue`, `ClearedIsGone` | a message from each of two peers, three arrivals, two readers, two operations of the user, one crash | 4.7 M |
| `sync` | `FairSpec` | `TypeOK`, `DeletedWasDelivered`, `OneLinkToNode`, `NoLostLinkUp`, `AnswerAsAsked`, `EverySyncEnds`, `FetchedWhenCalm` | two messages at the node, one request, one event | 378 K |
| `browser` | `FairSpec` | `ScreenIsTrue`, `AnonymousUnlessOrphaned`, `HistoryAsWanted`, `EveryFetchEnds` | two pages, three acts of user or network | 830 K |
| `tables` | `Spec` | `TablesInv`, `OneSession`, `KeyAgreed` | three destinations, two ids of each kind, caps of one (two routes) | 166 K |

What they show:

* **Resource.** Whatever is lost, reordered, evicted or torn down, the known hashes
  are a prefix that ends on a page boundary, the `expect` holds, the three counters
  of the receiver agree with the parts it stores (even when colliding parts land in
  each other's slots), no payload is handed over twice, and a sender that is told
  "delivered" is told so about a payload that was verified. Losing nothing, the
  transfer always completes, and until then something is always under way.
* **Outbox.** While a bubble is pending the message's fate lies in exactly one place
  (outbox, a thread's hands, held updates), and afterwards nowhere, although proofs,
  deadlines, failed stamps, clearing and passes of two threads race for it. The
  delivered mark is never false. A first direct send to a peer that announced a stamp cost
  carries a stamp, but for two windows of a few lines (section 5). Every message settles under any network, with
  and without a node; a message to an unreachable peer is stored at a reachable node
  within the budgets, and no pass gives up before the node was tried.
* **Hub.** In a session no handle refers to an earlier socket, although a write may
  outlast its session and clean up in the next one's time. The watchdog's flag is set
  exactly while a write is in progress. However a connection is lost, and whoever
  tears it down at whatever moment, a hub that stays enabled is connected again, unless a
  write hangs for ever (`write_started` stays 2): see section 5.
* **Inbox.** What is acknowledged is stored when the threads rest, in its sender's thread
  or held for it, shown no more often than there was reason to, and the badges count
  what is held. What the user cleared does not come back. Each of these has exceptions, which
  are behaviour of the code and which the ghosts name: a delivery that overlaps the user's switch
  or clear (`raced`, and `blurred` for the badge), a save still queued when the thread is cleared, a
  crash between the acknowledgement and the first write, a crash while the dialogue or the held list
  that stores the message is deleted and not yet written again, and a crash in the middle of a clear.
* **Sync.** The node deletes nothing that was not handed on here, although answers carry no
  mark of their request, are late, and two threads move the phases. No retry opens a second
  link and no link-up is missed. Every sync returns to idle, and an undisturbed one
  fetches without the user.
* **Browser.** As long as no two threads were ever at work at once, the page on screen between two
  pieces of work is the one address, links and keys belong to, and a suspended one waits where
  resuming looks for it; after an overlap nothing is claimed of the screen. Whatever
  overlaps, a page is the one last asked for and the history becomes what its request meant,
  unless another thread got between the steps of that very request; failed
  fetches and retries leave no trace on it. A link whose
  fetch is still waited for stays anonymous. Every fetch ends.
* **Tables.** No table outgrows its cap, every entry can be evicted, no entry of an old hub
  session survives, and both ends of an inbound link keep one key however often
  its request is repeated while we hold the link.

Two invariants of `ResourceTransfer` are proved and not listed in a run, because `TransferInv`
implies them: `KnownPrefix` and `ConfirmedIsDelivered`.

**Bounds, and why they are enough.** A page of two map-hashes, a window of two to
four and seven parts make the window cross page boundaries at every alignment,
need three updates with the last page half full, and reach `WINDOW_MAX`.
In the outbox, times are scaled to a few seconds with the order that matters kept
(a pending request expires no earlier than its retry is due; the direct budget is larger than one
retry cycle and, in `outbox_offline`, the propagation budget larger than path, link,
blob and proof together); the liveness run uses a direct budget of 8, longer
than a full cycle of route, link and rediscovery, so that starting over happens. The `MAX_*`
are 1 (`MAX_ATTEMPTS` 2 where retries matter, `MAX_LINK_TRIES` and `MAX_DIRECT_ROUNDS`
are 1 in the code too). Two events are enough for a loss followed by an unasked
announce, or a back-channel that appears and vanishes; the safety violations
found need at most two. One reader and the pump already
give two concurrent passes and a proof racing a deadline.
In the hub connection the number of sessions is not bounded, only the faults
(closing, death, a lost probe answer, each menu or watcher event): two let a second
one strike while the first is being repaired. One further writing thread,
the manager's own writes and the keepalive's already contend for the mutex.
In the inbox three arrivals of two messages give a redelivery after its id was
forgotten (`MAX_RECENT` is 1) and two deliveries at once; two user operations a switch away and back
or a switch and a clear; one crash strikes at every step. In `Sync` and `Browser` all deadlines and
retry counts are one: a deadline can be hit, a retry can succeed or be the last. `MaxEvents` bounds
losses and what others do unasked, `MaxRequests` the user's requests (the automatic
sync comes on top, so two syncs can follow each other); `MaxActs` is one bound for everything
user and network do in the browser: three are open, open again, back; or open, loss, open;
or open, exit, resume. In the tables a cap of one makes every insertion an eviction, and
routes have two places so that eviction from the middle of a queue happens too. `MCTransportTables`
also has TLC evaluate `RetainFilters`: `Retain`, which is defined without recursion so that it
can be proved about, agrees with `SelectSeq` on all sequences of up to four of three keys.

`CHECK_DEADLOCK FALSE` for transfers, outbox and inbox: once all messages have settled or been
delivered, or all resources are transferred or lost, the modelled part of the program
rests until it is used again. `SYMMETRY` is used only in runs without temporal properties.

**Fairness.** `ResourceTransfer`: a device keeps handling packets that arrive and
threads finish what they started (weak fairness); used only with no faults. `Outbox`:
a thread that runs keeps running (weak fairness of `update_mark`, `PassStep`, `EndPass`);
a thread that polls for a mutex that is free again and again gets it (strong
fairness of the steps that need `Free`; `plock` retries every 5 ms and the lock is held
for far less of the time); the clock advances again and again (strong fairness
of `Tick`). Nothing is assumed of the network or the user. `PromptSpec`, only for
`outbox_offline`, adds that a reachable node answers what it is asked, and `Prompt` that
it does so before the next second. `HubConnection`: threads run and finish what they
started; the manager, which polls for the writer mutex every 5 ms, gets it in the end
(strong fairness of `ArmWriter`; a write holds it for milliseconds); a dial repeated for ever
succeeds (strong fairness of `DialOk`: the hub is reachable now and then); time passes on
a dead connection. It is not assumed that a dead socket takes another byte, that a
shutdown of one is honoured, or that the hub sends anything. `Sync`: each thread finishes
what it started, and the sync thread wakes every second (weak fairness per thread); the
network owes nothing. Only `FetchedWhenCalm` has a hypothesis that it answers. `Browser`:
only the browser thread is assumed to run. That is enough for every fetch to end: nothing
the user, the readers or the network do or fail to do can prevent it.

## 4. Proofs

Every invariant the runs check is proved for all values of the constants; "Only model-checked"
below names what is not. Each proof module opens with its inductive invariant, has lemmas for
the operators, then a lemma per action or per conjunct, then the theorems.

### ResourceTransfer

For any number and size of resources, any page and window size and any number of threads, from
`ConstantsAssumption`:

* `TypeCorrect`: `Spec => []TypeOK`, with all faults.
* `AccountingHolds`: `Spec => []Accounting`, with all faults, duplication included.
* `TransferInvariant`: `Spec => []TransferInv`, if packets are not duplicated.
* `PrefixSafe`: `Spec => [](KnownPrefix /\ ExpectHolds)`, under the same assumption.
* `DeliverySafe`: `Spec => [](DeliveredOnce /\ ConfirmedIsDelivered)`, likewise.
* `RefinesLargeDelivery`: `Spec => ImplementsLargeDelivery`, likewise.
* `NeverSilentHolds`: `Spec => []NeverSilent`, if no two parts of a resource share a map-hash
  (`HashesDiffer`).

Duplication has to be excluded: `resource_dup` violates `ExpectHolds` with it.

`KnownPrefix` is not inductive: a page on its way could leave a gap. `TransferInv` adds
why it cannot. `PrefixKnown`: the known hashes are a prefix ending at a page boundary.
`NoPageAhead`: no update on its way begins beyond that prefix, and no request on its way names a
hash beyond it. `AdvIsFirst`: an advertisement still on its way is the only packet of its
resource, so the receiver it creates meets nothing of an earlier round; this is the part
that duplication breaks. `HandedOnce`: an accepted resource has left the table and
is delivered or held by exactly one thread. `ProofsAreTrue`: every proof on its way or
received is of an accepted resource.

`NeverSilent` needs to know that what the receiver counts as outstanding is really on its way:
`SomethingAwaited` says that `outstanding_parts` is at most the number of empty slots whose part is in
a packet or asked for in one, or, while it waits for a page, that the page or the
request for it is under way. A part with the same map-hash as the last known one would make
`handle_request` look up the wrong page, hence `HashesDiffer`. The sender makes its 4-byte hashes
without looking for collisions (`resource.rs` 363-371), so this is a hypothesis, true
of most resources, and not a fact.

### Outbox

For any messages, peers, threads, costs and limits, from the module's named assumptions
(`MsgsAssumption` to `EnvironmentAssumption`):

* `TypeCorrect`, `OneFateHolds`, `MarkIsTrueHolds`, `SnapshotIsFreshHolds`: `Spec => []` of the
  property each is named after.
* `StampBeforeSendHolds`, `NodeBeforeFailureHolds`: `Spec =>` the action property.

`Inv` is `TypeOK /\ Entries /\ Armed /\ Passing /\ MineFresh /\ Fates /\ NetTrue /\ MarksTrue`.
`Entries` relates the fields of one entry (what was sent to the node is on the propagation path, a
message that awaits a stamp was never sent, a ticket's stamp is in the bytes). `Armed` is why a first
send is stamped: an entry never sent, and the draft, of a peer with a stored cost has its stamp or
awaits it, or is overtaken, or a reader is between storing that cost and its sweep. It is
no fact about one entry: it relates the entries to `costs`, to post's look-up and to what every reader is
doing. `Passing` says that a thread in a pass is not handling a packet. `MineFresh`
says that the miner's snapshot agrees with the entry it was taken
from, or the user has cleared the message: passes leave stamp and bytes of an entry alone. `Fates`
says where a pending message's fate lies, and that no second verdict exists. `NetTrue` and `MarksTrue` are why a mark is true: every
proof under way, every verdict a thread carries and every held update speaks of a packet
that arrived.

### HubConnection

For any threads, any faults and any `CanBlock`, from `ThreadsAssumption`:

* `TypeCorrect`: `Spec => []TypeOK`.
* `WatchdogStaysArmed`: `Spec => []WatchdogArmed`.
* `SessionsStayCoherent`: `Spec => []SessionCoherent`.

Their inductive invariant `IInv` adds `NoCtlWhileDown`: between sessions `ctl` is empty. It is
needed for the types (a dial must find a free socket number) and for `SessionCoherent` (an
old `ctl` would survive into the new session). The step proofs use that
away from the manager a handle only becomes empty and `connected` only false, and that
only `hub_write`, and the manager with the mutex free, touch what `WatchdogArmed` is about.

### Inbox

For any messages, peers, readers and bounds, from `SenderAssumption` and `InboxBounds`:

* `TypeCorrect`: `Spec => []TypeOK`.
* `RightThreadHolds`: `Spec => []RightThreadUnlessRaced`.
* `KeptWhenQuietHolds`: `Spec => []KeptWhenQuiet`.
* `BadgeIsTrueHolds`: `Spec => []BadgeIsTrue`.
* `ClearedIsGoneHolds`: `Spec => []ClearedIsGone`.
* `NoDuplicateHolds`: `Spec => []NoDuplicate`.

`ThreadInv` looks into the chat server's queue: behind every queued post of an unraced message the
last switch in front of it, or the thread on screen, is the sender's thread, and a thread the UI has
switched to is the one at the queue's end. `KeepInv` follows a known message from its reader to
the PDDB: it is stored, or in memory with a write still to come (the save that will take it from the
queue or the screen, or the held list that a reader is writing again), and its held copy is
deleted for good only when it has moved on. Each of these places is one that `Exposed` names, so a crash that
loses it is excepted; that the places are all is what the proof shows. `BadgeInv` says
which of badge, list and stored copy may differ while readers are between their steps and at which
stage of the UI, and that the UI and a reader meet at one peer only if it is blurred. `GoneInv` says that
after a clear no post, no open dialogue and no stored copy has the message, stage by stage.
`DupInv` bounds the copies of a message, those a reader still carries included, by its budget: one
if its id is in `recent_msg_ids`, and what `repeat` has granted. A crash turns stored held
copies back into held ones, so `HeldCopies` says what each of them is a copy of at every stage of
the UI. The copies in the dialogues are counted as one finite set of (dialogue, number) pairs, to which
a step adds or from which it removes; a sum over the dialogues would have needed an induction.

### Sync

For any messages, readers, deadlines and retry counts, from `SyncTimes` and `SyncThreads`:

* `TypeCorrect`: `Spec => []TypeOK`.
* `NodeDeletesOnlyDelivered`: `Spec => []DeletedWasDelivered`.
* `AtMostOneLink`: `Spec => []OneLinkToNode`.
* `NoLostLinkUpHolds`: `Spec => []NoLostLinkUp`.
* `AnswerAsAskedHolds`: `Spec => []AnswerAsAsked`.

A confirmation passes through three places: a reader that has delivered a batch and is about
to confirm it, the request on its way, the node's store. `IInv` says of each that it names only
messages already dealt with (`WorkInv`, `RequestInv`, `DeletedWasDelivered`), which is
inductive because `got` never shrinks. `AnswerInv` is needed because a reader takes the form of an
answer as its next step, which must not be the confirming one. `OneLinkToNode` is
inductive as it stands. `Told` is why no link-up is lost: while a sync waits for a link that is
up, some thread is about to tell it. `AskInv` counts requests and answers: as long as no two
threads crossed (`OneBeginner`), at most one is under way, and of the kind the phase waits for.

### Browser

For any pages, readers, links and tries, from `NoPageIsNone`, `BrowserTimes` and `BrowserThreads`:

* `AnonymousUnlessOrphanedHolds`: `Spec => []AnonymousUnlessOrphaned`.
* `ScreenIsTrueHolds`: `Spec => []ScreenIsTrue`.
* `HistoryAsWantedHolds`: `Spec => HistoryAsWanted`, an action property.

`AnonInv` says that a link asked for, or come up and not yet looked at, is an orphan's or belongs
to a fetch still in progress, so the reader that brings it up sees the fetch. `BrowserInv` joins what the screen
needs: `FlowInv` (only one thread is at work, and what it found out about phase, link and traffic is still
so) and `DocInv` (the chat library's document slots against `b`), both while `crossed` is false, and `UiInv`,
that the UI thread never works for a fetch. `HistoryAsWanted` does not need that threads take
turns: `WantInv` says, whatever crosses, that a request not `mixed` is in exactly one place (armed, in
the browser thread's hands or being fetched) with its own page and flags.

### TransportTables

For any ids and caps, from `TableCaps`:

* `NothingOutlivesItsSession`: `Spec => []OneSession`.
* `EndsAgreeOnKey`: `Spec => []KeyAgreed`.
* `TablesHold`: `Spec => []TablesInv`.

Lemmas say what `Put`, `Drop` and `Forget` do to the map: an insertion keeps its own entry, and
whatever is evicted or removed, no other entry changes. `KeyInv` is why the ends agree: until a
link is lost, at most one key was ever generated for it, and none for a link we never had. A lost link
(evicted, closed, reset) is outside the theorem: if its request is repeated afterwards it is
answered with a second key.
`QueueInv` has one part per group of tables: queue and map agree, the queue repeats nothing
and is within its cap. What a removal leaves of a queue is `RetainFacts`: the kept positions are
counted off one to one against the places of the result, so no induction is needed.

### Only model-checked

Everything about liveness (`TransferCompletes`, `EveryMessageSettles`, `StoredWhenOffline`, `StaysUp`, `EverySyncEnds`,
`FetchedWhenCalm`, `EveryFetchEnds`): fairness is outside the prover's reach.

## 5. Where the code and its comments disagree

* **A duplicated advertisement can end in a panic** (`resource_dup`). `broadcast_out` sends
  on every interface and says that receivers de-duplicate by packet hash (`net.rs`
  2174), but no receiving path does. A second copy of the advertisement restarts
  the receiver; a later page already on its way then arrives before the page
  in front of it, `hashmap_height - 1` names an unknown hash, and the `expect` at
  `resource.rs` 203 panics with `in_resources` locked.

The models contain the following as well. No run is devoted to them: each is an exception that
a property names, or was read off a counterexample while a property was being stated.

* **Outbox.** The deadline's backstop sets `via_pn` but leaves `in_flight`, so the late proof of
  the direct packet is shown as "stored at the node" (`net.rs` 3890-3894, 4352); the message did
  reach its peer, so the mark understates it and `MarkIsTrue` holds.
  `compute_pending_delivery_stamp` clears `needs_stamp` and does not set `stamped` (3630): a second
  announce re-arms it (983), and `append_stamp` refuses bytes already stamped, which the
  comment at 3618 says cannot happen, and the message fails. The first message on the
  propagation path whose recipient's key is unknown is picked again in every round and starves the
  blobs of the others (3802-3819). The blob of a message escalated before its stamp was
  asked for stays unstamped (4036). A cost can pass a message by: `post` reads it (`lib.rs` 553) and
  pushes the entry 33 lines later (586), so an announce whose handler runs in between finds no entry to
  arm; and between the handler's storing of the cost (`net.rs` 943) and its sweep (975) a pass of the pump may
  send. Either way the message goes out without the stamp, and its recipient drops it. A
  cost that is announced higher later does not replace the one a message is armed with (983). A link-up's pass skips the message it is for while its
  `next_action` lies two seconds ahead (4326). The outbox mutex is held across writes that may
  block (3872).
* **Hub.** `force_reconnect` keeps `write_started` armed so that the watchdog "re-fires each tick
  and keeps re-shooting the socket until the write dies" (2118-2119), but its first call
  takes the handle out of `ctl` (2121); if that shutdown is not honoured the later ones have no
  socket. `hub_enabled` is read only at the top of the manager's loop (613): a hub switched off
  during a dial is connected and stays so, against the comment at 365-366. The keepalive frame
  is written by the thread that runs the stuck-write watchdog (1945).
* **Inbox.** `current_peer` changes before the chat server has switched (`lib.rs` 684-687), so a
  message delivered in between is posted into the thread being left. The delivery proof
  goes out before the message is stored (`net.rs` 1383), and `activate_peer` deletes the held copies
  before the dialogue that now has them is saved (`lib.rs` 701): a crash in either gap loses a
  message the sender shows as delivered. Saving deletes what is stored before it writes it again: a
  crash between `ui.rs` 313 and 320 loses the whole dialogue on screen, one between `lib.rs` 1559 and 1566 every
  message held for that sender, however long they had been stored; one inside `write_string` (`lib.rs`
  1392-1395) only the choice of the thread to open. A peer opened while a delivery is
  between its routing decision and its badge (`net.rs` 1724-1752) keeps a badge for a list already
  flushed, or a held message that the badge or the PDDB does not have. Clearing a thread deletes the dialogue first and the held
  copies last (`lib.rs` 907), so a crash in between brings held messages back; and a save
  queued before the clear, or sent by a delivery that overlaps it, writes the cleared dialogue back.
* **Sync.** When the sync thread and a reader both act on one link-up, two list requests go
  out and the second list is taken for message blobs, which decrypt to nothing. A request
  made while `sync_finish` runs is swallowed by it. Synced messages that do not decrypt are confirmed
  all the same, and deleted at the node.
* **Browser.** A request accepted while the browser thread holds the previous one takes over its
  push and pop flags, or is overwritten when that one is put back (2917). Leaving the browser
  between `page_received`'s update and `DocumentShow` leaves the page on screen with
  `viewing` false, where no key leads out of it. A page that arrives while the main
  menu is open and "Browser" is chosen: `browser_resume` finds no parked document and drops address
  and history, although the comment at 3455 says that "shouldn't happen". A link proof that
  arrives after its fetch was given up identifies us on a link the next fetch will use; the
  comment at 1113-1116 says never on a link the browser opened.
* **Tables.** A LINKREQUEST repeated after its link was evicted, closed or reset is answered with a
  new key, and an initiator that took the first proof cannot use it. Answered requests and receipts leave their key in the queue (`transport.rs` 503), so
  they count against the cap and may evict live entries early. A peer heard again keeps its
  place in the queue (295), so eviction is by first and not by last announce. `connection_reset`
  also drops links over the local interface. `out_resources` keeps the Resource of a link
  that was evicted, or of an inbound link that was closed, until a proof or the next reset. `pop_first` evicts the
  inbound transfer with the smallest link id, not the oldest (`net.rs` 1313).

## 6. What is left

Every component listed as modelled or partly modelled has its module, its run and its proofs.

Still worth doing:

1. `Outbox` composed with the writer of `HubConnection`, for the lock held across a blocking write.
2. AutoInterface's peer expiry.

**Not modelled.** The cryptographic primitives and the byte codecs, HDLC, packets, announces,
msgpack, LXMF and micron among them (number theory and string processing, which the
repository's test vectors cover; the models use whether a packet validates or a stream is
intact); AutoInterface discovery (what it means for the others is in `RxThreads`, `Readers`
and the duplicate fault); contacts, menus and settings beyond what touches a modelled component
(modal dialogs and single PDDB writes); the host client (a test driver); the Python reference and
the rest of the operating system, which are not this program's own.
