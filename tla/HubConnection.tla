---------------------------- MODULE HubConnection ----------------------------
(***************************************************************************)
(* The TCP connection to the hub (apps/lxmfchat/src/net.rs): the manager   *)
(* thread dials, runs the read loop and dials again; any thread may write  *)
(* through the shared writer; the keepalive thread probes the connection   *)
(* and breaks writes that hang; the menu, the Wi-Fi watcher and the        *)
(* suspend watcher force a reconnect.                                      *)
(*                                                                         *)
(* Three handles of one socket are shared: writer (a mutex held across the *)
(* whole write), ctl (a clone used to shut the socket down from outside a  *)
(* hung write) and the atomic flag connected.  A socket is open, dead      *)
(* (nothing moves and nobody says so: it was held across a suspend or a    *)
(* change of network) or shut.  Sockets have numbers, taken again once no  *)
(* handle refers to them; two are enough, the manager's own and the one a  *)
(* write of an earlier session still hangs on.                             *)
(*                                                                         *)
(* Ages are classes: write_started is 0 (no write), 1, or 2 once older     *)
(* than WRITE_STUCK_SECS; silent is 0, 1 past PROBE_AFTER_SECS, 2 past     *)
(* DEAD_AFTER_SECS.                                                        *)
(***************************************************************************)
EXTENDS Naturals

CONSTANTS
    Writers,        \* threads that write now and then: pump, sync, readers, UI
    Watchers,       \* of "menu", "wifi", "resume": they force reconnects
    CanBlock,       \* threads whose write to a dead socket never times out
    MaxFaults       \* bound on what befalls the connection from outside

ASSUME ThreadsAssumption ==
    /\ Watchers \subseteq {"menu", "wifi", "resume"}
    /\ Writers \cap {"mgr", "keep", "none", "menu", "wifi", "resume"} = {}
    /\ MaxFaults \in Nat

VARIABLES
    enabled,        \* shared.hub_enabled
    connected,      \* shared.connected
    sock,           \* the state of each socket
    writer,         \* shared.writer: a socket, 0 for None
    wlock,          \* the holder of the writer mutex
    ctl,            \* shared.ctl: a socket, 0 for None
    write_started,  \* shared.write_started, as a class
    silent,         \* now - shared.last_inbound, as a class
    pc,             \* where each thread is
    w,              \* where each thread is inside hub_write
    cur,            \* the socket of the manager's session
    faults          \* outside events so far

flags == <<enabled, connected>>
handles == <<writer, wlock, ctl, write_started>>
vars == <<enabled, connected, sock, writer, wlock, ctl, write_started, silent,
          pc, w, cur, faults>>

Sockets == {1, 2}
WriteThreads == {"mgr", "keep"} \cup Writers
PCs == {"park", "dial", "arm", "ctl", "up", "announce", "path", "top", "recv",
        "down", "unctl", "unwrite", "sleep", "wake", "clear", "shoot", "beat", "idle"}
Fault == faults < MaxFaults /\ faults' = faults + 1

Init ==
    /\ enabled \in BOOLEAN /\ connected = FALSE
    /\ sock = [s \in Sockets |-> "none"]
    /\ writer = 0 /\ wlock = "none" /\ ctl = 0
    /\ write_started = 0 /\ silent = 0
    /\ pc = [th \in {"mgr", "keep"} \cup Watchers |->
               CASE th = "mgr" -> "park" [] th = "keep" -> "sleep" [] OTHER -> "idle"]
    /\ w = [th \in WriteThreads |-> "no"]
    /\ cur = 0 /\ faults = 0

At(th, s) == pc[th] = s
Go(th, s) == pc' = [pc EXCEPT ![th] = s]
Call(th) == w' = [w EXCEPT ![th] = "lock"]
Return(th) == w' = [w EXCEPT ![th] = "no"]

\* shutdown(Both).  On a dead socket the net service may not honour it.
Shutdown(s) ==
    \E after \in IF sock[s] = "dead" THEN {"dead", "shut"} ELSE {"shut"} :
        sock' = [sock EXCEPT ![s] = after]

-----------------------------------------------------------------------------
(* hub_write, by any thread.                                               *)

Unlock == wlock' = "none"

\* Something to send: an outbox or sync packet, a reply, the menu's announce.
StartWrite(th) ==
    /\ w[th] = "no" /\ Call(th)
    /\ UNCHANGED <<flags, sock, handles, silent, pc, cur, faults>>

\* The mutex is taken; with no socket in it there is nothing to do.
Lock(th) ==
    /\ w[th] = "lock" /\ wlock = "none"
    /\ IF writer = 0
       THEN Return(th) /\ UNCHANGED <<wlock, write_started>>
       ELSE /\ w' = [w EXCEPT ![th] = "write"]
            /\ wlock' = th /\ write_started' = 1
    /\ UNCHANGED <<flags, sock, writer, ctl, silent, pc, cur, faults>>

\* The mutex stayed taken for two seconds: the frame is dropped.
Busy(th) ==
    /\ w[th] = "lock" /\ wlock # "none" /\ Return(th)
    /\ UNCHANGED <<flags, sock, handles, silent, pc, cur, faults>>

\* write_all returns.  A dead socket takes bytes while its buffer has room.
Finish(th) ==
    /\ Return(th) /\ write_started' = 0 /\ Unlock
    /\ UNCHANGED <<flags, sock, writer, ctl, silent, pc, cur, faults>>
Wrote(th) == w[th] = "write" /\ sock[writer] = "open" /\ Finish(th)
Buffered(th) == w[th] = "write" /\ sock[writer] = "dead" /\ Finish(th)

\* The write fails or times out: the socket is shut and forgotten, then
\* connected and ctl are cleared, all under the mutex.
WriteError(th) ==
    /\ w[th] = "write"
    /\ sock[writer] = "shut" \/ (sock[writer] = "dead" /\ th \notin CanBlock)
    /\ write_started' = 0 /\ Shutdown(writer) /\ writer' = 0
    /\ connected' = FALSE
    /\ w' = [w EXCEPT ![th] = "fail"]
    /\ UNCHANGED <<enabled, wlock, ctl, silent, pc, cur, faults>>
WriteFailed(th) ==
    /\ w[th] = "fail" /\ Return(th)
    /\ ctl' = 0 /\ Unlock
    /\ UNCHANGED <<flags, sock, writer, write_started, silent, pc, cur, faults>>

HubWrite(th) == Lock(th) \/ Busy(th) \/ Wrote(th) \/ WriteError(th) \/ WriteFailed(th)

-----------------------------------------------------------------------------
(* force_reconnect: clear connected, then shut the socket ctl refers to.   *)

MutDisarm(th, next) ==
    /\ At(th, "clear") /\ Go(th, next)
    /\ connected' = FALSE /\ write_started' = 0
    /\ UNCHANGED <<enabled, sock, writer, wlock, ctl, silent, w, cur, faults>>
ClearConnected(th, next) ==
    /\ At(th, "clear") /\ Go(th, next)
    /\ connected' = FALSE
    /\ UNCHANGED <<enabled, sock, handles, silent, w, cur, faults>>

Shoot(th, next) ==
    /\ At(th, "shoot") /\ Go(th, next)
    /\ IF ctl = 0 THEN UNCHANGED sock ELSE Shutdown(ctl)
    /\ ctl' = 0
    /\ UNCHANGED <<flags, writer, wlock, write_started, silent, w, cur, faults>>

ForceReconnect(th, home) == ClearConnected(th, "shoot") \/ Shoot(th, home)

-----------------------------------------------------------------------------
(* The connection manager.                                                 *)

Mgr(s) == At("mgr", s) /\ w["mgr"] = "no"

\* The top of the loop, while the hub is switched on.
CheckEnabled ==
    /\ Mgr("park") /\ enabled /\ Go("mgr", "dial")
    /\ UNCHANGED <<flags, sock, handles, silent, w, cur, faults>>

\* Waiting for Wi-Fi, resolving and connecting; a bad address, a failed dial
\* or a failed clone of the socket goes back to the top.
DialFails ==
    /\ Mgr("dial") /\ Go("mgr", "park")
    /\ UNCHANGED <<flags, sock, handles, silent, w, cur, faults>>
DialOk ==
    /\ Mgr("dial") /\ Go("mgr", "arm")
    /\ cur' = CHOOSE s \in Sockets : s \notin {writer, ctl}
    /\ sock' = [sock EXCEPT ![cur'] = "open"]
    /\ UNCHANGED <<flags, handles, silent, w, faults>>

\* The handles of the new session, one after the other.
MutArmBounded ==
    /\ Mgr("arm") /\ Go("mgr", "ctl")
    /\ writer' = IF wlock = "none" THEN cur ELSE writer
    /\ UNCHANGED <<flags, sock, wlock, ctl, write_started, silent, w, cur, faults>>
ArmWriter ==
    /\ Mgr("arm") /\ wlock = "none" /\ Go("mgr", "ctl")
    /\ writer' = cur
    /\ UNCHANGED <<flags, sock, wlock, ctl, write_started, silent, w, cur, faults>>
ArmCtl ==
    /\ Mgr("ctl") /\ Go("mgr", "up")
    /\ ctl' = cur
    /\ UNCHANGED <<flags, sock, writer, wlock, write_started, silent, w, cur, faults>>
SetConnected ==
    /\ Mgr("up") /\ Go("mgr", "announce")
    /\ silent' = 0 /\ connected' = TRUE
    /\ UNCHANGED <<enabled, sock, handles, w, cur, faults>>

\* send_announce, then request_propagation_path if there is a node.
Announce ==
    /\ Mgr("announce") /\ Go("mgr", "path") /\ Call("mgr")
    /\ UNCHANGED <<flags, sock, handles, silent, cur, faults>>
AskNodePath ==
    /\ Mgr("path") /\ Go("mgr", "top")
    /\ UNCHANGED w \/ Call("mgr")
    /\ UNCHANGED <<flags, sock, handles, silent, cur, faults>>

\* The read loop looks at connected before every read.
ReadTop ==
    /\ Mgr("top") /\ Go("mgr", IF connected THEN "recv" ELSE "down")
    /\ UNCHANGED <<flags, sock, handles, silent, w, cur, faults>>
\* Bytes arrive; handling them may write.
ReadBytes ==
    /\ Mgr("recv") /\ sock[cur] = "open" /\ Go("mgr", "top")
    /\ silent' = 0
    /\ UNCHANGED w \/ Call("mgr")
    /\ UNCHANGED <<flags, sock, handles, cur, faults>>
ReadTimeout ==
    /\ Mgr("recv") /\ sock[cur] # "shut" /\ Go("mgr", "top")
    /\ UNCHANGED <<flags, sock, handles, silent, w, cur, faults>>
ReadEnds ==
    /\ Mgr("recv") /\ sock[cur] = "shut" /\ Go("mgr", "down")
    /\ UNCHANGED <<flags, sock, handles, silent, w, cur, faults>>

\* After the read loop: connected, ctl and, unless a write holds on to it for
\* two seconds, the writer.
ClearDown ==
    /\ Mgr("down") /\ Go("mgr", "unctl")
    /\ connected' = FALSE
    /\ UNCHANGED <<enabled, sock, handles, silent, w, cur, faults>>
DropCtl ==
    /\ Mgr("unctl") /\ Go("mgr", "unwrite")
    /\ ctl' = 0
    /\ UNCHANGED <<flags, sock, writer, wlock, write_started, silent, w, cur, faults>>
DropWriter ==
    /\ Mgr("unwrite") /\ Go("mgr", "park")
    /\ writer' = IF wlock = "none" THEN 0 ELSE writer
    /\ UNCHANGED <<flags, sock, wlock, ctl, write_started, silent, w, cur, faults>>

ManagerStep ==
    \/ CheckEnabled \/ DialFails \/ DialOk \/ ArmWriter \/ ArmCtl \/ SetConnected
    \/ Announce \/ AskNodePath \/ ReadTop \/ ReadBytes \/ ReadTimeout \/ ReadEnds
    \/ ClearDown \/ DropCtl \/ DropWriter

-----------------------------------------------------------------------------
(* The keepalive thread, every five seconds.                               *)

Keep(s) == At("keep", s) /\ w["keep"] = "no"

KeepWake ==
    /\ Keep("sleep") /\ Go("keep", "wake")
    /\ UNCHANGED <<flags, sock, handles, silent, w, cur, faults>>

\* The checks in their order; the first that fires forces a reconnect.
\* A jump of the wall clock: the device slept.
SuspendDetector ==
    /\ Keep("wake") /\ connected /\ Fault /\ Go("keep", "clear")
    /\ UNCHANGED <<flags, sock, handles, silent, w, cur>>
Stuck == write_started = 2
MutNeverDead == FALSE
Dead == connected /\ silent = 2
Watchdog ==
    /\ Keep("wake") /\ (Stuck \/ Dead) /\ Go("keep", "clear")
    /\ UNCHANGED <<flags, sock, handles, silent, w, cur, faults>>
\* A connection quiet for long is probed, but not more often than every
\* PROBE_MIN_INTERVAL_SECS.
Probe ==
    /\ Keep("wake") /\ ~Stuck /\ ~Dead /\ connected /\ Go("keep", "beat")
    /\ UNCHANGED w \/ (silent > 0 /\ Call("keep"))
    /\ UNCHANGED <<flags, sock, handles, silent, cur, faults>>
\* The keepalive frame, every second time.
Beat ==
    /\ Keep("beat") /\ Go("keep", "sleep")
    /\ UNCHANGED w \/ Call("keep")
    /\ UNCHANGED <<flags, sock, handles, silent, cur, faults>>
NotConnected ==
    /\ Keep("wake") /\ ~Stuck /\ ~connected /\ Go("keep", "sleep")
    /\ UNCHANGED <<flags, sock, handles, silent, w, cur, faults>>

KeepStep == KeepWake \/ SuspendDetector \/ Watchdog \/ Probe \/ Beat \/ NotConnected

-----------------------------------------------------------------------------
(* The menu and the watchers.                                              *)

\* toggle_hub: off, and the connection is torn down.
TurnOff ==
    /\ At("menu", "idle") /\ enabled /\ Fault
    /\ enabled' = FALSE /\ Go("menu", "clear")
    /\ UNCHANGED <<connected, sock, handles, silent, w, cur>>
\* Connect, which also switches the hub on.
Connect ==
    /\ At("menu", "idle") /\ Fault
    /\ enabled' = TRUE /\ Go("menu", "clear")
    /\ UNCHANGED <<connected, sock, handles, silent, w, cur>>
\* The Wi-Fi network changed.
WifiChanged ==
    /\ At("wifi", "idle") /\ enabled /\ connected /\ Fault /\ Go("wifi", "clear")
    /\ UNCHANGED <<flags, sock, handles, silent, w, cur>>
\* The device woke up.
Resumed ==
    /\ At("resume", "idle") /\ enabled /\ Fault /\ Go("resume", "clear")
    /\ UNCHANGED <<flags, sock, handles, silent, w, cur>>

WatcherStep == \/ "menu" \in Watchers /\ (TurnOff \/ Connect)
               \/ "wifi" \in Watchers /\ WifiChanged
               \/ "resume" \in Watchers /\ Resumed

-----------------------------------------------------------------------------
(* The network and time.                                                   *)

HubCloses ==
    /\ cur > 0 /\ sock[cur] = "open" /\ Fault
    /\ sock' = [sock EXCEPT ![cur] = "shut"]
    /\ UNCHANGED <<flags, handles, silent, pc, w, cur>>
GoesDead ==
    /\ cur > 0 /\ sock[cur] = "open" /\ Fault
    /\ sock' = [sock EXCEPT ![cur] = "dead"]
    /\ UNCHANGED <<flags, handles, silent, pc, w, cur>>

\* A write to a live socket takes milliseconds.
WriteAges ==
    /\ write_started = 1 /\ sock[writer] = "dead"
    /\ write_started' = 2
    /\ UNCHANGED <<flags, sock, writer, wlock, ctl, silent, pc, w, cur, faults>>
\* A live hub answers the probe, unless the answer is lost, and the reader of
\* a shut socket sees it at once: only a dead socket is silent for long.
Silence ==
    /\ connected /\ silent < 2
    /\ IF silent = 0 \/ sock[cur] = "dead" THEN UNCHANGED faults ELSE Fault
    /\ silent' = silent + 1
    /\ UNCHANGED <<flags, sock, handles, pc, w, cur>>

Next ==
    \/ ManagerStep \/ KeepStep \/ WatcherStep
    \/ \E th \in WriteThreads : HubWrite(th) \/ Buffered(th)
    \/ \E th \in Writers : StartWrite(th)
    \/ ForceReconnect("keep", "sleep")
    \/ \E th \in Watchers : ForceReconnect(th, "idle")
    \/ HubCloses \/ GoesDead \/ WriteAges \/ Silence

Spec == Init /\ [][Next]_vars

\* Threads run; the manager polls the writer mutex until it gets it; a dial
\* repeated for ever succeeds; time passes on a dead connection.  That a dead
\* socket ever takes another byte is not assumed.
Fairness ==
    /\ WF_vars(ManagerStep) /\ SF_vars(ArmWriter) /\ SF_vars(DialOk)
    /\ WF_vars(KeepStep)
    /\ \A th \in WriteThreads : WF_vars(HubWrite(th))
    /\ WF_vars(ForceReconnect("keep", "sleep"))
    /\ \A th \in Watchers : WF_vars(ForceReconnect(th, "idle"))
    /\ WF_vars(WriteAges)
    /\ SF_vars(cur > 0 /\ sock[cur] = "dead" /\ Silence)
FairSpec == Spec /\ Fairness

-----------------------------------------------------------------------------
(* Properties.                                                             *)

\* Every variable has its type.
TypeOK ==
    /\ enabled \in BOOLEAN /\ connected \in BOOLEAN
    /\ sock \in [Sockets -> {"none", "open", "dead", "shut"}]
    /\ writer \in {0} \cup Sockets /\ ctl \in {0} \cup Sockets /\ cur \in {0} \cup Sockets
    /\ wlock \in WriteThreads \cup {"none"}
    /\ write_started \in 0..2 /\ silent \in 0..2
    /\ pc \in [{"mgr", "keep"} \cup Watchers -> PCs]
    /\ w \in [WriteThreads -> {"no", "lock", "write", "fail"}]
    /\ faults \in 0..MaxFaults

\* Once the manager has armed a session's handles, every frame is written to
\* that session's socket and every shutdown meant for the live connection hits
\* it: neither handle still refers to an earlier socket, although a write may
\* outlast its session and fail in the next one's time (connection_manager,
\* hub_write).  connected is set only while the manager runs a session.
SessionCoherent ==
    /\ pc["mgr"] \in {"ctl", "up", "announce", "path", "top", "recv"} =>
          writer \in {0, cur}
    /\ pc["mgr"] \in {"up", "announce", "path", "top", "recv"} => ctl \in {0, cur}
    /\ connected => pc["mgr"] \in {"announce", "path", "top", "recv", "down"}

\* "Only the writer itself clears" write_started (net.rs:2114): it is set
\* exactly while a thread is inside write_all with the mutex, so the watchdog
\* stays armed through every forced reconnect a hung write survives, and a
\* write that failed gives up the socket before it gives up the mutex.
WatchdogArmed ==
    /\ write_started # 0 <=> \E th \in WriteThreads : w[th] = "write"
    /\ \A th \in WriteThreads : w[th] \in {"write", "fail"} <=> wlock = th
    /\ \A th \in WriteThreads : w[th] = "write" => writer # 0
    /\ \A th \in WriteThreads : w[th] = "fail" => writer = 0

\* However the connection is lost (closed by the hub, dead without a sign,
\* torn down by a watchdog, a watcher or a failed write, in any
\* interleaving), a hub that stays switched on and reachable is connected
\* again in the end, with a live socket behind the writer, unless a write that
\* never times out hangs for ever.
StaysUp ==
    <>[]enabled /\ []<>(write_started # 2)
        => <>[](connected /\ writer = cur /\ sock[cur] = "open")

=============================================================================
