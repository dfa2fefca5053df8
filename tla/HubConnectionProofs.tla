------------------------ MODULE HubConnectionProofs ------------------------
(***************************************************************************)
(* Proofs about HubConnection, for any set of writing threads, any set of  *)
(* watchers and any number of faults.                                      *)
(***************************************************************************)
EXTENDS HubConnection, TLAPS

(***************************************************************************)
(* ctl is empty from the end of one session until the next one arms it,    *)
(* so the number a new socket takes is free.                               *)
(***************************************************************************)
NoCtlWhileDown ==
    pc["mgr"] \in {"unwrite", "park", "dial", "arm", "ctl"} => ctl = 0

IInv == TypeOK /\ NoCtlWhileDown /\ WatchdogArmed /\ SessionCoherent

\* Where the manager is, and what it is about to do, changes only in its own
\* steps: no other thread is called "mgr".
LEMMA ThreadNames ==
    /\ "mgr" \notin Watchers /\ "keep" \notin Watchers
    /\ "none" \notin WriteThreads
    /\ "mgr" \in WriteThreads /\ "keep" \in WriteThreads
BY ThreadsAssumption DEF WriteThreads

LEMMA InitIInv == Init => IInv
<1> SUFFICES ASSUME Init PROVE IInv
    OBVIOUS
<1>1. TypeOK
    <2>1. enabled \in BOOLEAN /\ connected \in BOOLEAN
        BY DEF Init
    <2>2. w \in [WriteThreads -> {"no", "lock", "write", "fail"}]
        BY DEF Init
    <2>3. pc \in [{"mgr", "keep"} \cup Watchers -> PCs]
        BY ThreadNames DEF Init, PCs
    <2>4. sock \in [Sockets -> {"none", "open", "dead", "shut"}]
        BY DEF Init
    <2> QED BY <2>1, <2>2, <2>3, <2>4, ThreadsAssumption DEF Init, TypeOK
<1>2. NoCtlWhileDown /\ WatchdogArmed /\ SessionCoherent
    BY ThreadNames DEF Init, NoCtlWhileDown, WatchdogArmed, SessionCoherent
<1> QED BY <1>1, <1>2 DEF IInv

-----------------------------------------------------------------------------
(* Types.                                                                  *)

\* Shutting a socket down leaves the sockets' states well typed.
LEMMA ShutdownType ==
    ASSUME sock \in [Sockets -> {"none", "open", "dead", "shut"}], NEW s, Shutdown(s)
    PROVE  sock' \in [Sockets -> {"none", "open", "dead", "shut"}]
<1>1. PICK after \in {"dead", "shut"} : sock' = [sock EXCEPT ![s] = after]
    BY DEF Shutdown
<1> QED BY <1>1

\* Every step preserves the types.
LEMMA TypeStep ==
    ASSUME TypeOK, NoCtlWhileDown, [Next]_vars
    PROVE  TypeOK'
<1> USE ThreadNames, ThreadsAssumption
    DEF TypeOK, Sockets, PCs, At, Go, Call, Return, flags, handles, Fault
<1>1. CASE CheckEnabled \/ DialFails \/ Announce \/ AskNodePath \/ ReadTop
              \/ ReadBytes \/ ReadTimeout \/ ReadEnds
    BY <1>1 DEF CheckEnabled, DialFails, Announce, AskNodePath, ReadTop, ReadBytes,
                ReadTimeout, ReadEnds, Mgr
<1>2. CASE ArmWriter \/ ArmCtl \/ SetConnected \/ ClearDown \/ DropCtl \/ DropWriter
    <2>1. CASE ArmWriter \/ ArmCtl \/ DropCtl \/ DropWriter
        BY <2>1 DEF ArmWriter, ArmCtl, DropCtl, DropWriter, Mgr
    <2>2. CASE SetConnected \/ ClearDown
        <3>1. CASE SetConnected
            BY <3>1 DEF SetConnected, Mgr
        <3>2. CASE ClearDown
            BY <3>2 DEF ClearDown, Mgr
        <3> QED BY <2>2, <3>1, <3>2
    <2> QED BY <1>2, <2>1, <2>2
<1>3. CASE DialOk
    <2>1. ctl = 0
        BY <1>3 DEF DialOk, Mgr, NoCtlWhileDown
    <2>2. \E s \in Sockets : s \notin {writer, ctl}
        BY <2>1
    <2>3. cur' \in Sockets
        BY <1>3, <2>2 DEF DialOk
    <2> QED BY <1>3, <2>3 DEF DialOk, Mgr
<1>4. CASE KeepStep
    BY <1>4 DEF KeepStep, KeepWake, SuspendDetector, Watchdog, Probe, Beat,
                NotConnected, Keep
<1>5. CASE WatcherStep
    <2>1. enabled' \in BOOLEAN /\ connected' \in BOOLEAN
        BY <1>5 DEF WatcherStep, TurnOff, Connect, WifiChanged, Resumed
    <2>2. pc' \in [{"mgr", "keep"} \cup Watchers -> PCs]
        BY <1>5 DEF WatcherStep, TurnOff, Connect, WifiChanged, Resumed
    <2>3. /\ UNCHANGED <<sock, writer, wlock, ctl, write_started, silent, w, cur>>
          /\ faults' \in 0..MaxFaults
        BY <1>5 DEF WatcherStep, TurnOff, Connect, WifiChanged, Resumed
    <2> QED BY <2>1, <2>2, <2>3
<1>6. CASE HubCloses \/ GoesDead \/ WriteAges \/ Silence
    BY <1>6 DEF HubCloses, GoesDead, WriteAges, Silence
<1>7. ASSUME NEW th \in WriteThreads,
             Lock(th) \/ Busy(th) \/ Wrote(th) \/ Buffered(th) \/ WriteFailed(th)
      PROVE  TypeOK'
    BY <1>7 DEF Lock, Busy, Wrote, Buffered, WriteFailed, Finish, Unlock
<1>8. ASSUME NEW th \in WriteThreads, WriteError(th)
      PROVE  TypeOK'
    <2>1. sock' \in [Sockets -> {"none", "open", "dead", "shut"}]
        BY <1>8, ShutdownType DEF WriteError
    <2>2. connected' \in BOOLEAN /\ enabled' \in BOOLEAN
        BY <1>8 DEF WriteError
    <2>3. w' \in [WriteThreads -> {"no", "lock", "write", "fail"}]
        BY <1>8 DEF WriteError
    <2>4. /\ UNCHANGED <<wlock, ctl, silent, pc, cur, faults>>
          /\ write_started' = 0 /\ writer' = 0
        BY <1>8 DEF WriteError
    <2> QED BY <2>1, <2>2, <2>3, <2>4
<1>9. ASSUME NEW th \in Writers, StartWrite(th)
      PROVE  TypeOK'
    BY <1>9 DEF StartWrite
<1>10. ASSUME NEW th \in {"keep"} \cup Watchers, NEW home \in {"sleep", "idle"},
              ForceReconnect(th, home)
       PROVE  TypeOK'
    <2>1. CASE ClearConnected(th, "shoot")
        BY <2>1 DEF ClearConnected
    <2>2. CASE Shoot(th, home)
        <3>1. sock' \in [Sockets -> {"none", "open", "dead", "shut"}]
            BY <2>2, ShutdownType DEF Shoot
        <3> QED BY <2>2, <3>1 DEF Shoot
    <2> QED BY <1>10, <2>1, <2>2 DEF ForceReconnect
<1>11. CASE UNCHANGED vars
    BY <1>11 DEF vars
<1> QED BY <1>1, <1>2, <1>3, <1>4, <1>5, <1>6, <1>7, <1>8, <1>9, <1>10, <1>11
    DEF Next, ManagerStep, HubWrite

-----------------------------------------------------------------------------
(* The writer mutex and the watchdog's flag.                               *)

\* Every step preserves WatchdogArmed.  Only hub_write and the manager's
\* re-arming touch the state it is about, and the manager does so with the
\* mutex free.
LEMMA ArmedStep ==
    ASSUME TypeOK, WatchdogArmed, [Next]_vars
    PROVE  WatchdogArmed'
<1> USE ThreadNames DEF TypeOK, WatchdogArmed, Call, Return, flags, handles
<1>1. CASE UNCHANGED <<writer, wlock, write_started, w>>
    BY <1>1
<1>2. ASSUME NEW th \in WriteThreads, w[th] = "no", Call(th),
             UNCHANGED <<writer, wlock, write_started>>
      PROVE  WatchdogArmed'
    BY <1>2
<1>3. CASE ArmWriter \/ DropWriter
    BY <1>3 DEF ArmWriter, DropWriter
<1>4. ManagerStep => WatchdogArmed'
    BY <1>1, <1>2, <1>3
       DEF ManagerStep, CheckEnabled, DialFails, DialOk, ArmCtl, SetConnected, Announce,
           AskNodePath, ReadTop, ReadBytes, ReadTimeout, ReadEnds, ClearDown, DropCtl, Mgr
<1>5. KeepStep => WatchdogArmed'
    BY <1>1, <1>2 DEF KeepStep, KeepWake, SuspendDetector, Watchdog, Probe, Beat,
                      NotConnected, Keep
<1>6. WatcherStep \/ HubCloses \/ GoesDead \/ Silence => WatchdogArmed'
    BY <1>1 DEF WatcherStep, TurnOff, Connect, WifiChanged, Resumed, HubCloses, GoesDead,
                Silence
<1>7. CASE WriteAges
    BY <1>7 DEF WriteAges
<1>8. ASSUME NEW th \in WriteThreads, HubWrite(th) \/ Buffered(th)
      PROVE  WatchdogArmed'
    <2>1. CASE Lock(th)
        BY <2>1 DEF Lock
    <2>2. CASE Busy(th)
        BY <2>2 DEF Busy
    <2>3. CASE Wrote(th) \/ Buffered(th)
        BY <2>3 DEF Wrote, Buffered, Finish, Unlock
    <2>4. CASE WriteError(th)
        BY <2>4 DEF WriteError
    <2>5. CASE WriteFailed(th)
        BY <2>5 DEF WriteFailed, Unlock
    <2> QED BY <1>8, <2>1, <2>2, <2>3, <2>4, <2>5 DEF HubWrite
<1>9. ASSUME NEW th \in Writers, StartWrite(th)
      PROVE  WatchdogArmed'
    BY <1>2, <1>9 DEF StartWrite, WriteThreads
<1>10. ASSUME NEW th, NEW home, ForceReconnect(th, home)
       PROVE  WatchdogArmed'
    BY <1>1, <1>10 DEF ForceReconnect, ClearConnected, Shoot
<1>11. CASE UNCHANGED vars
    BY <1>1, <1>11 DEF vars
<1> QED BY <1>4, <1>5, <1>6, <1>7, <1>8, <1>9, <1>10, <1>11 DEF Next

-----------------------------------------------------------------------------
(* The handles and the session.                                            *)

\* Every step preserves NoCtlWhileDown and SessionCoherent.  Away from the
\* manager a handle only becomes empty and connected only false.
LEMMA CoherentStep ==
    ASSUME TypeOK, NoCtlWhileDown, SessionCoherent, [Next]_vars
    PROVE  (NoCtlWhileDown /\ SessionCoherent)'
<1> USE ThreadNames, ThreadsAssumption
    DEF TypeOK, NoCtlWhileDown, SessionCoherent, At, Go, flags, handles
<1>1. CASE /\ pc'["mgr"] = pc["mgr"] /\ cur' = cur
           /\ writer' \in {0, writer} /\ ctl' \in {0, ctl}
           /\ connected' => connected
    BY <1>1
<1>2. CASE CheckEnabled \/ DialFails \/ DialOk \/ ArmWriter \/ ArmCtl \/ SetConnected
    BY <1>2 DEF CheckEnabled, DialFails, DialOk, ArmWriter, ArmCtl, SetConnected, Mgr
<1>3. CASE Announce \/ AskNodePath \/ ReadTop \/ ReadBytes \/ ReadTimeout \/ ReadEnds
    BY <1>3 DEF Announce, AskNodePath, ReadTop, ReadBytes, ReadTimeout, ReadEnds, Mgr
<1>4. CASE ClearDown \/ DropCtl \/ DropWriter
    BY <1>4 DEF ClearDown, DropCtl, DropWriter, Mgr
<1>5. CASE KeepStep
    BY <1>1, <1>5 DEF KeepStep, KeepWake, SuspendDetector, Watchdog, Probe, Beat,
                      NotConnected
<1>6. CASE WatcherStep
    BY <1>1, <1>6 DEF WatcherStep, TurnOff, Connect, WifiChanged, Resumed
<1>7. CASE HubCloses \/ GoesDead \/ WriteAges \/ Silence
    BY <1>1, <1>7 DEF HubCloses, GoesDead, WriteAges, Silence
<1>8. ASSUME NEW th \in WriteThreads, HubWrite(th) \/ Buffered(th) \/ StartWrite(th)
      PROVE  (NoCtlWhileDown /\ SessionCoherent)'
    BY <1>1, <1>8 DEF HubWrite, Lock, Busy, Wrote, Buffered, WriteError, WriteFailed,
                      StartWrite, Finish
<1>9. ASSUME NEW th \in {"keep"} \cup Watchers, NEW home, ForceReconnect(th, home)
      PROVE  (NoCtlWhileDown /\ SessionCoherent)'
    BY <1>1, <1>9 DEF ForceReconnect, ClearConnected, Shoot
<1>10. CASE UNCHANGED vars
    BY <1>1, <1>10 DEF vars
<1> QED BY <1>2, <1>3, <1>4, <1>5, <1>6, <1>7, <1>8, <1>9, <1>10
    DEF Next, ManagerStep, WriteThreads

-----------------------------------------------------------------------------
(* The theorems.                                                           *)

\* The inductive invariant holds in every reachable state.
LEMMA Invariance == Spec => []IInv
<1>1. IInv /\ [Next]_vars => IInv'
    BY TypeStep, ArmedStep, CoherentStep DEF IInv
<1> QED BY InitIInv, <1>1, PTL DEF Spec

\* Every variable keeps its type; in particular the two socket numbers are
\* enough: a dial always finds one no handle refers to (connection_manager).
THEOREM TypeCorrect == Spec => []TypeOK
<1>1. IInv => TypeOK  BY DEF IInv
<1> QED BY Invariance, <1>1, PTL

\* write_started is set exactly while some thread is inside write_all with the
\* mutex, so no forced reconnect disarms the stuck-write watchdog, however
\* many threads write (hub_write, force_reconnect).
THEOREM WatchdogStaysArmed == Spec => []WatchdogArmed
<1>1. IInv => WatchdogArmed  BY DEF IInv
<1> QED BY Invariance, <1>1, PTL

\* In a session, the writer and the control handle are that session's socket
\* or empty: no frame and no shutdown goes to the socket of another session
\* (connection_manager, hub_write, force_reconnect).
THEOREM SessionsStayCoherent == Spec => []SessionCoherent
<1>1. IInv => SessionCoherent  BY DEF IInv
<1> QED BY Invariance, <1>1, PTL

=============================================================================
