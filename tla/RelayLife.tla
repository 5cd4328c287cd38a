------------------------------ MODULE RelayLife -----------------------------
(***************************************************************************)
(* The life of the one relay connection that all bridged processes share   *)
(* (g_relay of src/source/bsd/bsd_bridge_service.cpp), as the threads that *)
(* use it see it: "dispatch" runs the bsd:u commands of every process and  *)
(* the destructors of their sessions, "cfg" the commands of the overlay,   *)
(* "drain" the 5 ms drain loop, "watchdog" the idle check; and RelayBridge *)
(* has a pump thread of its own.                                           *)
(*                                                                         *)
(* A critical section of g_relay_mutex is one step unless the thread waits *)
(* inside it (RelayBridge::Close joins the pump) or code that does not     *)
(* hold the mutex can look at what it has done so far.                     *)
(***************************************************************************)
EXTENDS Integers, FiniteSets

CONSTANTS
    Proc,        \* the processes whose bsd:u sessions are intercepted
    Ldn,         \* those that bind LdnControlPort: ldn_mitm
    Sock,        \* descriptors of a process's UDP sockets
    NoSock,      \* m_bridged_fd = -1
    NoProc,      \* g_active_ldn_instance = nullptr
    MaxBound,    \* bridged UDP sockets a process has open at a time
    Exits,       \* the processes that may end without closing their sockets
    WatchdogOn,  \* whether the relay may be idle for 10 minutes
    MaxCount,    \* bound: g_bridged_socket_count
    MaxGen       \* bound: sockets RelayBridge::Connect opens

ASSUME LifeAssumption ==
    /\ Ldn \subseteq Proc /\ Exits \subseteq Proc
    /\ NoSock \notin Sock /\ NoProc \notin Proc
    /\ MaxBound \in Nat /\ MaxCount \in Nat /\ MaxGen \in Nat
    /\ WatchdogOn \in BOOLEAN

Thread == {"dispatch", "cfg", "drain", "watchdog"}
Nobody == "nobody"

VARIABLES
    \* RelayBridge
    connected,   \* m_connected
    relayFd,     \* m_fd: the number of the socket, 0 for -1
    openFds,     \* the sockets that are open
    gen,         \* sockets opened so far
    pump,        \* the pump thread: it checks m_pump_stop ("head"), reads m_fd ("recv")
    pumpStop,    \* m_pump_stop
    \* globals of the bridge
    enabled,     \* g_relay_enabled
    attempted,   \* g_relay_connect_attempted
    localIp,     \* g_last_bridged_local_ip # 0
    count,       \* g_bridged_socket_count
    touched,     \* g_last_bridge_activity_ms # 0
    active,      \* g_active_ldn_instance
    relayLock,   \* the holder of g_relay_mutex, between steps
    vtcpLock,    \* the holder of g_vtcp_mutex
    \* instances and processes
    bridged,     \* bridged[p]: m_bridged_fd
    bound,       \* bound[p]: the bridged sockets p has open
    alive,       \* the instances that exist
    \* threads
    pc,          \* pc[t]: where thread t is
    after,       \* after[t]: what the RelayBridge::Close in progress belongs to
    proc,        \* proc[t]: the instance thread t works for, or has a pointer to
    sock,        \* the socket the dispatch thread's Bind or Close is about
    loaded       \* loaded[t]: the descriptor SendRaw is about to use

relay == <<connected, relayFd, openFds, gen, pump, pumpStop>>
globals == <<enabled, attempted, localIp, count, touched, active>>
insts == <<bridged, bound, alive>>
threads == <<pc, after, proc, sock, loaded>>
vars == <<relay, globals, relayLock, vtcpLock, insts, threads>>

Init ==
    /\ connected = FALSE /\ relayFd = 0 /\ openFds = {} /\ gen = 0
    /\ pump = "off" /\ pumpStop = FALSE
    /\ enabled = TRUE /\ attempted = FALSE /\ localIp = FALSE
    /\ count = 0 /\ touched = FALSE /\ active = NoProc
    /\ relayLock = Nobody /\ vtcpLock = Nobody
    /\ bridged = [p \in Proc |-> NoSock]
    /\ bound = [p \in Proc |-> {}]
    /\ alive = Proc
    /\ pc = [t \in Thread |-> "idle"]
    /\ after = [t \in Thread |-> "none"]
    /\ proc = [t \in Thread |-> NoProc]
    /\ sock = NoSock
    /\ loaded = [t \in Thread |-> 0]

Goto(t, label) == pc' = [pc EXCEPT ![t] = label]
RelayFree == relayLock = Nobody
VtcpFree == vtcpLock = Nobody
-----------------------------------------------------------------------------
(* RelayBridge.                                                            *)

\* RelayBridge::Connect opens a socket, and either fails (no socket, or the name
\* does not resolve) or starts the pump.
Connect ==
    \/ /\ gen < MaxGen
       /\ gen' = gen + 1
       /\ relayFd' = gen'
       /\ openFds' = openFds \cup {gen'}
       /\ connected' = TRUE
       /\ pump' = "head"
       /\ pumpStop' = FALSE
    \/ /\ relayFd' = 0
       /\ connected' = FALSE
       /\ UNCHANGED <<openFds, gen, pump, pumpStop>>

ConnectRelayLocked == attempted' = TRUE /\ Connect

\* Close, begun by thread t on behalf of an operation, with the mutex held.
BeginClose(t, operation) ==
    /\ relayLock' = t
    /\ after' = [after EXCEPT ![t] = operation]
    /\ Goto(t, "stop")

\* Mutant: m_pump_stop is not set.
StopFlagKept == pumpStop

\* m_pump_stop as StopPump sets it: only when the pump was started.
StopFlag == pump # "off" \/ pumpStop

StopPump(t) ==
    /\ pc[t] = "stop"
    /\ pumpStop' = StopFlag
    /\ Goto(t, IF pump # "off" THEN "join" ELSE "shut")
    /\ UNCHANGED <<connected, relayFd, openFds, gen, pump, globals, relayLock,
                   vtcpLock, insts, after, proc, sock, loaded>>

\* Mutant: the pump is asked to stop but not waited for.
NotAwaited == TRUE

\* os::WaitThread returns.
Joined == pump = "off"

JoinPump(t) ==
    /\ pc[t] = "join"
    /\ Joined
    /\ Goto(t, "shut")
    /\ UNCHANGED <<relay, globals, relayLock, vtcpLock, insts, after, proc, sock, loaded>>

CloseFd(t) ==
    /\ pc[t] = "shut"
    /\ openFds' = openFds \ {relayFd}
    /\ relayFd' = 0
    /\ Goto(t, "reset")
    /\ UNCHANGED <<connected, gen, pump, pumpStop, globals, relayLock, vtcpLock,
                   insts, after, proc, sock, loaded>>

\* Close forgets the connection.
Disconnect ==
    /\ connected' = FALSE
    /\ attempted' = FALSE
    /\ UNCHANGED <<relayFd, openFds, gen, pump, pumpStop>>

\* What ForceReconnect, Stop, the Close of the last bridged socket and the watchdog
\* do when RelayBridge::Close returns.
AfterReconnect == ConnectRelayLocked /\ UNCHANGED <<localIp, count>>
AfterStop == Disconnect /\ UNCHANGED <<localIp, count>>
AfterLast == Disconnect /\ localIp' = FALSE /\ UNCHANGED count
AfterWatchdog == Disconnect /\ localIp' = FALSE /\ count' = 0

\* The rest of Close, and of the operation that called it.
EndClose(t) ==
    /\ pc[t] = "reset"
    /\ \/ after[t] = "reconnect" /\ AfterReconnect
       \/ after[t] = "off" /\ AfterStop
       \/ after[t] = "last" /\ AfterLast
       \/ after[t] = "watchdog" /\ AfterWatchdog
    /\ touched' = FALSE
    /\ after' = [after EXCEPT ![t] = "none"]
    /\ relayLock' = Nobody
    /\ Goto(t, "idle")
    /\ UNCHANGED <<enabled, active, vtcpLock, insts, proc, sock, loaded>>

\* One step of PumpLoop.
PumpLoop ==
    /\ \/ pump = "head" /\ pump' = IF pumpStop THEN "off" ELSE "recv"
       \/ pump = "recv" /\ pump' = "head"
    /\ UNCHANGED <<connected, relayFd, openFds, gen, pumpStop, globals, relayLock,
                   vtcpLock, insts, threads>>
-----------------------------------------------------------------------------
(* Commands of the intercepted processes.                                  *)

\* A command or a drain pass is over.
Finish(t) ==
    /\ Goto(t, "idle")
    /\ vtcpLock' = IF vtcpLock = t THEN Nobody ELSE vtcpLock

\* Bind of a UDP socket reads g_last_bridged_local_ip: the control port and, during
\* a session, the sockets of other processes are bridged.
Bind(p, s) ==
    /\ pc["dispatch"] = "idle"
    /\ p \in alive
    /\ s \notin bound[p]
    /\ Cardinality(bound[p]) < MaxBound
    /\ RelayFree
    /\ p \in Ldn \/ localIp
    /\ count < MaxCount
    /\ Goto("dispatch", "bridge")
    /\ proc' = [proc EXCEPT !["dispatch"] = p]
    /\ sock' = s
    /\ UNCHANGED <<relay, globals, relayLock, vtcpLock, insts, after, loaded>>

\* Mutant: another bridged socket of the console is not counted.
CountedOnce == IF count = 0 THEN 1 ELSE count

\* g_bridged_socket_count++.
CountedIn == count + 1

\* The second critical section of Bind.
BindBridges ==
    /\ pc["dispatch"] = "bridge"
    /\ RelayFree
    /\ LET p == proc["dispatch"]
       IN  /\ bridged' = [bridged EXCEPT ![p] = sock]
           /\ bound' = [bound EXCEPT ![p] = @ \cup {sock}]
           /\ active' = IF p \in Ldn THEN p ELSE active
    /\ localIp' = TRUE
    /\ count' = CountedIn
    /\ Goto("dispatch", "ensure_bind")
    /\ UNCHANGED <<relay, enabled, attempted, touched, relayLock, vtcpLock, alive,
                   after, proc, sock, loaded>>

\* Mutant: Stop is not looked at.
MayConnectAnyway == ~connected /\ ~attempted

\* EnsureRelayConnected connects: not after Stop, and not again after a failure.
MayConnect == enabled /\ ~connected /\ ~attempted

\* EnsureRelayConnected at the end of Bind, and at the start of SendTo.
EnsureRelayConnected ==
    /\ pc["dispatch"] \in {"ensure_bind", "ensure_send"}
    /\ RelayFree
    /\ \/ MayConnect /\ ConnectRelayLocked
       \/ ~MayConnect /\ UNCHANGED <<relay, attempted>>
    /\ IF pc["dispatch"] = "ensure_send" /\ enabled /\ connected'
       THEN Goto("dispatch", "send") /\ UNCHANGED vtcpLock
       ELSE Finish("dispatch")
    /\ UNCHANGED <<enabled, localIp, count, touched, active, relayLock, insts,
                   after, proc, sock, loaded>>

\* SendTo on a bridged socket; on a virtual TCP connection it holds g_vtcp_mutex.
SendTo(p, tcp) ==
    /\ pc["dispatch"] = "idle"
    /\ p \in alive
    /\ bridged[p] # NoSock
    /\ tcp => p \in Ldn /\ VtcpFree
    /\ vtcpLock' = IF tcp THEN "dispatch" ELSE vtcpLock
    /\ Goto("dispatch", "ensure_send")
    /\ UNCHANGED <<relay, globals, relayLock, insts, after, proc, sock, loaded>>

\* SendRaw, without g_relay_mutex: m_connected is checked and m_fd is read ...
SendLoads(t) ==
    /\ pc[t] = "send"
    /\ IF connected THEN Goto(t, "sendto") /\ UNCHANGED vtcpLock ELSE Finish(t)
    /\ loaded' = [loaded EXCEPT ![t] = IF connected THEN relayFd ELSE 0]
    /\ touched' = (touched \/ (t = "dispatch" /\ ~connected))
    /\ UNCHANGED <<relay, enabled, attempted, localIp, count, active, relayLock, insts,
                   after, proc, sock>>

\* ... and the descriptor is used.  A command's SendTo counts as activity.
SendUses(t) ==
    /\ pc[t] = "sendto"
    /\ Finish(t)
    /\ loaded' = [loaded EXCEPT ![t] = 0]
    /\ touched' = (touched \/ t = "dispatch")
    /\ UNCHANGED <<relay, enabled, attempted, localIp, count, active, relayLock, insts,
                   after, proc, sock>>

\* RecvFrom hands a packet to a process: activity.
RecvFrom(p) ==
    /\ pc["dispatch"] = "idle"
    /\ p \in alive
    /\ bridged[p] # NoSock
    /\ touched' = TRUE
    /\ UNCHANGED <<relay, enabled, attempted, localIp, count, active, relayLock, vtcpLock,
                   insts, threads>>

\* Close of a UDP socket; only the one in m_bridged_fd is unbridged.
Close(p, s) ==
    /\ pc["dispatch"] = "idle"
    /\ p \in alive
    /\ s \in bound[p]
    /\ VtcpFree
    /\ bound' = [bound EXCEPT ![p] = @ \ {s}]
    /\ \/ /\ bridged[p] = s
          /\ bridged' = [bridged EXCEPT ![p] = NoSock]
          /\ proc' = [proc EXCEPT !["dispatch"] = p]
          /\ Goto("dispatch", "unbridge")
       \/ /\ bridged[p] # s
          /\ UNCHANGED <<bridged, proc, pc>>
    /\ UNCHANGED <<relay, globals, relayLock, vtcpLock, alive, after, sock, loaded>>

\* Mutant: the counter is decremented without a check.
RemainingUnchecked == count - 1

\* g_bridged_socket_count after a socket was closed.
Remaining == IF count > 0 THEN count - 1 ELSE 0

\* Mutant: the first socket that is closed takes the relay with it.
AnyOne == TRUE

\* The socket was the last one.
LastOne == Remaining = 0

\* The critical section of Close: the last one closes the relay.
Unbridge ==
    /\ pc["dispatch"] = "unbridge"
    /\ RelayFree
    /\ active' = IF active = proc["dispatch"] THEN NoProc ELSE active
    /\ count' = Remaining
    /\ IF LastOne
       THEN BeginClose("dispatch", "last")
       ELSE Goto("dispatch", "idle") /\ UNCHANGED <<relayLock, after>>
    /\ UNCHANGED <<relay, enabled, attempted, localIp, touched, vtcpLock, insts,
                   proc, sock, loaded>>

\* The destructor of an instance, when its process ends.
Destroy(p) ==
    /\ pc["dispatch"] = "idle"
    /\ p \in alive
    /\ p \in Exits \/ bound[p] = {}
    /\ RelayFree
    /\ active' = IF active = p THEN NoProc ELSE active
    /\ alive' = alive \ {p}
    /\ bound' = [bound EXCEPT ![p] = {}]
    /\ UNCHANGED <<relay, enabled, attempted, localIp, count, touched, relayLock, vtcpLock,
                   bridged, threads>>

\* The process is started again: a new instance.
Create(p) ==
    /\ pc["dispatch"] = "idle"
    /\ p \notin alive
    /\ alive' = alive \cup {p}
    /\ bridged' = [bridged EXCEPT ![p] = NoSock]
    /\ UNCHANGED <<relay, globals, relayLock, vtcpLock, bound, threads>>
-----------------------------------------------------------------------------
(* The overlay's commands, the watchdog and the drain thread.              *)

ForceReconnect ==
    /\ pc["cfg"] = "idle"
    /\ RelayFree
    /\ enabled' = TRUE
    /\ BeginClose("cfg", "reconnect")
    /\ UNCHANGED <<relay, attempted, localIp, count, touched, active, vtcpLock, insts,
                   proc, sock, loaded>>

Stop ==
    /\ pc["cfg"] = "idle"
    /\ RelayFree
    /\ enabled' = FALSE
    /\ BeginClose("cfg", "off")
    /\ UNCHANGED <<relay, attempted, localIp, count, touched, active, vtcpLock, insts,
                   proc, sock, loaded>>

Start ==
    /\ pc["cfg"] = "idle"
    /\ RelayFree
    /\ enabled' = TRUE
    /\ \/ ~connected /\ ConnectRelayLocked
       \/ connected /\ UNCHANGED <<relay, attempted>>
    /\ UNCHANGED <<localIp, count, touched, active, relayLock, vtcpLock, insts, threads>>

Watchdog ==
    /\ WatchdogOn
    /\ pc["watchdog"] = "idle"
    /\ RelayFree
    /\ connected /\ touched
    /\ BeginClose("watchdog", "watchdog")
    /\ UNCHANGED <<relay, globals, vtcpLock, insts, proc, sock, loaded>>

\* DrainRawRelayQueue copies g_active_ldn_instance under g_relay_mutex ...
DrainCopies ==
    /\ pc["drain"] = "idle"
    /\ RelayFree
    /\ active # NoProc
    /\ proc' = [proc EXCEPT !["drain"] = active]
    /\ Goto("drain", "drain")
    /\ UNCHANGED <<relay, globals, relayLock, vtcpLock, insts, after, sock, loaded>>

\* ... and then, under g_vtcp_mutex, works with the instance it points to, which
\* may send a segment.
DrainUses ==
    /\ pc["drain"] = "drain"
    /\ VtcpFree
    /\ vtcpLock' = "drain"
    /\ Goto("drain", "work")
    /\ UNCHANGED <<relay, globals, relayLock, insts, after, proc, sock, loaded>>

DrainWorks ==
    /\ pc["drain"] = "work"
    /\ \/ Goto("drain", "send") /\ UNCHANGED vtcpLock
       \/ Finish("drain")
    /\ UNCHANGED <<relay, globals, relayLock, insts, after, proc, sock, loaded>>

Closing(t) == StopPump(t) \/ JoinPump(t) \/ CloseFd(t) \/ EndClose(t)

Sending(t) == SendLoads(t) \/ SendUses(t)

Command ==
    \/ \E p \in Proc : Destroy(p) \/ Create(p) \/ RecvFrom(p)
    \/ \E p \in Proc, s \in Sock : Bind(p, s) \/ Close(p, s)
    \/ \E p \in Proc, tcp \in BOOLEAN : SendTo(p, tcp)

CommandStep == BindBridges \/ EnsureRelayConnected \/ Unbridge

Overlay == ForceReconnect \/ Stop \/ Start

Drain == DrainCopies \/ DrainUses \/ DrainWorks

Next ==
    \/ Command
    \/ CommandStep
    \/ Overlay
    \/ Watchdog
    \/ Drain
    \/ PumpLoop
    \/ \E t \in Thread : Closing(t) \/ Sending(t)

Spec == Init /\ [][Next]_vars

\* Every thread runs, and a mutex that is released is handed to a thread that
\* waits for it.
Fairness ==
    /\ WF_vars(PumpLoop)
    /\ SF_vars(CommandStep)
    /\ SF_vars(DrainUses)
    /\ WF_vars(DrainWorks)
    /\ \A t \in Thread : WF_vars(Closing(t)) /\ WF_vars(Sending(t))

FairSpec == Spec /\ Fairness
-----------------------------------------------------------------------------
\* Types: in particular g_bridged_socket_count, an int that Bind, Close and the
\* watchdog all write, never becomes negative.
TypeOK ==
    /\ connected \in BOOLEAN /\ pump \in {"off", "head", "recv"} /\ pumpStop \in BOOLEAN
    /\ relayFd \in 0 .. MaxGen /\ openFds \subseteq 1 .. MaxGen /\ gen \in 0 .. MaxGen
    /\ enabled \in BOOLEAN /\ attempted \in BOOLEAN /\ localIp \in BOOLEAN
    /\ touched \in BOOLEAN
    /\ count \in 0 .. MaxCount
    /\ active \in Proc \cup {NoProc}
    /\ relayLock \in Thread \cup {Nobody} /\ vtcpLock \in Thread \cup {Nobody}
    /\ bridged \in [Proc -> Sock \cup {NoSock}]
    /\ bound \in [Proc -> SUBSET Sock]
    /\ alive \subseteq Proc
    /\ pc \in [Thread -> {"idle", "stop", "join", "shut", "reset", "bridge", "ensure_bind",
                          "ensure_send", "send", "sendto", "unbridge", "drain", "work"}]
    /\ after \in [Thread -> {"none", "reconnect", "off", "last", "watchdog"}]
    /\ proc \in [Thread -> Proc \cup {NoProc}]
    /\ sock \in Sock \cup {NoSock}
    /\ loaded \in [Thread -> 0 .. MaxGen]

\* The pump thread never reads a socket that has been closed, and no socket is
\* leaked: as long as the pump runs there is exactly one open socket, m_fd.
PumpHasItsSocket ==
    /\ pump = "recv" => openFds = {relayFd}
    /\ openFds \subseteq {relayFd}

\* Once Stop has returned, the relay stays off until Start or Reconnect, whatever
\* commands and connection attempts were under way on the other threads.
OffMeansOff == (~enabled /\ relayLock = Nobody) => ~connected /\ openFds = {}

\* The processes whose socket is bridged.
Bridging == {p \in Proc : bridged[p] # NoSock /\ p \in alive}

\* g_bridged_socket_count is the number of bridged sockets across all processes.
CountIsExact ==
    pc["dispatch"] # "unbridge" => count = Cardinality(Bridging)

\* Close tears a connected relay down only when no process has a bridged socket left.
OnlyTheLastCloses ==
    \A t \in Thread : (after[t] = "last" /\ connected) => Bridging = {}

\* SendRaw never uses a socket that has been closed since it read m_fd.
SendsUseOpenSocket ==
    \A t \in Thread : pc[t] = "sendto" => loaded[t] \in openFds \cup {0}

\* Every command returns: the dispatch thread is never blocked for good by the
\* drain thread, the overlay, the watchdog or the join of the pump.
CommandsReturn == pc["dispatch"] # "idle" ~> pc["dispatch"] = "idle"
=============================================================================
