--------------------------- MODULE RelayLifeProofs ---------------------------
(***************************************************************************)
(* Theorems about RelayLife, for any number of processes and sockets.      *)
(* Types, the socket of the pump and Stop hold whatever the processes do;  *)
(* the count of bridged sockets and the rule that the last Close takes the *)
(* relay down hold when no process exits with sockets open, a process has  *)
(* one bridged socket at a time, and the watchdog stays silent.            *)
(***************************************************************************)
EXTENDS RelayLife, FiniteSetTheorems, TLAPS

\* RelayBridge::Close, which is called with g_relay_mutex held.
ClosePhase == {"stop", "join", "shut", "reset"}

\* g_relay_mutex is held, between steps, exactly by a thread within Close; and
\* each operation that closes belongs to one thread.
LockInv ==
    /\ \A t \in Thread : relayLock = t <=> pc[t] \in ClosePhase
    /\ \A t \in Thread : after[t] # "none" <=> pc[t] \in ClosePhase
    /\ after["cfg"] \in {"none", "reconnect", "off"}
    /\ after["dispatch"] \in {"none", "last"}
    /\ after["watchdog"] \in {"none", "watchdog"}
    /\ after["drain"] = "none"

\* What a command has in hand between its steps.
CommandInv ==
    /\ pc["dispatch"] = "bridge" =>
          sock \in Sock /\ proc["dispatch"] \in Proc /\ count < MaxCount
    /\ pc["dispatch"] = "unbridge" => proc["dispatch"] \in Proc

\* The relay as a whole: connected with a socket and a pump, or neither.
Consistent ==
    /\ connected <=> relayFd # 0
    /\ connected <=> pump # "off"
    /\ connected => ~pumpStop

\* The open socket is m_fd, and what of the relay is left in each phase of Close.
RelayInv ==
    /\ relayFd \in 0..gen
    /\ openFds = {relayFd} \ {0}
    /\ relayLock = Nobody => Consistent
    /\ \A t \in Thread :
          /\ pc[t] = "stop" => Consistent
          /\ pc[t] = "join" => relayFd # 0
          /\ pc[t] = "shut" => pump = "off"
          /\ pc[t] = "reset" => pump = "off" /\ relayFd = 0

\* Stop has closed the relay or is about to; Reconnect has switched it on.
SwitchInv ==
    /\ ~enabled /\ connected => after["cfg"] = "off"
    /\ after["cfg"] = "reconnect" => enabled

Inv == TypeOK /\ LockInv /\ CommandInv /\ RelayInv /\ SwitchInv
-----------------------------------------------------------------------------
(* The steps that leave the relay and its mutex alone.                     *)

Labels == {"idle", "stop", "join", "shut", "reset", "bridge", "ensure_bind",
           "ensure_send", "send", "sendto", "unbridge", "drain", "work"}

\* A step that moves thread t between labels outside of Close.
LEMMA Aside ==
    ASSUME Inv, NEW t \in Thread, NEW label \in Labels \ ClosePhase,
           pc[t] \notin ClosePhase, Goto(t, label),
           UNCHANGED <<relay, enabled, relayLock, after>>
    PROVE  LockInv' /\ RelayInv' /\ SwitchInv'
<1> USE DEF Inv, Goto
<1>1. \A u \in Thread : u # t => pc'[u] = pc[u]
    BY DEF TypeOK
<1>2. pc'[t] = label
    BY DEF TypeOK
<1>3. \A u \in Thread : pc'[u] \in ClosePhase <=> pc[u] \in ClosePhase
    BY <1>1, <1>2
<1>4. LockInv'
    BY <1>3 DEF LockInv
<1>5. \A u \in Thread : pc'[u] \in ClosePhase => pc'[u] = pc[u]
    BY <1>1, <1>2
<1>6. RelayInv'
    BY <1>5 DEF RelayInv, Consistent, relay, ClosePhase
<1>7. SwitchInv'
    BY DEF SwitchInv, relay
<1> QED
    BY <1>4, <1>6, <1>7

LEMMA BindStep ==
    ASSUME Inv, NEW p \in Proc, NEW s \in Sock, Bind(p, s) PROVE Inv'
<1>1. LockInv' /\ RelayInv' /\ SwitchInv'
    BY Aside DEF Bind, Thread, Labels, ClosePhase, globals
<1>2. TypeOK'
    BY DEF Inv, TypeOK, Bind, Goto, relay, globals, insts, Thread
<1>3. CommandInv'
    BY DEF Inv, TypeOK, CommandInv, Bind, Goto, globals, Thread
<1> QED
    BY <1>1, <1>2, <1>3 DEF Inv

LEMMA BindBridgesStep ==
    ASSUME Inv, BindBridges PROVE Inv'
<1>1. LockInv' /\ RelayInv' /\ SwitchInv'
    BY Aside DEF BindBridges, Thread, Labels, ClosePhase
<1>2. TypeOK'
    BY LifeAssumption
       DEF Inv, TypeOK, CommandInv, CountedIn, BindBridges, Goto, relay, Thread
<1>3. CommandInv'
    BY DEF Inv, TypeOK, CommandInv, BindBridges, Goto, Thread
<1> QED
    BY <1>1, <1>2, <1>3 DEF Inv

LEMMA SendToStep ==
    ASSUME Inv, NEW p \in Proc, NEW tcp \in BOOLEAN, SendTo(p, tcp) PROVE Inv'
<1>1. LockInv' /\ RelayInv' /\ SwitchInv'
    BY Aside DEF SendTo, Thread, Labels, ClosePhase, globals
<1>2. TypeOK'
    BY DEF Inv, TypeOK, SendTo, Goto, relay, globals, insts, Thread
<1>3. CommandInv'
    BY DEF Inv, TypeOK, CommandInv, SendTo, Goto, globals, Thread
<1> QED
    BY <1>1, <1>2, <1>3 DEF Inv

LEMMA SendingStep ==
    ASSUME Inv, NEW t \in Thread, Sending(t) PROVE Inv'
<1>1. PICK label \in {"sendto", "idle"} : Goto(t, label)
    BY DEF Sending, SendLoads, SendUses, Finish
<1>2. pc[t] \in {"send", "sendto"} /\ pc[t] \notin ClosePhase
      /\ label \in Labels \ ClosePhase
    BY DEF Sending, SendLoads, SendUses, ClosePhase, Labels
<1>3. UNCHANGED <<relay, enabled, relayLock, after, count, proc, sock>>
    BY DEF Sending, SendLoads, SendUses
<1>4. LockInv' /\ RelayInv' /\ SwitchInv'
    BY <1>1, <1>2, <1>3, Aside
<1>5. TypeOK'
    <2>1. vtcpLock' \in Thread \cup {Nobody}
        BY DEF Sending, SendLoads, SendUses, Finish, Inv, TypeOK
    <2>2. touched' \in BOOLEAN
        BY Zenon DEF Sending, SendLoads, SendUses
    <2>3. loaded' \in [Thread -> 0..MaxGen]
        <3>1. PICK n \in 0..MaxGen : loaded' = [loaded EXCEPT ![t] = n]
            BY LifeAssumption DEF Sending, SendLoads, SendUses, Inv, TypeOK
        <3> QED
            BY <3>1 DEF Inv, TypeOK
    <2>4. pc' \in [Thread -> Labels]
        BY <1>1 DEF Goto, Inv, TypeOK, Labels
    <2>5. UNCHANGED <<attempted, localIp, active, insts>>
        BY DEF Sending, SendLoads, SendUses
    <2> QED
        BY <1>3, <2>1, <2>2, <2>3, <2>4, <2>5
            DEF Inv, TypeOK, relay, insts, Labels
<1>6. CommandInv'
    BY <1>1, <1>2, <1>3 DEF Inv, TypeOK, CommandInv, Goto, Thread
<1> QED
    BY <1>4, <1>5, <1>6 DEF Inv

LEMMA RecvFromStep ==
    ASSUME Inv, NEW p \in Proc, RecvFrom(p) PROVE Inv'
<1>1. UNCHANGED <<relay, enabled, attempted, localIp, count, active, relayLock,
                  vtcpLock, insts, threads>> /\ touched' = TRUE
    BY DEF RecvFrom
<1>2. TypeOK'
    BY <1>1 DEF Inv, TypeOK, relay, insts, threads
<1>3. LockInv' /\ CommandInv'
    BY <1>1 DEF Inv, LockInv, CommandInv, threads
<1>4. RelayInv' /\ SwitchInv'
    BY <1>1 DEF Inv, RelayInv, SwitchInv, Consistent, relay, threads
<1> QED
    BY <1>2, <1>3, <1>4 DEF Inv

\* A socket that is not the bridged one leaves no trace but in bound.
LEMMA CloseStep ==
    ASSUME Inv, NEW p \in Proc, NEW s \in Sock, Close(p, s) PROVE Inv'
<1>1. /\ UNCHANGED <<relay, globals, relayLock, vtcpLock, alive, after, sock,
                     loaded>>
      /\ bound' = [bound EXCEPT ![p] = @ \ {s}]
      /\ pc["dispatch"] = "idle"
    BY DEF Close
<1>2. bound' \in [Proc -> SUBSET Sock]
    BY <1>1 DEF Inv, TypeOK
<1>3. CASE bridged[p] = s /\ Goto("dispatch", "unbridge")
           /\ bridged' = [bridged EXCEPT ![p] = NoSock]
           /\ proc' = [proc EXCEPT !["dispatch"] = p]
    <2>1. LockInv' /\ RelayInv' /\ SwitchInv'
        BY <1>1, <1>3, Aside DEF Thread, Labels, ClosePhase, globals
    <2>2. TypeOK'
        BY <1>1, <1>2, <1>3 DEF Inv, TypeOK, Goto, relay, globals, Thread
    <2>3. CommandInv'
        BY <1>1, <1>3 DEF Inv, TypeOK, CommandInv, Goto, Thread
    <2> QED
        BY <2>1, <2>2, <2>3 DEF Inv
<1>4. CASE UNCHANGED <<bridged, proc, pc>>
    <2>1. TypeOK'
        BY <1>1, <1>2, <1>4 DEF Inv, TypeOK, relay, globals
    <2>2. LockInv' /\ CommandInv'
        BY <1>1, <1>4 DEF Inv, LockInv, CommandInv, globals
    <2>3. RelayInv' /\ SwitchInv'
        BY <1>1, <1>4 DEF Inv, RelayInv, SwitchInv, Consistent, relay, globals
    <2> QED
        BY <2>1, <2>2, <2>3 DEF Inv
<1> QED
    BY <1>3, <1>4 DEF Close

\* The destructor, and the constructor of the next instance.
LEMMA InstanceStep ==
    ASSUME Inv, NEW p \in Proc, Destroy(p) \/ Create(p) PROVE Inv'
<1>1. /\ UNCHANGED <<relay, enabled, attempted, localIp, count, touched,
                     relayLock, vtcpLock, threads>>
      /\ active' \in {active, NoProc} /\ alive' \subseteq Proc
      /\ bridged' \in [Proc -> Sock \cup {NoSock}]
      /\ bound' \in [Proc -> SUBSET Sock]
    BY DEF Destroy, Create, globals, Inv, TypeOK
<1>2. TypeOK'
    BY <1>1 DEF Inv, TypeOK, relay, threads
<1>3. LockInv' /\ CommandInv'
    BY <1>1 DEF Inv, LockInv, CommandInv, threads
<1>4. RelayInv' /\ SwitchInv'
    BY <1>1 DEF Inv, RelayInv, SwitchInv, Consistent, relay, threads
<1> QED
    BY <1>2, <1>3, <1>4 DEF Inv

LEMMA DrainStep ==
    ASSUME Inv, Drain PROVE Inv'
<1>1. PICK label \in {"drain", "work", "send", "idle"} : Goto("drain", label)
    BY DEF Drain, DrainCopies, DrainUses, DrainWorks, Finish
<1>2. /\ UNCHANGED <<relay, globals, relayLock, insts, after, sock, loaded>>
      /\ pc["drain"] \in {"idle", "drain", "work"}
    BY DEF Drain, DrainCopies, DrainUses, DrainWorks
<1>3. LockInv' /\ RelayInv' /\ SwitchInv'
    BY <1>1, <1>2, Aside DEF Thread, Labels, ClosePhase, globals
<1>4. proc' \in [Thread -> Proc \cup {NoProc}]
      /\ proc'["dispatch"] = proc["dispatch"]
    BY DEF Drain, DrainCopies, DrainUses, DrainWorks, Inv, TypeOK, Thread
<1>5. vtcpLock' \in Thread \cup {Nobody}
    BY DEF Drain, DrainCopies, DrainUses, DrainWorks, Finish, Inv, TypeOK, Thread
<1>6. TypeOK'
    BY <1>1, <1>2, <1>4, <1>5
       DEF Inv, TypeOK, Goto, relay, globals, insts, Thread
<1>7. CommandInv'
    BY <1>1, <1>2, <1>4 DEF Inv, TypeOK, CommandInv, Goto, globals, Thread
<1> QED
    BY <1>3, <1>6, <1>7 DEF Inv
-----------------------------------------------------------------------------
(* The steps of the relay.                                                 *)

RelayTyped ==
    /\ connected \in BOOLEAN /\ pump \in {"off", "head", "recv"}
    /\ pumpStop \in BOOLEAN
    /\ relayFd \in 0..MaxGen /\ openFds \subseteq 1..MaxGen /\ gen \in 0..MaxGen

\* RelayBridge::Connect, with the old socket closed and the old pump joined.
LEMMA ConnectStep ==
    ASSUME RelayTyped, relayFd = 0, openFds = {}, pump = "off", Connect
    PROVE  RelayTyped' /\ Consistent' /\ relayFd' \in 0..gen'
           /\ openFds' = {relayFd'} \ {0}
<1>1. CASE /\ gen < MaxGen /\ gen' = gen + 1 /\ relayFd' = gen'
           /\ openFds' = openFds \cup {gen'} /\ connected' = TRUE
           /\ pump' = "head" /\ pumpStop' = FALSE
    <2>1. gen' \in 1..MaxGen /\ gen' \in 0..MaxGen /\ gen' # 0
          /\ gen' \in 0..gen'
        BY <1>1, LifeAssumption DEF RelayTyped
    <2>2. openFds' = {gen'}
        BY <1>1
    <2>3. RelayTyped'
        BY <1>1, <2>1, <2>2 DEF RelayTyped
    <2>4. Consistent'
        BY <1>1, <2>1 DEF Consistent
    <2>5. openFds' = {relayFd'} \ {0}
        BY <1>1, <2>1, <2>2
    <2> QED
        BY <1>1, <2>1, <2>3, <2>4, <2>5
<1>2. CASE /\ relayFd' = 0 /\ connected' = FALSE
           /\ UNCHANGED <<openFds, gen, pump, pumpStop>>
    <2>1. RelayTyped'
        BY <1>2, LifeAssumption DEF RelayTyped
    <2>2. Consistent'
        BY <1>2 DEF Consistent
    <2>3. relayFd' \in 0..gen' /\ openFds' = {relayFd'} \ {0}
        BY <1>2 DEF RelayTyped
    <2> QED
        BY <2>1, <2>2, <2>3
<1> QED
    BY <1>1, <1>2 DEF Connect

\* Nobody holds the mutex and the relay is not connected: nothing is left of it.
LEMMA NothingLeft ==
    ASSUME Inv, RelayFree, ~connected
    PROVE  RelayTyped /\ relayFd = 0 /\ openFds = {} /\ pump = "off"
BY DEF Inv, TypeOK, RelayInv, Consistent, RelayFree, RelayTyped

LEMMA EnsureStep ==
    ASSUME Inv, EnsureRelayConnected PROVE Inv'
<1>1. PICK label \in {"send", "idle"} : Goto("dispatch", label)
    BY DEF EnsureRelayConnected, Finish
<1>2. /\ UNCHANGED <<enabled, localIp, count, touched, active, relayLock, insts,
                     after, proc, sock, loaded>>
      /\ pc["dispatch"] \in {"ensure_bind", "ensure_send"} /\ RelayFree
    BY DEF EnsureRelayConnected
<1>3. vtcpLock' \in Thread \cup {Nobody}
    BY DEF EnsureRelayConnected, Finish, Inv, TypeOK
<1>4. /\ RelayTyped' /\ Consistent' /\ relayFd' \in 0..gen'
      /\ openFds' = {relayFd'} \ {0}
      /\ attempted' \in BOOLEAN
      /\ connected' => connected \/ enabled
    <2>1. CASE MayConnect /\ ConnectRelayLocked
        BY <1>2, <2>1, ConnectStep, NothingLeft DEF MayConnect, ConnectRelayLocked
    <2>2. CASE UNCHANGED <<relay, attempted>>
        BY <1>2, <2>2
           DEF Inv, TypeOK, RelayInv, RelayTyped, Consistent, RelayFree, relay
    <2> QED
        BY <2>1, <2>2 DEF EnsureRelayConnected
<1>5. TypeOK'
    BY <1>1, <1>2, <1>3, <1>4 DEF Inv, TypeOK, RelayTyped, Goto, insts, Thread
<1>6. \A t \in Thread : pc'[t] \notin ClosePhase /\ pc[t] \notin ClosePhase
    BY <1>1, <1>2 DEF Inv, TypeOK, LockInv, RelayFree, Nobody, Goto, Thread,
                      ClosePhase
<1>7. LockInv'
    BY <1>2, <1>6 DEF Inv, LockInv
<1>8. RelayInv'
    BY <1>2, <1>4, <1>6 DEF RelayInv, ClosePhase
<1>9. SwitchInv'
    BY <1>2, <1>4 DEF Inv, SwitchInv
<1>10. CommandInv'
    BY <1>1, <1>2 DEF Inv, TypeOK, CommandInv, Goto, Thread
<1> QED
    BY <1>5, <1>7, <1>8, <1>9, <1>10 DEF Inv

LEMMA StartStep ==
    ASSUME Inv, Start PROVE Inv'
<1>1. /\ UNCHANGED <<localIp, count, touched, active, relayLock, vtcpLock, insts,
                     threads>>
      /\ RelayFree /\ enabled' = TRUE
    BY DEF Start
<1>2. /\ RelayTyped' /\ Consistent' /\ relayFd' \in 0..gen'
      /\ openFds' = {relayFd'} \ {0} /\ attempted' \in BOOLEAN
    <2>1. CASE ~connected /\ ConnectRelayLocked
        BY <1>1, <2>1, ConnectStep, NothingLeft DEF ConnectRelayLocked
    <2>2. CASE UNCHANGED <<relay, attempted>>
        BY <1>1, <2>2
           DEF Inv, TypeOK, RelayInv, RelayTyped, Consistent, RelayFree, relay
    <2> QED
        BY <2>1, <2>2 DEF Start
<1>3. TypeOK'
    BY <1>1, <1>2 DEF Inv, TypeOK, RelayTyped, insts, threads
<1>4. \A t \in Thread : pc'[t] = pc[t] /\ pc[t] \notin ClosePhase
    BY <1>1 DEF Inv, LockInv, RelayFree, Nobody, Thread, threads
<1>5. LockInv' /\ CommandInv'
    BY <1>1 DEF Inv, LockInv, CommandInv, threads
<1>6. RelayInv'
    BY <1>1, <1>2, <1>4 DEF RelayInv, ClosePhase
<1>7. SwitchInv'
    BY <1>1 DEF SwitchInv
<1> QED
    BY <1>3, <1>5, <1>6, <1>7 DEF Inv

LEMMA PumpStep ==
    ASSUME Inv, PumpLoop PROVE Inv'
<1>1. /\ UNCHANGED <<connected, relayFd, openFds, gen, pumpStop, globals,
                     relayLock, vtcpLock, insts, threads>>
      /\ pump # "off" /\ pump' \in {"off", "head", "recv"}
      /\ pump' = "off" => pumpStop
    BY DEF PumpLoop
<1>2. TypeOK'
    BY <1>1 DEF Inv, TypeOK, globals, insts, threads
<1>3. LockInv' /\ CommandInv'
    BY <1>1 DEF Inv, LockInv, CommandInv, globals, threads
<1>4. SwitchInv'
    BY <1>1 DEF Inv, SwitchInv, globals, threads
<1>5. RelayInv'
    BY <1>1 DEF Inv, RelayInv, Consistent, threads
<1> QED
    BY <1>2, <1>3, <1>4, <1>5 DEF Inv

-----------------------------------------------------------------------------
(* The steps that close the relay.                                         *)

\* A thread begins a Close: it takes the mutex.
LEMMA BeginCloseStep ==
    ASSUME Inv, NEW t \in Thread, NEW operation, BeginClose(t, operation),
           RelayFree, UNCHANGED relay,
           \/ t = "cfg" /\ operation \in {"reconnect", "off"}
           \/ t = "dispatch" /\ operation = "last"
           \/ t = "watchdog" /\ operation = "watchdog"
    PROVE  /\ LockInv' /\ RelayInv'
           /\ pc' \in [Thread -> Labels] /\ relayLock' \in Thread
           /\ after' \in [Thread -> {"none", "reconnect", "off", "last",
                                     "watchdog"}]
           /\ \A u \in Thread : u # t => pc'[u] = pc[u] /\ after'[u] = after[u]
           /\ pc'[t] = "stop" /\ after'[t] = operation
<1> USE DEF BeginClose, Goto, Inv
<1>1. /\ \A u \in Thread : u # t => pc'[u] = pc[u] /\ after'[u] = after[u]
      /\ pc'[t] = "stop" /\ after'[t] = operation /\ relayLock' = t
    BY DEF TypeOK
<1>2. \A u \in Thread : pc[u] \notin ClosePhase
    BY DEF LockInv, RelayFree, Nobody, Thread
<1>3. LockInv'
    <2>1. \A u \in Thread : (relayLock' = u <=> pc'[u] \in ClosePhase)
                            /\ (after'[u] # "none" <=> pc'[u] \in ClosePhase)
        BY <1>1, <1>2 DEF LockInv, ClosePhase
    <2> QED
        BY <1>1, <2>1 DEF LockInv, Thread
<1>4. RelayInv'
    BY <1>1, <1>2 DEF RelayInv, Consistent, RelayFree, Nobody, Thread, ClosePhase, relay
<1>5. /\ pc' \in [Thread -> Labels] /\ relayLock' \in Thread
      /\ after' \in [Thread -> {"none", "reconnect", "off", "last", "watchdog"}]
    BY <1>1 DEF TypeOK, Labels
<1> QED
    BY <1>1, <1>3, <1>4, <1>5

LEMMA OverlayClosesStep ==
    ASSUME Inv, ForceReconnect \/ Stop PROVE Inv'
<1>1. PICK operation \in {"reconnect", "off"} :
          /\ BeginClose("cfg", operation) /\ enabled' = (operation = "reconnect")
    BY DEF ForceReconnect, Stop
<1>2. /\ RelayFree
      /\ UNCHANGED <<relay, attempted, localIp, count, touched, active, vtcpLock,
                     insts, proc, sock, loaded>>
    BY DEF ForceReconnect, Stop
<1>3. /\ LockInv' /\ RelayInv'
      /\ pc' \in [Thread -> Labels] /\ relayLock' \in Thread
      /\ after' \in [Thread -> {"none", "reconnect", "off", "last", "watchdog"}]
      /\ pc'["dispatch"] = pc["dispatch"] /\ after'["cfg"] = operation
    BY <1>1, <1>2, BeginCloseStep DEF Thread
<1>4. enabled' \in BOOLEAN
    BY <1>1
<1>5. TypeOK'
    BY <1>2, <1>3, <1>4 DEF Inv, TypeOK, relay, insts, Labels
<1>6. CommandInv'
    BY <1>2, <1>3 DEF Inv, CommandInv
<1>7. SwitchInv'
    BY <1>1, <1>3 DEF SwitchInv
<1> QED
    BY <1>3, <1>5, <1>6, <1>7 DEF Inv

LEMMA WatchdogStep ==
    ASSUME Inv, Watchdog PROVE Inv'
<1>1. /\ RelayFree /\ BeginClose("watchdog", "watchdog")
      /\ UNCHANGED <<relay, globals, vtcpLock, insts, proc, sock, loaded>>
    BY DEF Watchdog
<1>2. /\ LockInv' /\ RelayInv'
      /\ pc' \in [Thread -> Labels] /\ relayLock' \in Thread
      /\ after' \in [Thread -> {"none", "reconnect", "off", "last", "watchdog"}]
      /\ pc'["dispatch"] = pc["dispatch"] /\ after'["cfg"] = after["cfg"]
    BY <1>1, BeginCloseStep DEF Thread
<1>3. TypeOK'
    BY <1>1, <1>2 DEF Inv, TypeOK, relay, globals, insts, Labels
<1>4. CommandInv' /\ SwitchInv'
    BY <1>1, <1>2 DEF Inv, CommandInv, SwitchInv, globals, relay
<1> QED
    BY <1>2, <1>3, <1>4 DEF Inv

LEMMA UnbridgeStep ==
    ASSUME Inv, Unbridge PROVE Inv'
<1>1. /\ RelayFree /\ pc["dispatch"] = "unbridge"
      /\ count' = Remaining /\ active' \in {active, NoProc}
      /\ UNCHANGED <<relay, enabled, attempted, localIp, touched, vtcpLock, insts,
                     proc, sock, loaded>>
    BY DEF Unbridge
<1>2. count' \in 0..MaxCount
    BY <1>1, LifeAssumption DEF Inv, TypeOK, Remaining
<1>3. CASE BeginClose("dispatch", "last")
    <2>1. /\ LockInv' /\ RelayInv'
          /\ pc' \in [Thread -> Labels] /\ relayLock' \in Thread
          /\ after' \in [Thread -> {"none", "reconnect", "off", "last",
                                    "watchdog"}]
          /\ pc'["dispatch"] = "stop" /\ after'["cfg"] = after["cfg"]
        BY <1>1, <1>3, BeginCloseStep DEF Thread
    <2>2. TypeOK'
        BY <1>1, <1>2, <2>1 DEF Inv, TypeOK, relay, insts, Labels
    <2>3. CommandInv' /\ SwitchInv'
        BY <1>1, <2>1 DEF Inv, CommandInv, SwitchInv, relay
    <2> QED
        BY <2>1, <2>2, <2>3 DEF Inv
<1>4. CASE Goto("dispatch", "idle") /\ UNCHANGED <<relayLock, after>>
    <2>1. LockInv' /\ RelayInv' /\ SwitchInv'
        BY <1>1, <1>4, Aside DEF Thread, Labels, ClosePhase
    <2>2. TypeOK'
        BY <1>1, <1>2, <1>4 DEF Inv, TypeOK, Goto, relay, insts, Thread
    <2>3. CommandInv'
        BY <1>4 DEF Inv, TypeOK, CommandInv, Goto, Thread
    <2> QED
        BY <2>1, <2>2, <2>3 DEF Inv
<1> QED
    BY <1>3, <1>4 DEF Unbridge

\* A step of the thread that holds the mutex, from one phase of Close to another.
LEMMA Within ==
    ASSUME Inv, NEW t \in Thread, NEW label \in ClosePhase, pc[t] \in ClosePhase,
           Goto(t, label), UNCHANGED <<relayLock, after, count, proc, sock>>
    PROVE  /\ LockInv' /\ CommandInv'
           /\ relayLock' = t /\ pc' \in [Thread -> Labels] /\ pc'[t] = label
           /\ \A u \in Thread : u # t => pc'[u] \notin ClosePhase
<1> USE DEF Inv, Goto
<1>1. pc'[t] = label /\ \A u \in Thread : u # t => pc'[u] = pc[u]
    BY DEF TypeOK
<1>2. relayLock = t /\ \A u \in Thread : u # t => pc[u] \notin ClosePhase
    BY DEF LockInv
<1>3. pc' \in [Thread -> Labels]
    BY DEF TypeOK, Labels, ClosePhase
<1>4. LockInv'
    BY <1>1 DEF LockInv
<1>5. CommandInv'
    BY <1>1 DEF CommandInv, ClosePhase, Thread
<1> QED
    BY <1>1, <1>2, <1>3, <1>4, <1>5

LEMMA StopPumpStep ==
    ASSUME Inv, NEW t \in Thread, StopPump(t) PROVE Inv'
<1>1. /\ UNCHANGED <<connected, relayFd, openFds, gen, pump, globals, relayLock,
                     vtcpLock, insts, after, proc, sock, loaded>>
      /\ pc[t] = "stop" /\ pumpStop' \in BOOLEAN
    BY DEF StopPump, StopFlag, Inv, TypeOK
<1>2. PICK label \in {"join", "shut"} :
          Goto(t, label) /\ (label = "shut" <=> pump = "off")
    BY DEF StopPump
<1>3. /\ LockInv' /\ CommandInv'
      /\ relayLock' = t /\ pc' \in [Thread -> Labels] /\ pc'[t] = label
      /\ \A u \in Thread : u # t => pc'[u] \notin ClosePhase
    BY <1>1, <1>2, Within DEF ClosePhase, globals
<1>4. TypeOK'
    BY <1>1, <1>3 DEF Inv, TypeOK, globals, insts, Labels
<1>5. RelayInv'
    BY <1>1, <1>2, <1>3 DEF Inv, RelayInv, Consistent, Nobody, Thread, ClosePhase
<1>6. SwitchInv'
    BY <1>1 DEF Inv, SwitchInv, globals
<1> QED
    BY <1>3, <1>4, <1>5, <1>6 DEF Inv

LEMMA JoinPumpStep ==
    ASSUME Inv, NEW t \in Thread, JoinPump(t) PROVE Inv'
<1>1. /\ UNCHANGED <<relay, globals, relayLock, vtcpLock, insts, after, proc,
                     sock, loaded>>
      /\ pc[t] = "join" /\ pump = "off" /\ Goto(t, "shut")
    BY DEF JoinPump, Joined
<1>2. /\ LockInv' /\ CommandInv'
      /\ relayLock' = t /\ pc' \in [Thread -> Labels] /\ pc'[t] = "shut"
      /\ \A u \in Thread : u # t => pc'[u] \notin ClosePhase
    BY <1>1, Within DEF ClosePhase, globals
<1>3. TypeOK'
    BY <1>1, <1>2 DEF Inv, TypeOK, relay, globals, insts, Labels
<1>4. RelayInv'
    BY <1>1, <1>2 DEF Inv, RelayInv, Nobody, Thread, ClosePhase, relay
<1>5. SwitchInv'
    BY <1>1 DEF Inv, SwitchInv, globals, relay
<1> QED
    BY <1>2, <1>3, <1>4, <1>5 DEF Inv

LEMMA CloseFdStep ==
    ASSUME Inv, NEW t \in Thread, CloseFd(t) PROVE Inv'
<1>1. /\ UNCHANGED <<connected, gen, pump, pumpStop, globals, relayLock, vtcpLock,
                     insts, after, proc, sock, loaded>>
      /\ pc[t] = "shut" /\ Goto(t, "reset") /\ relayFd' = 0
      /\ openFds' = openFds \ {relayFd}
    BY DEF CloseFd
<1>2. /\ LockInv' /\ CommandInv'
      /\ relayLock' = t /\ pc' \in [Thread -> Labels] /\ pc'[t] = "reset"
      /\ \A u \in Thread : u # t => pc'[u] \notin ClosePhase
    BY <1>1, Within DEF ClosePhase, globals
<1>3. pump = "off" /\ openFds' = {} /\ relayFd' \in 0..gen'
    BY <1>1 DEF Inv, RelayInv, TypeOK
<1>4. TypeOK'
    BY <1>1, <1>2, <1>3, LifeAssumption DEF Inv, TypeOK, globals, insts, Labels
<1>5. RelayInv'
    BY <1>1, <1>2, <1>3 DEF RelayInv, Nobody, Thread, ClosePhase
<1>6. SwitchInv'
    BY <1>1 DEF Inv, SwitchInv, globals
<1> QED
    BY <1>2, <1>4, <1>5, <1>6 DEF Inv

\* Reconnect opens the next socket; the others leave the relay disconnected.
LEMMA EndCloseStep ==
    ASSUME Inv, NEW t \in Thread, EndClose(t) PROVE Inv'
<1>1. /\ UNCHANGED <<enabled, active, vtcpLock, insts, proc, sock, loaded>>
      /\ pc[t] = "reset" /\ Goto(t, "idle") /\ relayLock' = Nobody
      /\ after' = [after EXCEPT ![t] = "none"] /\ touched' = FALSE
    BY DEF EndClose
<1>2. RelayTyped /\ relayFd = 0 /\ openFds = {} /\ pump = "off"
    BY <1>1 DEF Inv, TypeOK, RelayInv, RelayTyped
<1>3. /\ RelayTyped' /\ Consistent' /\ relayFd' \in 0..gen'
      /\ openFds' = {relayFd'} \ {0}
      /\ attempted' \in BOOLEAN /\ localIp' \in BOOLEAN /\ count' \in {count, 0}
      /\ connected' => after[t] = "reconnect"
    <2>1. CASE after[t] = "reconnect" /\ AfterReconnect
        BY <1>2, <2>1, ConnectStep
           DEF AfterReconnect, ConnectRelayLocked, Inv, TypeOK
    <2>2. CASE AfterStop \/ AfterLast \/ AfterWatchdog
        <3>1. /\ Disconnect /\ localIp' \in {localIp, FALSE}
              /\ count' \in {count, 0}
            BY <2>2 DEF AfterStop, AfterLast, AfterWatchdog
        <3>2. RelayTyped' /\ Consistent'
            BY <1>2, <3>1 DEF Disconnect, RelayTyped, Consistent
        <3>3. relayFd' \in 0..gen' /\ openFds' = {relayFd'} \ {0}
            BY <1>2, <3>1 DEF Disconnect, RelayTyped
        <3> QED
            BY <3>1, <3>2, <3>3 DEF Disconnect, Inv, TypeOK
    <2> QED
        BY <2>1, <2>2 DEF EndClose
<1>4. /\ pc'[t] = "idle" /\ after'[t] = "none"
      /\ \A u \in Thread : u # t => pc'[u] = pc[u] /\ after'[u] = after[u]
    BY <1>1 DEF Goto, Inv, TypeOK
<1>5. \A u \in Thread : u # t => pc[u] \notin ClosePhase
    BY <1>1 DEF Inv, LockInv, ClosePhase
<1>6. \A u \in Thread : pc'[u] \notin ClosePhase /\ after'[u] = "none"
    BY <1>4, <1>5 DEF Inv, LockInv, ClosePhase
<1>7. TypeOK'
    <2>1. count' \in 0..MaxCount
        BY <1>3, LifeAssumption DEF Inv, TypeOK
    <2> QED
        BY <1>1, <1>3, <2>1 DEF Inv, TypeOK, RelayTyped, Goto, insts
<1>8. LockInv'
    BY <1>1, <1>6 DEF LockInv, Nobody, Thread
<1>9. RelayInv'
    BY <1>3, <1>6 DEF RelayInv, ClosePhase
<1>10. SwitchInv'
    <2>1. after[t] = "reconnect" => enabled
        BY DEF Inv, LockInv, SwitchInv, Thread
    <2> QED
        BY <1>1, <1>3, <1>6, <2>1 DEF SwitchInv, Thread
<1>11. CommandInv'
    <2>1. pc'["dispatch"] \in {"bridge", "unbridge"} => pc["dispatch"] = pc'["dispatch"]
        BY <1>4 DEF Thread
    <2>2. count < MaxCount => count' < MaxCount
        BY <1>3, LifeAssumption DEF Inv, TypeOK
    <2> QED
        BY <1>1, <2>1, <2>2 DEF Inv, CommandInv
<1> QED
    BY <1>7, <1>8, <1>9, <1>10, <1>11 DEF Inv

LEMMA IdleStep ==
    ASSUME Inv, UNCHANGED vars PROVE Inv'
<1> USE DEF Inv, vars, relay, globals, insts, threads
<1>1. TypeOK' /\ LockInv' /\ CommandInv'
    BY DEF TypeOK, LockInv, CommandInv
<1>2. RelayInv' /\ SwitchInv'
    BY DEF RelayInv, SwitchInv, Consistent
<1> QED
    BY <1>1, <1>2

LEMMA InitInv ==
    Init => Inv
<1> SUFFICES ASSUME Init PROVE Inv
    OBVIOUS
<1>1. TypeOK
    <2>1. 0 \in 0..MaxGen /\ 0 \in 0..MaxCount
        BY LifeAssumption
    <2>2. RelayTyped /\ enabled \in BOOLEAN /\ attempted \in BOOLEAN
          /\ localIp \in BOOLEAN /\ touched \in BOOLEAN /\ count \in 0..MaxCount
        BY <2>1, Zenon DEF Init, RelayTyped
    <2>3. /\ active \in Proc \cup {NoProc} /\ alive \subseteq Proc
          /\ bridged \in [Proc -> Sock \cup {NoSock}]
          /\ bound \in [Proc -> SUBSET Sock] /\ sock \in Sock \cup {NoSock}
          /\ relayLock \in Thread \cup {Nobody} /\ vtcpLock \in Thread \cup {Nobody}
        BY DEF Init
    <2>4. /\ pc \in [Thread -> Labels] /\ proc \in [Thread -> Proc \cup {NoProc}]
          /\ after \in [Thread -> {"none", "reconnect", "off", "last", "watchdog"}]
        BY DEF Init, Labels
    <2>5. loaded \in [Thread -> 0..MaxGen]
        BY LifeAssumption DEF Init
    <2> QED
        BY <2>1, <2>2, <2>3, <2>4, <2>5 DEF TypeOK, RelayTyped, Labels
<1>2. LockInv /\ CommandInv
    BY DEF Init, LockInv, CommandInv, ClosePhase, Thread, Nobody
<1>3. RelayInv /\ SwitchInv
    BY DEF Init, RelayInv, SwitchInv, Consistent, Thread
<1> QED
    BY <1>1, <1>2, <1>3 DEF Inv

LEMMA NextInv ==
    Inv /\ [Next]_vars => Inv'
<1> SUFFICES ASSUME Inv, [Next]_vars PROVE Inv'
    OBVIOUS
<1>1. CASE Command
    BY <1>1, InstanceStep, RecvFromStep, BindStep, CloseStep, SendToStep
       DEF Command
<1>2. CASE CommandStep
    BY <1>2, BindBridgesStep, EnsureStep, UnbridgeStep DEF CommandStep
<1>3. CASE Overlay
    BY <1>3, OverlayClosesStep, StartStep DEF Overlay
<1>4. CASE \E t \in Thread : Closing(t) \/ Sending(t)
    BY <1>4, StopPumpStep, JoinPumpStep, CloseFdStep, EndCloseStep, SendingStep
       DEF Closing
<1> QED
    BY <1>1, <1>2, <1>3, <1>4, WatchdogStep, DrainStep, PumpStep, IdleStep
       DEF Next

LEMMA LifeInvariance ==
    Spec => []Inv
BY InitInv, NextInv, PTL DEF Spec

\* Types, among them that g_bridged_socket_count is never negative.
THEOREM LifeTyped ==
    Spec => []TypeOK
<1>1. Inv => TypeOK
    BY DEF Inv
<1> QED
    BY <1>1, LifeInvariance, PTL

\* RelayBridge::Close joins the pump before it closes m_fd: PumpLoop never reads
\* a closed socket and Connect never leaks one, whichever of the threads closes.
THEOREM PumpSafe ==
    Spec => []PumpHasItsSocket
<1>1. Inv => PumpHasItsSocket
    <2> SUFFICES ASSUME Inv PROVE PumpHasItsSocket
        OBVIOUS
    <2>1. pump = "recv" => relayFd # 0
        <3>1. CASE relayLock = Nobody
            BY <3>1 DEF Inv, RelayInv, Consistent
        <3>2. CASE relayLock \in Thread
            BY <3>2 DEF Inv, LockInv, RelayInv, Consistent, ClosePhase
        <3> QED
            BY <3>1, <3>2 DEF Inv, TypeOK
    <2> QED
        BY <2>1 DEF Inv, RelayInv, PumpHasItsSocket
<1> QED
    BY <1>1, LifeInvariance, PTL

\* Once Stop has returned the relay stays off until Start or Reconnect, whatever
\* EnsureRelayConnected, the watchdog or a Close were doing meanwhile.
THEOREM StopIsFinal ==
    Spec => []OffMeansOff
<1>1. Inv => OffMeansOff
    <2> SUFFICES ASSUME Inv, ~enabled, relayLock = Nobody
                 PROVE  ~connected /\ openFds = {}
        BY DEF OffMeansOff
    <2>1. after["cfg"] = "none"
        BY DEF Inv, LockInv, Nobody, Thread
    <2>2. ~connected
        BY <2>1 DEF Inv, SwitchInv
    <2> QED
        BY <2>2 DEF Inv, RelayInv, Consistent
<1> QED
    BY <1>1, LifeInvariance, PTL
-----------------------------------------------------------------------------
(* The count of bridged sockets.                                           *)

\* Every process closes its sockets before it exits and has one bridged socket at
\* a time, and the watchdog, which resets the count, stays silent.
Orderly == Exits = {} /\ MaxBound = 1 /\ ~WatchdogOn

\* Between Close's removal of the socket and its critical section the count is one
\* ahead; Bind has found the process without a bridged socket.
CountInv ==
    /\ IsFiniteSet(Bridging)
    /\ pc["dispatch"] = "unbridge" => count = Cardinality(Bridging) + 1
    /\ pc["dispatch"] # "unbridge" => count = Cardinality(Bridging)
    /\ \A p \in alive : bound[p] = {bridged[p]} \ {NoSock}
    /\ \A p \in Proc \ alive : bound[p] = {}
    /\ pc["dispatch"] = "bridge" => LET p == proc["dispatch"]
                                    IN  p \in alive /\ bound[p] = {}
    /\ after["dispatch"] = "last" => Bridging = {}
    /\ after["watchdog"] = "none"
\* A step that leaves the sockets, and where Bind and Close stand, alone.
LEMMA CountAside ==
    ASSUME CountInv, UNCHANGED <<count, bridged, bound, alive>>,
           pc'["dispatch"] = "unbridge" <=> pc["dispatch"] = "unbridge",
           pc'["dispatch"] = "bridge" =>
               pc["dispatch"] = "bridge" /\ proc'["dispatch"] = proc["dispatch"],
           after'["dispatch"] = "last" => after["dispatch"] = "last",
           after'["watchdog"] = after["watchdog"]
    PROVE  CountInv'
<1>1. Bridging' = Bridging
    BY DEF Bridging
<1> QED
    BY <1>1 DEF CountInv

LEMMA BindCounts ==
    ASSUME Inv, CountInv, Orderly, NEW p \in Proc, NEW s \in Sock, Bind(p, s)
    PROVE  CountInv'
<1>1. bound[p] = {}
    <2>1. bound[p] = {} \/ bound[p] = {bridged[p]}
        BY DEF CountInv, Bind
    <2>2. Cardinality({bridged[p]}) = 1
        BY FS_Singleton
    <2> QED
        BY <2>1, <2>2 DEF Bind, Orderly
<1>2. /\ UNCHANGED <<count, bridged, bound, alive, after>>
      /\ pc["dispatch"] = "idle" /\ pc'["dispatch"] = "bridge"
      /\ proc'["dispatch"] = p /\ p \in alive
    BY DEF Bind, Goto, Inv, TypeOK, Thread, globals, insts
<1>3. Bridging' = Bridging
    BY <1>2 DEF Bridging
<1> QED
    BY <1>1, <1>2, <1>3 DEF CountInv

LEMMA BindBridgesCounts ==
    ASSUME Inv, CountInv, BindBridges
    PROVE  CountInv'
<1> DEFINE p == proc["dispatch"]
<1>1. /\ p \in alive /\ p \in Proc /\ bound[p] = {} /\ sock \in Sock
      /\ pc["dispatch"] = "bridge"
    BY DEF Inv, CommandInv, CountInv, BindBridges
<1>2. /\ UNCHANGED <<alive, after>> /\ count' = count + 1
      /\ pc'["dispatch"] = "ensure_bind"
      /\ bridged' = [bridged EXCEPT ![p] = sock]
      /\ bound' = [bound EXCEPT ![p] = @ \cup {sock}]
    BY DEF BindBridges, CountedIn, Goto, Inv, TypeOK, Thread
<1>3. bridged[p] = NoSock
    BY <1>1 DEF CountInv
<1>4. p \notin Bridging
    BY <1>3 DEF Bridging
<1>5. Bridging' = Bridging \cup {p}
    BY <1>1, <1>2, LifeAssumption DEF Bridging, Inv, TypeOK
<1>6. IsFiniteSet(Bridging') /\ Cardinality(Bridging') = Cardinality(Bridging) + 1
    BY <1>4, <1>5, FS_AddElement DEF CountInv
<1>7. /\ \A q \in alive' : bound'[q] = {bridged'[q]} \ {NoSock}
      /\ \A q \in Proc \ alive' : bound'[q] = {}
    BY <1>1, <1>2, LifeAssumption DEF CountInv, Inv, TypeOK
<1>8. after'["dispatch"] = "none"
    BY <1>1, <1>2 DEF Inv, LockInv, ClosePhase, Thread
<1> QED
    BY <1>1, <1>2, <1>6, <1>7, <1>8 DEF CountInv

LEMMA CloseCounts ==
    ASSUME Inv, CountInv, NEW p \in Proc, NEW s \in Sock, Close(p, s)
    PROVE  CountInv'
<1>1. bridged[p] = s
    BY DEF CountInv, Close
<1>2. /\ UNCHANGED <<alive, after, count>> /\ p \in alive
      /\ pc["dispatch"] = "idle" /\ pc'["dispatch"] = "unbridge"
      /\ bridged' = [bridged EXCEPT ![p] = NoSock]
      /\ bound' = [bound EXCEPT ![p] = @ \ {s}]
    BY <1>1 DEF Close, Goto, Inv, TypeOK, Thread, globals
<1>3. p \in Bridging
    BY <1>1, <1>2, LifeAssumption DEF Bridging
<1>4. Bridging' = Bridging \ {p}
    BY <1>1, <1>2 DEF Bridging, Inv, TypeOK
<1>5. IsFiniteSet(Bridging') /\ Cardinality(Bridging') = Cardinality(Bridging) - 1
    BY <1>3, <1>4, FS_RemoveElement DEF CountInv
<1>6. /\ \A q \in alive' : bound'[q] = {bridged'[q]} \ {NoSock}
      /\ \A q \in Proc \ alive' : bound'[q] = {}
    BY <1>1, <1>2 DEF CountInv, Inv, TypeOK
<1>7. after'["dispatch"] = "none"
    BY <1>2 DEF Inv, LockInv, ClosePhase, Thread
<1>8. Cardinality(Bridging) \in Nat
    BY FS_CardinalityType DEF CountInv
<1> QED
    BY <1>2, <1>5, <1>6, <1>7, <1>8 DEF CountInv

LEMMA UnbridgeCounts ==
    ASSUME Inv, CountInv, Unbridge
    PROVE  CountInv'
<1>1. /\ UNCHANGED <<bridged, bound, alive>> /\ count' = Remaining
      /\ pc["dispatch"] = "unbridge" /\ after'["watchdog"] = after["watchdog"]
      /\ pc'["dispatch"] \in {"idle", "stop"}
      /\ after'["dispatch"] = "last" => Remaining = 0
    BY DEF Unbridge, BeginClose, LastOne, Goto, Inv, TypeOK, LockInv, ClosePhase,
           Thread, insts
<1>2. Bridging' = Bridging
    BY <1>1 DEF Bridging
<1>3. Cardinality(Bridging) \in Nat
    BY FS_CardinalityType DEF CountInv
<1>4. Remaining = Cardinality(Bridging)
    BY <1>1, <1>3 DEF CountInv, Remaining
<1>5. Remaining = 0 => Bridging = {}
    BY <1>4, FS_EmptySet DEF CountInv
<1> QED
    BY <1>1, <1>2, <1>4, <1>5 DEF CountInv

\* A process that exits has closed its sockets, and one that starts has none.
LEMMA InstanceCounts ==
    ASSUME Inv, CountInv, Orderly, NEW p \in Proc, Destroy(p) \/ Create(p)
    PROVE  CountInv'
<1>1. UNCHANGED <<count, threads>> /\ pc["dispatch"] = "idle"
    BY DEF Destroy, Create, globals
<1>2. /\ Bridging' = Bridging
      /\ \A q \in alive' : bound'[q] = {bridged'[q]} \ {NoSock}
      /\ \A q \in Proc \ alive' : bound'[q] = {}
    <2>1. CASE Destroy(p)
        <3>1. bridged[p] = NoSock
            BY <2>1 DEF Destroy, Orderly, CountInv
        <3>2. alive' = alive \ {p} /\ bridged' = bridged
              /\ bound' = [bound EXCEPT ![p] = {}]
            BY <2>1 DEF Destroy
        <3>3. Bridging' = Bridging
            BY <3>1, <3>2 DEF Bridging
        <3> QED
            BY <3>2, <3>3 DEF CountInv, Inv, TypeOK
    <2>2. CASE Create(p)
        <3>1. p \notin alive /\ alive' = alive \cup {p} /\ bound' = bound
              /\ bridged' = [bridged EXCEPT ![p] = NoSock]
            BY <2>2 DEF Create
        <3>2. Bridging' = Bridging
            BY <3>1 DEF Bridging, Inv, TypeOK
        <3>3. bound[p] = {}
            BY <3>1 DEF CountInv
        <3> QED
            BY <3>1, <3>2, <3>3 DEF CountInv, Inv, TypeOK
    <2> QED
        BY <2>1, <2>2
<1> QED
    BY <1>1, <1>2 DEF CountInv, threads
\* The steps that bind and close no socket.
LEMMA OtherCounts ==
    ASSUME Inv, CountInv, Orderly,
           \/ \E p \in Proc : RecvFrom(p)
           \/ \E p \in Proc, tcp \in BOOLEAN : SendTo(p, tcp)
           \/ EnsureRelayConnected
           \/ Overlay
           \/ Watchdog
           \/ Drain
           \/ PumpLoop
           \/ \E t \in Thread : Closing(t) \/ Sending(t)
           \/ UNCHANGED vars
    PROVE  CountInv'
<1> USE DEF Inv, TypeOK, Thread, Goto
<1>1. CASE \E p \in Proc : RecvFrom(p)
    BY <1>1, CountAside DEF RecvFrom, insts, threads
<1>2. CASE \E p \in Proc, tcp \in BOOLEAN : SendTo(p, tcp)
    BY <1>2, CountAside DEF SendTo, globals, insts
<1>3. CASE EnsureRelayConnected
    BY <1>3, CountAside DEF EnsureRelayConnected, Finish, insts
<1>4. CASE Start
    BY <1>4, CountAside DEF Start, insts, threads
<1>5. CASE ForceReconnect \/ Stop
    BY <1>5, CountAside DEF ForceReconnect, Stop, BeginClose, insts
<1>6. CASE Drain
    BY <1>6, CountAside
       DEF Drain, DrainCopies, DrainUses, DrainWorks, Finish, globals, insts
<1>7. CASE PumpLoop
    BY <1>7, CountAside DEF PumpLoop, globals, insts, threads
<1>8. CASE UNCHANGED vars
    BY <1>8, CountAside DEF vars, globals, insts, threads
<1>9. ASSUME NEW t \in Thread, Sending(t) PROVE CountInv'
    BY <1>9, CountAside DEF Sending, SendLoads, SendUses, Finish, insts
<1>10. ASSUME NEW t \in Thread, StopPump(t) \/ JoinPump(t) \/ CloseFd(t)
       PROVE  CountInv'
    BY <1>10, CountAside DEF StopPump, JoinPump, CloseFd, globals, insts
<1>11. ASSUME NEW t \in Thread, EndClose(t) PROVE CountInv'
    <2>1. after[t] # "watchdog"
        BY DEF LockInv, CountInv
    <2>2. UNCHANGED <<count, bridged, bound, alive, proc>>
        BY <1>11, <2>1 DEF EndClose, AfterReconnect, AfterStop, AfterLast, insts
    <2>3. /\ after' = [after EXCEPT ![t] = "none"]
          /\ pc' = [pc EXCEPT ![t] = "idle"] /\ pc[t] = "reset"
        BY <1>11 DEF EndClose
    <2>4. after["watchdog"] = "none"
        BY DEF CountInv
    <2> QED
        BY <2>2, <2>3, <2>4, CountAside
<1>12. ~Watchdog
    BY DEF Watchdog, Orderly
<1> QED
    BY <1>1, <1>2, <1>3, <1>4, <1>5, <1>6, <1>7, <1>8, <1>9, <1>10, <1>11, <1>12
       DEF Overlay, Closing

LEMMA CountInvariance ==
    ASSUME Orderly PROVE Spec => []CountInv
<1>1. Init => CountInv
    <2> SUFFICES ASSUME Init PROVE CountInv
        OBVIOUS
    <2>1. Bridging = {}
        BY DEF Init, Bridging
    <2> QED
        BY <2>1, FS_EmptySet DEF Init, CountInv, Thread
<1>2. Inv /\ CountInv /\ [Next]_vars => CountInv'
    BY BindCounts, BindBridgesCounts, CloseCounts, UnbridgeCounts, InstanceCounts,
       OtherCounts DEF Next, Command, CommandStep
<1> QED
    BY <1>1, <1>2, LifeInvariance, PTL DEF Spec

\* g_bridged_socket_count is the number of bridged sockets of all processes, for
\* any number of them, whatever the overlay does to the relay meanwhile.
THEOREM CountExact ==
    ASSUME Orderly PROVE Spec => []CountIsExact
<1>1. CountInv => CountIsExact
    BY DEF CountInv, CountIsExact
<1> QED
    BY <1>1, CountInvariance, PTL

\* A Close takes the relay down only when no process has a bridged socket left.
THEOREM LastCloses ==
    ASSUME Orderly PROVE Spec => []OnlyTheLastCloses
<1>1. Inv /\ CountInv => OnlyTheLastCloses
    BY DEF Inv, LockInv, CountInv, OnlyTheLastCloses, Thread
<1> QED
    BY <1>1, LifeInvariance, CountInvariance, PTL
=============================================================================
