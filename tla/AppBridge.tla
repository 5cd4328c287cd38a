------------------------------ MODULE AppBridge ------------------------------
(***************************************************************************)
(* The UDP side of the intercepted sessions: the packets that arrive from  *)
(* the relay are filed by port into g_control_queue, and Poll, Select and  *)
(* RecvFrom of the sessions answer from there.  The sessions come and go   *)
(* as DummySkip describes.                                                 *)
(*                                                                         *)
(* Two threads file packets: the drain thread every 5 ms, and the dispatch *)
(* thread, the only one that serves commands, at the beginning of each of  *)
(* these three.  PopIpv4 and the filing lock different mutexes, so a       *)
(* thread may be overtaken between them.  Poll and Select look at the      *)
(* queue, ask the real service, which may take the caller's whole timeout, *)
(* and look again.                                                         *)
(***************************************************************************)
EXTENDS DummySkip, Sequences, SequencesExt

CONSTANTS
    Ports,             \* for each session, the ports it binds sockets to
    LdnControlPort,    \* 11452
    NoPort,            \* no bridged socket
    Idle,              \* nothing in hand, nothing to do
    Exits,             \* the processes that may exit
    RealEvents,        \* what the real service may report of a bridged socket
    ControlQueueSize,  \* packets g_control_queue holds
    MaxPackets         \* bound: packets that arrive

ASSUME ExitsAssumption == Exits \subseteq Proc

ASSUME QueueAssumption ==
    /\ ControlQueueSize \in Nat /\ MaxPackets \in Nat
    /\ Idle \notin {"drain", "wait", "answer", "forward"}

VARIABLES
    bound,             \* m_bridged_local_port of each session
    raw,               \* the relay's queue, as PopIpv4 reads it
    hand,              \* the packet each thread has popped and not filed
    queue,             \* g_control_queue
    call,              \* the command the dispatch thread serves
    told,              \* sessions that were told of data and have not read
    arrived            \* used up of MaxPackets

ports  == <<bound, told>>
stream == <<raw, hand, queue, arrived>>
vars   == <<skipVars, ports, stream, call>>

Port   == UNION {Ports[s] : s \in Session}
Thread == {"dispatch", "drain"}
Packet == [id : 1..MaxPackets, port : Port]
Fd     == {"own", "other"}   \* the bridged socket, and some other descriptor

Init ==
    /\ SkipInit
    /\ bound = [s \in Session |-> NoPort] /\ told = {}
    /\ raw = << >> /\ hand = [t \in Thread |-> Idle] /\ queue = << >>
    /\ arrived = 0
    /\ call = [at |-> Idle]

-----------------------------------------------------------------------------
(* Filing.                                                                 *)

\* The pump thread puts a datagram into the relay's queue.
Arrive ==
    /\ arrived < MaxPackets /\ arrived' = arrived + 1
    /\ \E port \in Port : raw' = Append(raw, [id |-> arrived + 1, port |-> port])
    /\ UNCHANGED <<skipVars, ports, hand, queue, call>>

\* PopIpv4, under m_queue_mutex.
PopIpv4(t) ==
    /\ t = "drain" \/ call.at = "drain"
    /\ hand[t] = Idle /\ raw # << >>
    /\ hand' = [hand EXCEPT ![t] = Head(raw)] /\ raw' = Tail(raw)
    /\ UNCHANGED <<skipVars, ports, queue, arrived, call>>

\* Mutant: the array is one entry longer than ControlQueueSize.
FileOneTooMany(t) ==
    /\ hand[t] # Idle
    /\ queue' = IF Len(queue) <= ControlQueueSize THEN Append(queue, hand[t])
                ELSE queue
    /\ hand' = [hand EXCEPT ![t] = Idle]
    /\ UNCHANGED <<skipVars, ports, raw, arrived, call>>

\* The packet is filed, or dropped when there is no room, under
\* g_control_queue_mutex.
FilePacket(t) ==
    /\ hand[t] # Idle
    /\ queue' = IF Len(queue) < ControlQueueSize THEN Append(queue, hand[t])
                ELSE queue
    /\ hand' = [hand EXCEPT ![t] = Idle]
    /\ UNCHANGED <<skipVars, ports, raw, arrived, call>>

-----------------------------------------------------------------------------
(* The commands.                                                           *)

Matching(port) == {i \in 1..Len(queue) : queue[i].port = port}

\* Mutant: anything in the queue counts, whoever it is for.
PendingForAnyone(s) == bound[s] # NoPort /\ queue # << >>

\* VFdHasPendingRead for the session's bridged socket.
VFdHasPendingRead(s) == bound[s] # NoPort /\ Matching(bound[s]) # {}

Serves(s) == call.at = Idle /\ sess[s].role = "bridged" /\ sess[s].client

\* Bind: a UDP socket on the control port is bridged, and one on another port
\* if it has the address that is already bridged (match; RelayLife has the
\* address).
Bind(s, port) ==
    /\ Serves(s) /\ bound[s] = NoPort
    /\ port \in Ports[s]
    /\ \E match \in BOOLEAN :
          bound' = IF port = LdnControlPort \/ match
                   THEN [bound EXCEPT ![s] = port] ELSE bound
    /\ UNCHANGED <<skipVars, told, stream, call>>

\* Close of the bridged socket.  What waits for its port stays in the queue.
CloseSocket(s) ==
    /\ Serves(s) /\ bound[s] # NoPort
    /\ bound' = [bound EXCEPT ![s] = NoPort] /\ told' = told \ {s}
    /\ UNCHANGED <<skipVars, stream, call>>

\* Poll, Select and RecvFrom begin with DrainRelay.
Begin(s, command) ==
    /\ Serves(s)
    /\ call' = [at |-> "drain", session |-> s, command |-> command,
                pending |-> FALSE]
    /\ UNCHANGED <<skipVars, ports, stream>>

EndDrain == call.at = "drain" /\ raw = << >> /\ hand["dispatch"] = Idle

\* Poll and Select look for data before they ask the real service; when there
\* is some (any_pending) they ask it not to wait.
LookForData ==
    /\ EndDrain /\ call.command \in {"poll", "select"}
    /\ call' = [call EXCEPT !.at = "wait",
                            !.pending = VFdHasPendingRead(call.session)]
    /\ UNCHANGED <<skipVars, ports, stream>>

\* What is left of the real service's report on the bridged socket: on the
\* control port Poll swallows errors.
OwnEvents(s, real) == IF bound[s] = LdnControlPort THEN real \ {"err"} ELSE real

One(events) == IF events = {} THEN 0 ELSE 1

\* Mutant: the count is taken before the errors are swallowed.
CountOfReal(s, real, other, inject) ==
    One(real) + One(other) + (IF inject THEN 1 ELSE 0)

\* Every descriptor with events counts, and so does every injected one.
CountOf(s, real, other, inject) ==
    One(OwnEvents(s, real)) + One(other) + (IF inject THEN 1 ELSE 0)

Reply(s, own, other, count) ==
    /\ call' = [at |-> "answer", pending |-> call.pending,
                revents |-> [own |-> own, other |-> other], count |-> count]
    /\ told' = IF "in" \in own THEN told \cup {s} ELSE told
    /\ UNCHANGED <<skipVars, bound, stream>>

\* The real service has answered, at once or after the timeout: POLLIN is
\* added for a bridged socket with data, unless something is already reported
\* for it that makes the caller look.
AnswerPoll ==
    LET s == call.session
    IN  /\ call.at = "wait" /\ call.command = "poll"
        /\ \E real \in SUBSET RealEvents, other \in SUBSET {"in"} :
              LET own == OwnEvents(s, real)
                  inject == VFdHasPendingRead(s) /\ own \cap {"in", "err"} = {}
              IN  Reply(s, own \cup (IF inject THEN {"in"} ELSE {}), other,
                        CountOf(s, real, other, inject))

\* The same with the bits of a read set.  (The write and the error set are
\* the real service's business.)
AnswerSelect ==
    LET s == call.session
    IN  /\ call.at = "wait" /\ call.command = "select"
        /\ \E real \in SUBSET (RealEvents \cap {"in"}), other \in SUBSET {"in"} :
              LET inject == VFdHasPendingRead(s) /\ real = {}
              IN  Reply(s, real \cup (IF inject THEN {"in"} ELSE {}), other,
                        One(real) + One(other) + (IF inject THEN 1 ELSE 0))

\* Mutant: the scan goes on and ends with the newest packet for the port.
PopNewest(port) ==
    LET last == {i \in Matching(port) : \A j \in Matching(port) : i >= j}
    IN  IF last = {} THEN queue' = queue
        ELSE \E i \in last : queue' = RemoveAt(queue, i)

\* The first packet for the port leaves the queue, and the others move up.
PopControlPacketForPort(port) ==
    LET first == {i \in Matching(port) : \A j \in Matching(port) : i <= j}
    IN  IF first = {} THEN queue' = queue
        ELSE \E i \in first : queue' = RemoveAt(queue, i)

\* RecvFrom of a bridged socket takes its packet or answers EWOULDBLOCK; of
\* another one it asks the real service.
RecvFrom ==
    /\ EndDrain /\ call.command = "recv"
    /\ call' = [at |-> Idle]
    /\ IF bound[call.session] = NoPort THEN UNCHANGED queue
       ELSE PopControlPacketForPort(bound[call.session])
    /\ told' = told \ {call.session}
    /\ UNCHANGED <<skipVars, bound, raw, hand, arrived>>

\* Any other command goes to the real service, which takes its time; nothing
\* of the bridge changes.
Forward(s) ==
    /\ Serves(s)
    /\ call' = [at |-> "forward", session |-> s]
    /\ UNCHANGED <<skipVars, ports, stream>>

\* The answer goes back to the client.
Return ==
    /\ call.at \in {"answer", "forward"} /\ call' = [at |-> Idle]
    /\ UNCHANGED <<skipVars, ports, stream>>

-----------------------------------------------------------------------------
(* The sessions, as in DummySkip; the dispatch thread accepts and destroys *)
(* between two commands.                                                   *)

Open(s)  == OpenSession(s) /\ UNCHANGED <<ports, stream, call>>
Leave(s) == CloseSession(s) /\ UNCHANGED <<ports, stream, call>>
Exit(p)  == ExitProcess(p) /\ UNCHANGED <<ports, stream, call>>

Accept(s) ==
    /\ call.at = Idle
    /\ OnNeedsToAccept(s)
    /\ UNCHANGED <<ports, stream, call>>

End(s) ==
    /\ call.at = Idle
    /\ Destroy(s)
    /\ bound' = [bound EXCEPT ![s] = NoPort] /\ told' = told \ {s}
    /\ UNCHANGED <<stream, call>>

Next ==
    \/ Arrive
    \/ \E t \in Thread : PopIpv4(t) \/ FilePacket(t)
    \/ \E s \in Session :
          \/ Open(s) \/ Leave(s) \/ Accept(s) \/ End(s)
          \/ \E port \in Port : Bind(s, port)
          \/ CloseSocket(s)
          \/ \E command \in {"poll", "select", "recv"} : Begin(s, command)
          \/ Forward(s)
    \/ LookForData \/ AnswerPoll \/ AnswerSelect \/ RecvFrom \/ Return
    \/ \E p \in Exits : Exit(p)

Spec == Init /\ [][Next]_vars

-----------------------------------------------------------------------------
(* Properties.                                                             *)

TypeOK ==
    /\ SkipTypeOK
    /\ bound \in [Session -> Port \cup {NoPort}] /\ told \subseteq Session
    /\ raw \in Seq(Packet) /\ queue \in Seq(Packet)
    /\ Len(queue) <= ControlQueueSize
    /\ hand \in [Thread -> Packet \cup {Idle}]
    /\ arrived \in 0..MaxPackets
    /\ call.at \in {Idle, "drain", "wait", "answer", "forward"}

\* A caller that was told of data by Poll or Select finds it: until it reads or
\* closes, a packet for its own port is in the shared queue, whatever other
\* sessions read in the meantime (bsd_bridge_service.cpp:1242-1248, 1503-1520).
PollInIsHonest ==
    \A s \in told : \E i \in 1..Len(queue) : queue[i].port = bound[s]

\* Data that waited when Poll or Select looked is reported by that call, with
\* the real service asked in between, and the count is the number of
\* descriptors with events, swallowed errors not among them
\* (bsd_bridge_service.cpp:1447-1450, 1480-1520).
DataIsReported ==
    call.at = "answer" =>
        /\ call.pending => call.revents["own"] # {}
        /\ call.count = Cardinality({fd \in Fd : call.revents[fd] # {}})

\* The dense array that both threads fill and any session takes from, with its
\* linear scan and compaction, is a first-in first-out channel for every port
\* (bsd_bridge_service.cpp:321-331, 351-365).
Channels == INSTANCE PortChannels WITH
    Capacity <- ControlQueueSize,
    chan <- [port \in Port |->
                SelectSeq(queue, LAMBDA packet : packet.port = port)]

IsPortChannels == Channels!Spec
=============================================================================
