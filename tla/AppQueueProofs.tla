--------------------------- MODULE AppQueueProofs ---------------------------
(***************************************************************************)
(* The control queue and the answers of Poll and Select, for any number of *)
(* sessions, ports and packets.                                            *)
(***************************************************************************)
EXTENDS AppBridgeProofs, SequenceTheorems

-----------------------------------------------------------------------------
(* The queue as a sequence.                                                *)

\* PopControlPacketForPort moves the packets behind the one it takes up by one.
LEMMA Removed ==
    ASSUME NEW S, NEW q \in Seq(S), NEW i \in 1..Len(q)
    PROVE  /\ RemoveAt(q, i) \in Seq(S) /\ Len(RemoveAt(q, i)) = Len(q) - 1
           /\ \A j \in 1..(Len(q) - 1) :
                  RemoveAt(q, i)[j] = IF j < i THEN q[j] ELSE q[j + 1]
<1>1. PICK n \in Nat : n = Len(q) /\ i \in 1..n /\ \A j \in 1..n : q[j] \in S
    BY LenProperties
<1>2. PICK a, b : a = SubSeq(q, 1, i - 1) /\ b = SubSeq(q, i + 1, n)
    OBVIOUS
<1>3. a \in Seq(S) /\ Len(a) = i - 1 /\ \A j \in 1..(i - 1) : a[j] = q[j]
    <2>1. /\ 1 \in Int /\ i - 1 \in Int /\ \A j \in 1..(i - 1) : q[j] \in S
          /\ (i - 1) - 1 + 1 = i - 1
        BY <1>1
    <2>2. /\ a \in Seq(S)
          /\ Len(a) = IF 1 <= i - 1 THEN (i - 1) - 1 + 1 ELSE 0
          /\ \A j \in 1..((i - 1) - 1 + 1) : a[j] = q[1 + j - 1]
        BY <1>2, <2>1, SubSeqProperties
    <2>3. (IF 1 <= i - 1 THEN (i - 1) - 1 + 1 ELSE 0) = i - 1
        BY <1>1
    <2>4. \A j \in 1..(i - 1) : 1 + j - 1 = j
        BY <1>1
    <2>5. \A j \in 1..(i - 1) : a[j] = q[j]
        BY <2>1, <2>2, <2>4
    <2> QED
        BY <2>2, <2>3, <2>5
<1>4. b \in Seq(S) /\ Len(b) = n - i /\ \A j \in 1..(n - i) : b[j] = q[i + j]
    <2>1. /\ i + 1 \in Int /\ n \in Int /\ \A j \in (i + 1)..n : q[j] \in S
          /\ n - (i + 1) + 1 = n - i
        BY <1>1
    <2>2. /\ b \in Seq(S)
          /\ Len(b) = IF i + 1 <= n THEN n - (i + 1) + 1 ELSE 0
          /\ \A j \in 1..(n - (i + 1) + 1) : b[j] = q[(i + 1) + j - 1]
        BY <1>2, <2>1, SubSeqProperties
    <2>3. (IF i + 1 <= n THEN n - (i + 1) + 1 ELSE 0) = n - i
        BY <1>1
    <2>4. \A j \in 1..(n - i) : (i + 1) + j - 1 = i + j
        BY <1>1
    <2>5. \A j \in 1..(n - i) : b[j] = q[i + j]
        BY <2>1, <2>2, <2>4
    <2> QED
        BY <2>2, <2>3, <2>5
<1>5. PICK c : c = a \o b
    OBVIOUS
<1>6. /\ c \in Seq(S) /\ Len(c) = n - 1
      /\ \A j \in 1..(n - 1) : c[j] = IF j <= i - 1 THEN a[j] ELSE b[j - (i - 1)]
    <2>1. /\ c \in Seq(S) /\ Len(c) = Len(a) + Len(b)
          /\ \A j \in 1..(Len(a) + Len(b)) :
                 c[j] = IF j <= Len(a) THEN a[j] ELSE b[j - Len(a)]
        BY <1>3, <1>4, <1>5, ConcatProperties
    <2>2. Len(a) + Len(b) = n - 1
        <3>1. (i - 1) + (n - i) = n - 1
            BY <1>1
        <3> QED
            BY <1>3, <1>4, <3>1
    <2> QED
        BY <1>3, <2>1, <2>2
<1>7. ASSUME NEW j \in 1..(n - 1) PROVE c[j] = IF j < i THEN q[j] ELSE q[j + 1]
    <2>1. CASE j < i
        <3>1. j \in 1..(i - 1) /\ j <= i - 1
            BY <1>1, <2>1
        <3> QED
            BY <1>3, <1>6, <2>1, <3>1
    <2>2. CASE ~(j < i)
        <3>1. /\ j - (i - 1) \in 1..(n - i) /\ i + (j - (i - 1)) = j + 1
              /\ ~(j <= i - 1)
            BY <1>1, <2>2
        <3> QED
            BY <1>4, <1>6, <2>2, <3>1
    <2> QED
        BY <2>1, <2>2
<1>8. RemoveAt(q, i) = c
    BY <1>1, <1>2, <1>5 DEF RemoveAt
<1> QED
    BY <1>1, <1>6, <1>7, <1>8

LEMMA Appended ==
    ASSUME NEW S, NEW q \in Seq(S), NEW x \in S
    PROVE  /\ Append(q, x) \in Seq(S) /\ Len(Append(q, x)) = Len(q) + 1
           /\ \A i \in 1..Len(q) : i \in 1..(Len(q) + 1) /\ Append(q, x)[i] = q[i]
BY AppendProperties, LenProperties
-----------------------------------------------------------------------------
(* Types.                                                                  *)

\* A command in DrainRelay, and one that waits for the real service.
DrainCall ==
    [at : {"drain"}, session : Session, command : {"poll", "select", "recv"},
     pending : {FALSE}]
WaitCall ==
    [at : {"wait"}, session : Session, command : {"poll", "select"},
     pending : BOOLEAN]

\* TypeOK but for the sessions, with what a command knows in its phases.
AppInv ==
    /\ bound \in [Session -> Port \cup {NoPort}] /\ told \subseteq Session
    /\ raw \in Seq(Packet) /\ queue \in Seq(Packet)
    /\ Len(queue) <= ControlQueueSize
    /\ hand \in [Thread -> Packet \cup {Idle}]
    /\ arrived \in 0..MaxPackets
    /\ \/ call \in DrainCall \cup WaitCall
       \/ call.at \in {Idle, "answer", "forward"}

LEMMA CallFacts ==
    ASSUME AppInv
    PROVE  /\ call.at = "drain" => call \in DrainCall
           /\ call.at = "wait" => call \in WaitCall
           /\ call.at \in {Idle, "drain", "wait", "answer", "forward"}
BY QueueAssumption DEF AppInv, DrainCall, WaitCall

\* The first packet for a port leaves the queue; those for other ports stay.
LEMMA PopFacts ==
    ASSUME AppInv, NEW port, PopControlPacketForPort(port)
    PROVE  /\ queue' \in Seq(Packet) /\ Len(queue') <= Len(queue)
           /\ \A other : (/\ other # port
                          /\ \E i \in 1..Len(queue) : queue[i].port = other)
                         => \E i \in 1..Len(queue') : queue'[i].port = other
<1>1. PICK n \in Nat : n = Len(queue)
    BY LenProperties DEF AppInv
<1>2. CASE queue' = queue
    BY <1>1, <1>2 DEF AppInv
<1>3. ASSUME NEW i \in Matching(port), queue' = RemoveAt(queue, i)
      PROVE  /\ queue' \in Seq(Packet) /\ Len(queue') <= Len(queue)
             /\ \A other : (/\ other # port
                            /\ \E j \in 1..Len(queue) : queue[j].port = other)
                           => \E j \in 1..Len(queue') : queue'[j].port = other
    <2>1. i \in 1..n /\ queue[i].port = port
        BY <1>1 DEF Matching
    <2>2. /\ queue' \in Seq(Packet) /\ Len(queue') = n - 1
          /\ \A j \in 1..(n - 1) : queue'[j] = IF j < i THEN queue[j] ELSE queue[j + 1]
        BY <1>1, <1>3, <2>1, Removed DEF AppInv
    <2>3. ASSUME NEW other, other # port, NEW j \in 1..n, queue[j].port = other
          PROVE  \E l \in 1..(n - 1) : queue'[l].port = other
        <3>1. j # i
            BY <2>1, <2>3
        <3>2. CASE j < i
            <4>1. j \in 1..(n - 1)
                BY <2>1, <3>2
            <4> QED
                BY <2>2, <2>3, <3>2, <4>1
        <3>3. CASE j > i
            <4>1. j - 1 \in 1..(n - 1) /\ ~(j - 1 < i) /\ (j - 1) + 1 = j
                BY <2>1, <3>3
            <4>2. queue'[j - 1] = queue[j]
                BY <2>2, <4>1
            <4> QED
                BY <2>3, <4>1, <4>2
        <3> QED
            BY <2>1, <3>1, <3>2, <3>3
    <2>4. Len(queue') <= Len(queue)
        BY <1>1, <2>2
    <2> QED
        BY <1>1, <2>2, <2>3, <2>4
<1> QED
    BY <1>2, <1>3 DEF PopControlPacketForPort

\* A packet is filed: what was in the queue stays where it is.
LEMMA FileFacts ==
    ASSUME AppInv, NEW t \in Thread, FilePacket(t)
    PROVE  /\ queue' \in Seq(Packet) /\ Len(queue') <= ControlQueueSize
           /\ \A i \in 1..Len(queue) : i \in 1..Len(queue') /\ queue'[i] = queue[i]
<1>1. PICK n \in Nat : n = Len(queue) /\ n <= ControlQueueSize
    BY LenProperties DEF AppInv
<1>2. CASE n < ControlQueueSize /\ queue' = Append(queue, hand[t])
    <2>1. hand[t] \in Packet
        BY DEF FilePacket, AppInv
    <2>2. /\ queue' \in Seq(Packet) /\ Len(queue') = n + 1
          /\ \A i \in 1..n : i \in 1..(n + 1) /\ queue'[i] = queue[i]
        BY <1>1, <1>2, <2>1, Appended DEF AppInv
    <2>3. n + 1 <= ControlQueueSize
        BY <1>1, <1>2, QueueAssumption
    <2> QED
        BY <1>1, <2>2, <2>3
<1>3. CASE queue' = queue
    BY <1>1, <1>3 DEF AppInv
<1> QED
    BY <1>1, <1>2, <1>3 DEF FilePacket

LEMMA StreamTyped ==
    ASSUME AppInv,
           Arrive \/ \E t \in Thread : PopIpv4(t) \/ FilePacket(t)
    PROVE  AppInv'
<1>1. CASE Arrive
    <2>1. PICK port \in Port : raw' = Append(raw, [id |-> arrived + 1, port |-> port])
        BY <1>1 DEF Arrive
    <2>2. arrived + 1 \in 1..MaxPackets /\ arrived' \in 0..MaxPackets
        BY <1>1, QueueAssumption DEF Arrive, AppInv
    <2>3. [id |-> arrived + 1, port |-> port] \in Packet
        BY <2>2 DEF Packet
    <2>4. raw' \in Seq(Packet)
        BY <2>1, <2>3, Appended DEF AppInv
    <2> QED
        BY <1>1, <2>2, <2>4 DEF Arrive, AppInv, ports
<1>2. ASSUME NEW t \in Thread, PopIpv4(t) PROVE AppInv'
    <2>1. Head(raw) \in Packet /\ Tail(raw) \in Seq(Packet)
        BY <1>2, HeadTailProperties DEF PopIpv4, AppInv
    <2>2. hand' \in [Thread -> Packet \cup {Idle}]
        BY <1>2, <2>1 DEF PopIpv4, AppInv
    <2> QED
        BY <1>2, <2>1, <2>2 DEF PopIpv4, AppInv, ports
<1>3. ASSUME NEW t \in Thread, FilePacket(t) PROVE AppInv'
    <2>1. queue' \in Seq(Packet) /\ Len(queue') <= ControlQueueSize
        BY <1>3, FileFacts
    <2>2. hand' \in [Thread -> Packet \cup {Idle}]
        BY <1>3 DEF FilePacket, AppInv
    <2> QED
        BY <1>3, <2>1, <2>2 DEF FilePacket, AppInv, ports
<1> QED
    BY <1>1, <1>2, <1>3

\* The steps that leave packets alone: sessions, sockets, and the phases of a
\* command before its answer.
LEMMA SessionsTyped ==
    ASSUME AppInv, NEW s \in Session,
           \/ Open(s) \/ Leave(s) \/ Accept(s) \/ End(s)
           \/ \E port \in Port : Bind(s, port)
           \/ CloseSocket(s)
           \/ \E command \in {"poll", "select", "recv"} : Begin(s, command)
           \/ Forward(s)
    PROVE  AppInv'
<1>1. UNCHANGED stream
    BY DEF Open, Leave, Accept, End, Bind, CloseSocket, Begin, Forward
<1>2. bound' \in [Session -> Port \cup {NoPort}] /\ told' \subseteq Session
    BY DEF Open, Leave, Accept, End, Bind, CloseSocket, Begin, Forward, ports, AppInv
<1>3. call' = call \/ call' \in DrainCall \/ call'.at = "forward"
    <2>1. CASE \E command \in {"poll", "select", "recv"} : Begin(s, command)
        BY <2>1 DEF Begin, DrainCall
    <2>2. CASE Forward(s)
        BY <2>2 DEF Forward
    <2> QED
        BY <2>1, <2>2 DEF Open, Leave, Accept, End, Bind, CloseSocket
<1> QED
    BY <1>1, <1>2, <1>3 DEF AppInv, stream

LEMMA LookTyped ==
    ASSUME AppInv, LookForData
    PROVE  /\ AppInv' /\ call' \in WaitCall
           /\ call'.pending = VFdHasPendingRead(call'.session)
<1>1. call \in DrainCall /\ call.command \in {"poll", "select"}
    BY CallFacts DEF LookForData, EndDrain
<1>2. PICK pending \in BOOLEAN : pending = VFdHasPendingRead(call.session)
    BY DEF VFdHasPendingRead
<1>3. call' = [call EXCEPT !.at = "wait", !.pending = pending]
    BY <1>2 DEF LookForData
<1>4. /\ call' \in WaitCall /\ call'.session = call.session
      /\ call'.pending = pending
    BY <1>1, <1>3 DEF DrainCall, WaitCall
<1> QED
    BY <1>2, <1>4 DEF LookForData, AppInv, ports, stream

LEMMA AnswersTyped ==
    ASSUME AppInv, LookForData \/ AnswerPoll \/ AnswerSelect \/ RecvFrom \/ Return
    PROVE  AppInv'
<1>1. CASE LookForData
    BY <1>1, LookTyped
<1>2. CASE AnswerPoll \/ AnswerSelect
    <2>1. call \in WaitCall
        BY <1>2, CallFacts DEF AnswerPoll, AnswerSelect
    <2>2. PICK own, other, count : Reply(call.session, own, other, count)
        BY <1>2 DEF AnswerPoll, AnswerSelect
    <2>3. call'.at = "answer" /\ told' \subseteq Session /\ UNCHANGED <<bound, stream>>
        BY <2>1, <2>2 DEF Reply, WaitCall, AppInv
    <2> QED
        BY <2>3 DEF AppInv, stream
<1>3. CASE RecvFrom
    <2>1. queue' \in Seq(Packet) /\ Len(queue') <= ControlQueueSize
        <3>1. CASE queue' = queue
            BY <3>1 DEF AppInv
        <3>2. CASE PopControlPacketForPort(bound[call.session])
            <4>1. queue' \in Seq(Packet) /\ Len(queue') <= Len(queue)
                BY <3>2, PopFacts
            <4>2. Len(queue) \in Nat /\ Len(queue') \in Nat
                BY <4>1, LenProperties DEF AppInv
            <4> QED
                BY <4>1, <4>2, QueueAssumption DEF AppInv
        <3> QED
            BY <1>3, <3>1, <3>2 DEF RecvFrom
    <2> QED
        BY <1>3, <2>1 DEF RecvFrom, AppInv
<1>4. CASE Return
    BY <1>4 DEF Return, AppInv, ports, stream
<1> QED
    BY <1>1, <1>2, <1>3, <1>4

LEMMA RestTyped ==
    ASSUME AppInv, (\E p \in Exits : Exit(p)) \/ UNCHANGED vars PROVE AppInv'
BY DEF Exit, vars, AppInv, ports, stream

LEMMA NextApp ==
    AppInv /\ [Next]_vars => AppInv'
<1> SUFFICES ASSUME AppInv, [Next]_vars PROVE AppInv'
    OBVIOUS
<1>1. ASSUME NEW s \in Session,
             \/ Open(s) \/ Leave(s) \/ Accept(s) \/ End(s)
             \/ \E port \in Port : Bind(s, port)
             \/ CloseSocket(s)
             \/ \E command \in {"poll", "select", "recv"} : Begin(s, command)
             \/ Forward(s)
      PROVE  AppInv'
    BY <1>1, SessionsTyped
<1> QED
    BY <1>1, StreamTyped, AnswersTyped, RestTyped DEF Next

LEMMA InitApp ==
    Init => AppInv
<1> SUFFICES ASSUME Init PROVE AppInv
    OBVIOUS
<1>1. << >> \in Seq(Packet) /\ Len(<< >>) = 0
    OBVIOUS
<1>2. arrived \in 0..MaxPackets /\ 0 <= ControlQueueSize
    BY QueueAssumption DEF Init
<1>3. bound \in [Session -> Port \cup {NoPort}] /\ told \subseteq Session
      /\ hand \in [Thread -> Packet \cup {Idle}] /\ call.at = Idle
    BY DEF Init
<1> QED
    BY <1>1, <1>2, <1>3 DEF Init, AppInv

LEMMA AppAlways ==
    Spec => []AppInv
BY InitApp, NextApp, PTL DEF Spec

\* Types of the bridge and of the table: no packet is filed past the end of
\* g_control_queue, whichever of the two threads files it.
THEOREM AppTyped ==
    Spec => []TypeOK
<1>1. TableInv /\ AppInv => TypeOK
    BY CallFacts DEF TableInv, AppInv, TypeOK
<1> QED
    BY <1>1, TableAlways, AppAlways, PTL
-----------------------------------------------------------------------------
(* What Poll and Select report.                                            *)

\* Data that Poll or Select found waits while the real service is asked.
ReportInv ==
    /\ call.at = "wait" /\ call.pending => VFdHasPendingRead(call.session)
    /\ DataIsReported

LEMMA FdCount ==
    ASSUME NEW r
    PROVE  Cardinality({fd \in Fd : r[fd] # {}}) = One(r["own"]) + One(r["other"])
<1> DEFINE S == {fd \in Fd : r[fd] # {}}
<1>1. CASE r["own"] = {} /\ r["other"] = {}
    <2>1. S = {}
        BY <1>1 DEF Fd
    <2> QED
        BY <1>1, <2>1, FS_EmptySet DEF One
<1>2. CASE r["own"] # {} /\ r["other"] = {}
    <2>1. S = {"own"}
        BY <1>2 DEF Fd
    <2> QED
        BY <1>2, <2>1, FS_Singleton DEF One
<1>3. CASE r["own"] = {} /\ r["other"] # {}
    <2>1. S = {"other"}
        BY <1>3 DEF Fd
    <2> QED
        BY <1>3, <2>1, FS_Singleton DEF One
<1>4. CASE r["own"] # {} /\ r["other"] # {}
    <2>1. S = {"own"} \cup {"other"}
        BY <1>4 DEF Fd
    <2>2. IsFiniteSet({"own"}) /\ Cardinality({"own"}) = 1 /\ "other" \notin {"own"}
        BY FS_Singleton
    <2>3. Cardinality({"own"} \cup {"other"}) = 1 + 1
        BY <2>2, FS_AddElement
    <2> QED
        BY <1>4, <2>1, <2>3 DEF One
<1> QED
    BY <1>1, <1>2, <1>3, <1>4

\* A reply that has an event when data was found, and counts the descriptors.
LEMMA ReplyReports ==
    ASSUME NEW s, NEW own, NEW other, NEW count, Reply(s, own, other, count),
           call.pending => own # {}, count = One(own) + One(other)
    PROVE  ReportInv'
<1>1. /\ call'.at = "answer" /\ call'.pending = call.pending
      /\ call'.revents["own"] = own /\ call'.revents["other"] = other
      /\ call'.count = count
    BY DEF Reply
<1>2. Cardinality({fd \in Fd : call'.revents[fd] # {}}) =
          One(call'.revents["own"]) + One(call'.revents["other"])
    BY FdCount
<1>3. DataIsReported'
    BY <1>1, <1>2 DEF DataIsReported
<1> QED
    BY <1>1, <1>3 DEF ReportInv

LEMMA AnswerPollReports ==
    ASSUME RealEvents \subseteq {"in", "err"}, AppInv, ReportInv, AnswerPoll
    PROVE  ReportInv'
<1> DEFINE s == call.session
<1>1. PICK real \in SUBSET RealEvents, other \in SUBSET {"in"} :
          LET own == OwnEvents(s, real)
              inject == VFdHasPendingRead(s) /\ own \cap {"in", "err"} = {}
          IN  Reply(s, own \cup (IF inject THEN {"in"} ELSE {}), other,
                    CountOf(s, real, other, inject))
    BY DEF AnswerPoll
<1> DEFINE own == OwnEvents(s, real)
           inject == VFdHasPendingRead(s) /\ own \cap {"in", "err"} = {}
           all == own \cup (IF inject THEN {"in"} ELSE {})
<1>2. own \cap {"in", "err"} = own
    BY DEF OwnEvents
<1>3. Reply(s, all, other, CountOf(s, real, other, inject))
    BY <1>1
<1>4. call.pending => VFdHasPendingRead(s)
    BY DEF ReportInv, AnswerPoll
<1>5. CountOf(s, real, other, inject) = One(own) + One(other) + (IF inject THEN 1 ELSE 0)
    BY DEF CountOf
<1> HIDE DEF own, s
<1>6. call.pending => all # {}
    BY <1>2, <1>4
<1>7. One(own) + (IF inject THEN 1 ELSE 0) = One(all)
    BY <1>2 DEF One
<1>8. CountOf(s, real, other, inject) = One(all) + One(other)
    BY <1>5, <1>7 DEF One
<1> HIDE DEF all, inject
<1> QED
    BY <1>3, <1>6, <1>8, ReplyReports

LEMMA AnswerSelectReports ==
    ASSUME AppInv, ReportInv, AnswerSelect
    PROVE  ReportInv'
<1> DEFINE s == call.session
<1>1. PICK real \in SUBSET (RealEvents \cap {"in"}), other \in SUBSET {"in"} :
          LET inject == VFdHasPendingRead(s) /\ real = {}
          IN  Reply(s, real \cup (IF inject THEN {"in"} ELSE {}), other,
                    One(real) + One(other) + (IF inject THEN 1 ELSE 0))
    BY DEF AnswerSelect
<1> DEFINE inject == VFdHasPendingRead(s) /\ real = {}
           all == real \cup (IF inject THEN {"in"} ELSE {})
           count == One(real) + One(other) + (IF inject THEN 1 ELSE 0)
<1>2. Reply(s, all, other, count)
    BY <1>1
<1>3. call.pending => VFdHasPendingRead(s)
    BY DEF ReportInv, AnswerSelect
<1> HIDE DEF s
<1>4. call.pending => all # {}
    BY <1>3
<1>5. count = One(all) + One(other)
    BY DEF One
<1> HIDE DEF all, inject, count
<1> QED
    BY <1>2, <1>4, <1>5, ReplyReports

\* A step that is no answer, and takes no packet and no socket away from the
\* command that waits.
LEMMA ReportKept ==
    ASSUME AppInv, ReportInv,
           \/ UNCHANGED call
           \/ call'.at \notin {"wait", "answer"},
           call.at = "wait" => bound' = bound,
           \A i \in 1..Len(queue) : i \in 1..Len(queue') /\ queue'[i] = queue[i]
    PROVE  ReportInv'
<1>1. CASE UNCHANGED call
    <2>1. DataIsReported'
        BY <1>1 DEF ReportInv, DataIsReported
    <2>2. ASSUME call.at = "wait", call.pending
          PROVE  VFdHasPendingRead(call.session)'
        BY <1>1, <2>2 DEF ReportInv, VFdHasPendingRead, Matching
    <2> QED
        BY <1>1, <2>1, <2>2 DEF ReportInv
<1>2. CASE call'.at \notin {"wait", "answer"}
    BY <1>2 DEF ReportInv, DataIsReported
<1> QED
    BY <1>1, <1>2

LEMMA NextReport ==
    ASSUME RealEvents \subseteq {"in", "err"}
    PROVE  AppInv /\ ReportInv /\ [Next]_vars => ReportInv'
<1> SUFFICES ASSUME AppInv, ReportInv, [Next]_vars PROVE ReportInv'
    OBVIOUS
<1> USE QueueAssumption
<1>1. CASE UNCHANGED <<bound, queue>>
           /\ (UNCHANGED call \/ call'.at \notin {"wait", "answer"})
    BY <1>1, ReportKept
<1>2. ASSUME NEW t \in Thread, FilePacket(t) PROVE ReportInv'
    BY <1>2, FileFacts, ReportKept DEF FilePacket, ports
<1>3. ASSUME NEW s \in Session,
             End(s) \/ CloseSocket(s) \/ \E port \in Port : Bind(s, port)
      PROVE  ReportInv'
    <2>1. call.at # "wait" /\ UNCHANGED <<call, queue>>
        BY <1>3 DEF End, CloseSocket, Bind, Serves, stream
    <2> QED
        BY <2>1, ReportKept
<1>4. CASE RecvFrom
    <2>1. call'.at = Idle
        BY <1>4 DEF RecvFrom
    <2> QED
        BY <2>1 DEF ReportInv, DataIsReported
<1>5. CASE LookForData
    <2>1. call' \in WaitCall /\ call'.pending = VFdHasPendingRead(call'.session)
          /\ UNCHANGED <<bound, queue>>
        BY <1>5, LookTyped DEF LookForData, ports, stream
    <2> QED
        BY <2>1 DEF WaitCall, ReportInv, DataIsReported, VFdHasPendingRead, Matching
<1>6. CASE \/ Arrive \/ Return \/ \E t \in Thread : PopIpv4(t)
           \/ \E s \in Session :
                 \/ Open(s) \/ Leave(s) \/ Accept(s) \/ Forward(s)
                 \/ \E command \in {"poll", "select", "recv"} : Begin(s, command)
           \/ \E p \in Exits : Exit(p)
           \/ UNCHANGED vars
    BY <1>1, <1>6 DEF Arrive, Return, PopIpv4, Open, Leave, Accept, Forward, Begin,
                      Exit, vars, ports, stream
<1> QED
    BY <1>2, <1>3, <1>4, <1>5, <1>6, AnswerPollReports, AnswerSelectReports DEF Next

\* Data that waited when Poll or Select looked is reported by that call, and the
\* count is right, for sockets on which the real service reports at most input and
\* errors (bsd_bridge_service.cpp:1447-1450, 1480-1520).
THEOREM PollReportsData ==
    ASSUME RealEvents \subseteq {"in", "err"}
    PROVE  Spec => []DataIsReported
<1>1. Init => ReportInv
    BY QueueAssumption DEF Init, ReportInv, DataIsReported
<1>2. ReportInv => DataIsReported
    BY DEF ReportInv
<1> QED
    BY <1>1, <1>2, NextReport, AppAlways, PTL DEF Spec
-----------------------------------------------------------------------------
(* What a caller that was told of data finds.                              *)

\* Each session binds ports of its own, and the real service reports no input of
\* its own on a bridged socket: the peers' packets come through the relay.
OwnPorts ==
    /\ \A s \in Session, t \in Session : s # t => Ports[s] \cap Ports[t] = {}
    /\ "in" \notin RealEvents

\* A session that was told of data has a socket, on a port of its own.
HonestInv ==
    /\ \A s \in Session : bound[s] = NoPort \/ bound[s] \in Ports[s]
    /\ \A s \in told : bound[s] # NoPort
    /\ PollInIsHonest

\* A step that tells nobody and keeps the packets and the sockets.
LEMMA HonestKept ==
    ASSUME HonestInv, told' \subseteq told, UNCHANGED bound,
           \A i \in 1..Len(queue) : i \in 1..Len(queue') /\ queue'[i] = queue[i]
    PROVE  HonestInv'
BY DEF HonestInv, PollInIsHonest

\* Bind, Close and the end of a session: a socket that changes is one that
\* nobody was told about, or is not any more.
LEMMA HonestSockets ==
    ASSUME AppInv, HonestInv, NEW s \in Session,
           End(s) \/ CloseSocket(s) \/ \E port \in Port : Bind(s, port)
    PROVE  HonestInv'
<1>1. UNCHANGED queue /\ told' \subseteq told
    BY DEF End, CloseSocket, Bind, stream
<1>2. \A t \in Session : t # s => bound'[t] = bound[t]
    BY DEF End, CloseSocket, Bind, AppInv
<1>3. bound'[s] \in {NoPort, bound[s]} \cup Ports[s]
    BY DEF End, CloseSocket, Bind, AppInv
<1>4. s \notin told'
    BY DEF End, CloseSocket, Bind, HonestInv
<1>5. told' \subseteq Session
    BY <1>1 DEF AppInv
<1> QED
    BY <1>1, <1>2, <1>3, <1>4, <1>5 DEF HonestInv, PollInIsHonest

\* Nothing is reported of a bridged socket but what is injected for it.
LEMMA HonestAnswers ==
    ASSUME OwnPorts, AppInv, HonestInv, AnswerPoll \/ AnswerSelect
    PROVE  HonestInv'
<1>1. PICK own, other, count :
          /\ Reply(call.session, own, other, count)
          /\ "in" \in own => VFdHasPendingRead(call.session)
    <2>1. CASE AnswerPoll
        <3>1. PICK real \in SUBSET RealEvents, other \in SUBSET {"in"} :
                  LET own == OwnEvents(call.session, real)
                      inject == VFdHasPendingRead(call.session)
                                /\ own \cap {"in", "err"} = {}
                  IN  Reply(call.session, own \cup (IF inject THEN {"in"} ELSE {}),
                            other, CountOf(call.session, real, other, inject))
            BY <2>1 DEF AnswerPoll
        <3>2. "in" \notin OwnEvents(call.session, real)
            BY DEF OwnEvents, OwnPorts
        <3> QED
            BY <3>1, <3>2
    <2>2. CASE AnswerSelect
        <3>1. PICK real \in SUBSET (RealEvents \cap {"in"}), other \in SUBSET {"in"} :
                  LET inject == VFdHasPendingRead(call.session) /\ real = {}
                  IN  Reply(call.session, real \cup (IF inject THEN {"in"} ELSE {}),
                            other,
                            One(real) + One(other) + (IF inject THEN 1 ELSE 0))
            BY <2>2 DEF AnswerSelect
        <3>2. "in" \notin real
            BY DEF OwnPorts
        <3> QED
            BY <3>1, <3>2
    <2> QED
        BY <2>1, <2>2
<1>2. /\ UNCHANGED <<bound, queue>>
      /\ \A s \in told' : s \in told \/ VFdHasPendingRead(s)
    BY <1>1 DEF Reply, stream
<1>3. \A s \in told' : bound[s] # NoPort
    BY <1>2 DEF HonestInv, VFdHasPendingRead
<1>4. \A s \in told' : \E i \in 1..Len(queue) : queue[i].port = bound[s]
    BY <1>2 DEF HonestInv, PollInIsHonest, VFdHasPendingRead, Matching
<1> QED
    BY <1>2, <1>3, <1>4 DEF HonestInv, PollInIsHonest

\* A session that reads takes a packet for its own port only.
LEMMA HonestRecv ==
    ASSUME OwnPorts, AppInv, HonestInv, RecvFrom
    PROVE  HonestInv'
<1> DEFINE r == call.session
<1>1. r \in Session
    BY CallFacts DEF RecvFrom, EndDrain, DrainCall
<1>2. told' = told \ {r} /\ UNCHANGED bound
    BY DEF RecvFrom
<1>3. CASE queue' = queue
    BY <1>2, <1>3, HonestKept
<1>4. CASE bound[r] # NoPort /\ PopControlPacketForPort(bound[r])
    <2>1. ASSUME NEW s \in told' PROVE \E i \in 1..Len(queue') : queue'[i].port = bound[s]
        <3>1. s \in told /\ s # r /\ s \in Session
            BY <1>2 DEF AppInv
        <3>2. bound[s] \in Ports[s] /\ bound[r] \in Ports[r]
            BY <1>1, <1>4, <3>1 DEF HonestInv
        <3>3. bound[s] # bound[r]
            BY <1>1, <3>1, <3>2 DEF OwnPorts
        <3>4. \E i \in 1..Len(queue) : queue[i].port = bound[s]
            BY <3>1 DEF HonestInv, PollInIsHonest
        <3> QED
            BY <1>4, <3>3, <3>4, PopFacts
    <2> QED
        BY <1>2, <2>1 DEF HonestInv, PollInIsHonest
<1> QED
    BY <1>3, <1>4 DEF RecvFrom

LEMMA NextHonest ==
    ASSUME OwnPorts
    PROVE  AppInv /\ HonestInv /\ [Next]_vars => HonestInv'
<1> SUFFICES ASSUME AppInv, HonestInv, [Next]_vars PROVE HonestInv'
    OBVIOUS
<1>1. CASE UNCHANGED <<bound, told, queue>>
    BY <1>1, HonestKept
<1>2. ASSUME NEW t \in Thread, FilePacket(t) PROVE HonestInv'
    BY <1>2, FileFacts, HonestKept DEF FilePacket, ports
<1>3. CASE \/ Arrive \/ Return \/ LookForData \/ \E t \in Thread : PopIpv4(t)
           \/ \E s \in Session :
                 \/ Open(s) \/ Leave(s) \/ Accept(s) \/ Forward(s)
                 \/ \E command \in {"poll", "select", "recv"} : Begin(s, command)
           \/ \E p \in Exits : Exit(p)
           \/ UNCHANGED vars
    BY <1>1, <1>3 DEF Arrive, Return, LookForData, PopIpv4, Open, Leave, Accept,
                      Forward, Begin, Exit, vars, ports, stream
<1> QED
    BY <1>2, <1>3, HonestSockets, HonestAnswers, HonestRecv DEF Next

\* A caller that was told of data finds it, whatever the other sessions read in
\* the meantime, if no two sessions bind the same port and the real service
\* reports no input on a bridged socket
\* (bsd_bridge_service.cpp:1242-1248, 1503-1520).
THEOREM PollKeepsItsWord ==
    ASSUME OwnPorts
    PROVE  Spec => []PollInIsHonest
<1>1. Init => HonestInv
    BY DEF Init, HonestInv, PollInIsHonest
<1>2. HonestInv => PollInIsHonest
    BY DEF HonestInv
<1> QED
    BY <1>1, <1>2, NextHonest, AppAlways, PTL DEF Spec
=============================================================================
