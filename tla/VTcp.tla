-------------------------------- MODULE VTcp --------------------------------
(***************************************************************************)
(* The virtual TCP tunnel of src/source/bsd/bsd_bridge_service.cpp: the    *)
(* LDN station channel of ldn_mitm, carried as real TCP segments over an   *)
(* unreliable UDP relay.  Every console runs the same code: one dispatch   *)
(* thread that executes ldn_mitm's bsd:u commands one at a time, and a     *)
(* drain thread that hands incoming segments to HandleTcpSegment and runs  *)
(* CheckDataRetransmits.  Both hold g_vtcp_mutex for the whole of a step,  *)
(* so a step of either is one action here.                                 *)
(*                                                                         *)
(* net is the set of segments in flight.  Delivering one leaves it in net  *)
(* (UDP may duplicate), any one may be delivered next (UDP may reorder),   *)
(* and Lose removes one.                                                   *)
(***************************************************************************)
EXTENDS Integers, Sequences, FiniteSets

CONSTANTS
    Console,             \* consoles, named by their IP address
    Host,                \* the consoles whose ldn_mitm may open a network
    Joiner,              \* the consoles whose ldn_mitm may join one
    NoPeer,              \* peer_ip = 0
    MaxVTcpConns,        \* slots of g_vtcp_conns
    MaxPendingAccepts,   \* slots of g_pending_accepts
    VTcpInboxCap,        \* bytes an inbox holds
    MaxAttempts,         \* SYNs one Connect sends
    MaxDataRetransmits,  \* times one data segment is sent again
    RealFd,              \* descriptors the real bsd:u service hands out
    SynthBase,           \* first value of g_next_synthetic_fd
    SeqMod,              \* sequence numbers are 0 .. SeqMod-1 (2^32 in the code)
    ISN,                 \* the random initial sequence numbers drawn in a behaviour
    MaxStream,           \* bound: bytes ldn_mitm writes to one connection
    Writer,              \* bound: the consoles whose ldn_mitm writes data
    SendSizes,           \* bound: payload sizes ldn_mitm sends
    ReadSizes,           \* bound: buffer sizes ldn_mitm reads with
    Lossy,               \* whether net may lose a segment
    Aborter,             \* peers whose own stack may send an RST
    ControlLast,         \* ldn_mitm closes its UDP control socket after its TCP sockets
    Exits                \* consoles whose ldn_mitm may exit without closing anything

ASSUME SizesAssumption ==
    /\ MaxVTcpConns \in Nat \ {0} /\ MaxPendingAccepts \in Nat \ {0}
    /\ VTcpInboxCap \in Nat \ {0} /\ MaxAttempts \in Nat \ {0}
    /\ MaxDataRetransmits \in Nat /\ MaxStream \in Nat
    /\ SendSizes \subseteq Nat \ {0} /\ ReadSizes \subseteq Nat \ {0}
    /\ Lossy \in BOOLEAN /\ ControlLast \in BOOLEAN

ASSUME ConsoleAssumption ==
    /\ Host \subseteq Console /\ Joiner \subseteq Console
    /\ Writer \subseteq Console /\ Aborter \subseteq Console /\ Exits \subseteq Console
    /\ NoPeer \notin Console

\* Real descriptors never reach the synthetic range (comment on g_next_synthetic_fd).
ASSUME FdAssumption ==
    /\ SynthBase \in Nat
    /\ RealFd \subseteq 0 .. SynthBase - 1

\* Mutant: 64-bit sequence numbers.
PlusWide(a, k) == a + k

\* u32 addition.
Plus(a, k) == (a + k) % SeqMod

\* GenerateRandomBytes draws 32-bit numbers: the windows two streams use do not
\* overlap.  Sequence numbers are only ever added to and compared for equality,
\* so where a window lies, also across the wrap to 0, makes no difference.
ASSUME WindowAssumption ==
    /\ SeqMod \in Nat \ {0}
    /\ ISN \subseteq 0 .. SeqMod - 1
    /\ \A i, j \in ISN : \A a, b \in 0 .. MaxStream + 2 :
          Plus(i, a) = Plus(j, b) => i = j /\ a = b

NoFd == -1
Slot == 1 .. MaxVTcpConns
PSlot == 1 .. MaxPendingAccepts
SeqNo == 0 .. SeqMod - 1

\* A byte ldn_mitm writes is named by its stream (the sender's initial sequence
\* number) and its position in that stream.
Byte == ISN \X (1 .. MaxStream)

\* struct VTcpConn.  has_unacked_data is unacked # << >>.  The fields sid, rid,
\* read and eof are history: the two streams' initial sequence numbers, the bytes
\* RecvFrom has handed out, and whether it has answered end-of-file.
VTcpConn ==
    [used : BOOLEAN, fd : Int, established : BOOLEAN, syn_sent : BOOLEAN,
     peer : Console \cup {NoPeer}, our_isn : SeqNo, our_seq : SeqNo,
     their_seq : SeqNo, inbox : Seq(Byte), peer_closed : BOOLEAN,
     unacked : Seq(Byte), unacked_seq : SeqNo, retransmits : Nat,
     sid : SeqNo, rid : SeqNo, read : Seq(Byte), eof : BOOLEAN]

FreeConn ==
    [used |-> FALSE, fd |-> NoFd, established |-> FALSE, syn_sent |-> FALSE,
     peer |-> NoPeer, our_isn |-> 0, our_seq |-> 0, their_seq |-> 0,
     inbox |-> << >>, peer_closed |-> FALSE, unacked |-> << >>,
     unacked_seq |-> 0, retransmits |-> 0,
     sid |-> 0, rid |-> 0, read |-> << >>, eof |-> FALSE]

PendingAccept ==
    [used : BOOLEAN, peer : Console \cup {NoPeer}, our_isn : SeqNo,
     their_isn : SeqNo, got_final_ack : BOOLEAN]

FreePending ==
    [used |-> FALSE, peer |-> NoPeer, our_isn |-> 0, their_isn |-> 0,
     got_final_ack |-> FALSE]

\* The flags a segment carries; "ACK" stands for ACK and for PSH|ACK, "FIN" for FIN|ACK.
Kind == {"SYN", "SYNACK", "ACK", "FIN", "RST"}

Segment == [kind : Kind, src : Console, dst : Console,
            seq : SeqNo, ack : SeqNo, data : Seq(Byte)]

\* The locals of a Connect command that blocks the dispatch thread: it polls
\* ("wait"), and after a poll that failed ("late") sends the SYN again or gives up.
Call == [phase : {"idle", "wait", "late"}, fd : Int, dst : Console \cup {NoPeer},
         isn : SeqNo, attempt : Nat]

NoCall == [phase |-> "idle", fd |-> NoFd, dst |-> NoPeer, isn |-> 0, attempt |-> 0]

VARIABLES
    owner,      \* owner[n]: g_active_ldn_instance is ldn_mitm's instance
    listenFd,   \* listenFd[n]: g_tcp_listen_fd
    nextFd,     \* nextFd[n]: g_next_synthetic_fd
    conns,      \* conns[n]: g_vtcp_conns
    pending,    \* pending[n]: g_pending_accepts
    call,       \* call[n]: the Connect command in progress
    openFd,     \* openFd[n]: the TCP descriptors ldn_mitm holds
    net,        \* the segments in flight
    isns,       \* history: the initial sequence numbers drawn so far
    wrote,      \* history: wrote[i], bytes ldn_mitm wrote to stream i
    delivered,  \* history: delivered[i], bytes of stream i appended to an inbox
    acked,      \* history: acked[i], bytes of stream i whose sender saw the ack
    offered,    \* history: <<i, j>>, SYN i was answered by a SYN-ACK of stream j
    paired,     \* history: <<i, j>>, the sender of SYN i accepted that SYN-ACK
    finned,     \* history: streams whose Close sent a FIN
    forwarded   \* history: synthetic descriptors whose Close reached the real bsd:u

code == <<owner, listenFd, nextFd, conns, pending, call, openFd, net>>
history == <<isns, wrote, delivered, acked, offered, paired, finned, forwarded>>
vars == <<owner, listenFd, nextFd, conns, pending, call, openFd, net,
          isns, wrote, delivered, acked, offered, paired, finned, forwarded>>
-----------------------------------------------------------------------------
\* The loops over the two tables take the first match.
First(S) == CHOOSE s \in S : \A t \in S : s <= t

ByFd(n, fd) == {s \in Slot : owner[n] /\ conns[n][s].used /\ conns[n][s].fd = fd}

ByPeer(n, p) == {s \in Slot : owner[n] /\ conns[n][s].used /\ conns[n][s].peer = p}

FreeSlots(n) == {s \in Slot : owner[n] /\ ~conns[n][s].used}

PendingOf(n, p) == {k \in PSlot : pending[n][k].used /\ pending[n][k].peer = p}

FreePendings(n) == {k \in PSlot : ~pending[n][k].used}

\* Mutant: any ACK of the peer completes its pending accept.
CompletedByAny(n, p, a) == {k \in PendingOf(n, p) : ~pending[n][k].got_final_ack}

\* Pending accepts of p that the acknowledgement number a completes.
Completed(n, p, a) ==
    {k \in PendingOf(n, p) : /\ ~pending[n][k].got_final_ack
                             /\ a = Plus(pending[n][k].our_isn, 1)}

Seg(kind, n, p, seq, ack, data) ==
    [kind |-> kind, src |-> n, dst |-> p, seq |-> seq, ack |-> ack, data |-> data]

\* The ACK that connection record c of console n sends its peer.
AckOf(n, c) == Seg("ACK", n, c.peer, c.our_seq, c.their_seq, << >>)

\* GenerateRandomBytes.  Which unused number it returns makes no difference to the
\* code, so the model draws them from the largest down.
RandomIsn == {i \in ISN \ isns : \A j \in ISN \ isns : j <= i}

Init ==
    /\ owner = [n \in Console |-> FALSE]
    /\ listenFd = [n \in Console |-> NoFd]
    /\ nextFd = [n \in Console |-> SynthBase]
    /\ conns = [n \in Console |-> [s \in Slot |-> FreeConn]]
    /\ pending = [n \in Console |-> [k \in PSlot |-> FreePending]]
    /\ call = [n \in Console |-> NoCall]
    /\ openFd = [n \in Console |-> {}]
    /\ net = {}
    /\ isns = {}
    /\ wrote = [i \in ISN |-> 0]
    /\ delivered = [i \in ISN |-> 0]
    /\ acked = [i \in ISN |-> 0]
    /\ offered = {}
    /\ paired = {}
    /\ finned = {}
    /\ forwarded = {}
-----------------------------------------------------------------------------
(* Commands of ldn_mitm, on the dispatch thread.                           *)

Idle(n) == call[n].phase = "idle"

\* Bind of the UDP control socket: this instance becomes the owner of the
\* virtual TCP state.
BindControl(n) ==
    /\ Idle(n)
    /\ ~owner[n]
    /\ owner' = [owner EXCEPT ![n] = TRUE]
    /\ UNCHANGED <<listenFd, nextFd, conns, pending, call, openFd, net, history>>

\* Close of the UDP control socket: g_active_ldn_instance = nullptr.
CloseControl(n) ==
    /\ Idle(n)
    /\ owner[n]
    /\ ControlLast => openFd[n] = {}
    /\ owner' = [owner EXCEPT ![n] = FALSE]
    /\ UNCHANGED <<listenFd, nextFd, conns, pending, call, openFd, net, history>>

\* ldn_mitm's session ends without a Close: the destructor drops ownership and
\* leaves the virtual TCP state as it is.
ProcessExit(n) ==
    /\ n \in Exits
    /\ Idle(n)
    /\ owner' = [owner EXCEPT ![n] = FALSE]
    /\ openFd' = [openFd EXCEPT ![n] = {}]
    /\ UNCHANGED <<listenFd, nextFd, conns, pending, call, net, history>>

\* Listen on a stream socket bound to LdnControlPort.
Listen(n, fd) ==
    /\ n \in Host
    /\ Idle(n)
    /\ openFd[n] = {}
    /\ openFd' = [openFd EXCEPT ![n] = @ \cup {fd}]
    /\ listenFd' = [listenFd EXCEPT ![n] = fd]
    /\ UNCHANGED <<owner, nextFd, conns, pending, call, net, history>>

\* Accept dequeues the first completed handshake.
Accept(n) ==
    /\ Idle(n)
    /\ owner[n]
    /\ listenFd[n] \in openFd[n]
    /\ LET ready == {k \in PSlot : pending[n][k].used /\ pending[n][k].got_final_ack}
       IN  /\ ready # {}
           /\ FreeSlots(n) # {}
           /\ LET k == First(ready)
                  p == pending[n][k]
              IN  /\ pending' = [pending EXCEPT ![n][k].used = FALSE]
                  /\ conns' = [conns EXCEPT ![n][First(FreeSlots(n))] =
                        [FreeConn EXCEPT !.used = TRUE, !.fd = nextFd[n],
                                         !.established = TRUE, !.peer = p.peer,
                                         !.our_seq = Plus(p.our_isn, 1),
                                         !.their_seq = Plus(p.their_isn, 1),
                                         !.sid = p.our_isn, !.rid = p.their_isn]]
    /\ nextFd' = [nextFd EXCEPT ![n] = @ + 1]
    /\ openFd' = [openFd EXCEPT ![n] = @ \cup {nextFd[n]}]
    /\ UNCHANGED <<owner, listenFd, call, net, history>>

\* Connect claims a slot, sends the first SYN and waits.
Connect(n, fd, p) ==
    /\ n \in Joiner
    /\ p # n
    /\ Idle(n)
    /\ openFd[n] = {}
    /\ FreeSlots(n) # {}
    /\ \E i \in RandomIsn :
        /\ isns' = isns \cup {i}
        /\ conns' = [conns EXCEPT ![n][First(FreeSlots(n))] =
              [FreeConn EXCEPT !.used = TRUE, !.fd = fd, !.peer = p,
                               !.our_isn = i, !.syn_sent = TRUE, !.sid = i]]
        /\ call' = [call EXCEPT ![n] = [phase |-> "wait", fd |-> fd, dst |-> p,
                                        isn |-> i, attempt |-> 1]]
        /\ net' = net \cup {Seg("SYN", n, p, i, 0, << >>)}
    /\ openFd' = [openFd EXCEPT ![n] = @ \cup {fd}]
    /\ UNCHANGED <<owner, listenFd, nextFd, pending,
                   wrote, delivered, acked, offered, paired, finned, forwarded>>

\* Whether the connection Connect waits for is established.
CallEstablished(n) ==
    /\ ByFd(n, call[n].fd) # {}
    /\ conns[n][First(ByFd(n, call[n].fd))].established

\* A poll finds the connection established: Connect returns 0.
ConnectReturns(n) ==
    /\ call[n].phase = "wait"
    /\ CallEstablished(n)
    /\ call' = [call EXCEPT ![n] = NoCall]
    /\ UNCHANGED <<owner, listenFd, nextFd, conns, pending, openFd, net, history>>

\* The last poll of an attempt does not, and g_vtcp_mutex is released.
ConnectPollFails(n) ==
    /\ call[n].phase = "wait"
    /\ ~CallEstablished(n)
    /\ call' = [call EXCEPT ![n].phase = "late"]
    /\ UNCHANGED <<owner, listenFd, nextFd, conns, pending, openFd, net, history>>

\* Mutant: the attempts are not counted.
SameAttempt(k) == [k EXCEPT !.phase = "wait"]

NextAttempt(k) == [k EXCEPT !.phase = "wait", !.attempt = @ + 1]

ConnectRetries(n) ==
    /\ call[n].phase = "late"
    /\ call[n].attempt < MaxAttempts
    /\ call' = [call EXCEPT ![n] = NextAttempt(@)]
    /\ net' = net \cup {Seg("SYN", n, call[n].dst, call[n].isn, 0, << >>)}
    /\ UNCHANGED <<owner, listenFd, nextFd, conns, pending, openFd, history>>

\* ETIMEDOUT: the slot is reset even if the SYN-ACK came after the last poll.
ConnectTimesOut(n) ==
    /\ call[n].phase = "late"
    /\ call[n].attempt >= MaxAttempts
    /\ conns' = IF ByFd(n, call[n].fd) = {} THEN conns
                ELSE [conns EXCEPT ![n][First(ByFd(n, call[n].fd))] = FreeConn]
    /\ call' = [call EXCEPT ![n] = NoCall]
    /\ UNCHANGED <<owner, listenFd, nextFd, pending, openFd, net, history>>

\* Mutant: our_seq is not advanced.
KeepsSeq(c, payload) ==
    [c EXCEPT !.unacked = payload, !.unacked_seq = c.our_seq, !.retransmits = 0]

\* Record c after payload was sent on it.
Sent(c, payload) ==
    [c EXCEPT !.unacked = payload, !.unacked_seq = c.our_seq, !.retransmits = 0,
              !.our_seq = Plus(c.our_seq, Len(payload))]

\* SendTo on a virtual TCP descriptor: one segment, kept for retransmission.
SendTo(n, fd, len) ==
    /\ n \in Writer
    /\ Idle(n)
    /\ fd \in openFd[n]
    /\ ByFd(n, fd) # {}
    /\ len <= VTcpInboxCap
    /\ LET s == First(ByFd(n, fd))
           c == conns[n][s]
           payload == [j \in 1 .. len |-> <<c.sid, wrote[c.sid] + j>>]
       IN  /\ c.established
           /\ wrote[c.sid] + len <= MaxStream
           /\ net' = net \cup {Seg("ACK", n, c.peer, c.our_seq, c.their_seq, payload)}
           /\ conns' = [conns EXCEPT ![n][s] = Sent(c, payload)]
           /\ wrote' = [wrote EXCEPT ![c.sid] = @ + len]
    /\ UNCHANGED <<owner, listenFd, nextFd, pending, call, openFd,
                   isns, delivered, acked, offered, paired, finned, forwarded>>

\* RecvFrom hands out what fits the buffer and keeps the rest.
RecvFrom(n, fd, size) ==
    /\ Idle(n)
    /\ fd \in openFd[n]
    /\ ByFd(n, fd) # {}
    /\ LET s == First(ByFd(n, fd))
           c == conns[n][s]
           deliver == IF Len(c.inbox) > size THEN size ELSE Len(c.inbox)
       IN  /\ c.inbox # << >>
           /\ conns' = [conns EXCEPT ![n][s] =
                 [c EXCEPT !.read = @ \o SubSeq(c.inbox, 1, deliver),
                           !.inbox = SubSeq(c.inbox, deliver + 1, Len(c.inbox))]]
    /\ UNCHANGED <<owner, listenFd, nextFd, pending, call, openFd, net, history>>

\* RecvFrom answers 0: nothing is left and the peer has closed.
RecvEof(n, fd) ==
    /\ Idle(n)
    /\ fd \in openFd[n]
    /\ ByFd(n, fd) # {}
    /\ LET s == First(ByFd(n, fd))
       IN  /\ conns[n][s].inbox = << >>
           /\ conns[n][s].peer_closed
           /\ conns' = [conns EXCEPT ![n][s].eof = TRUE]
    /\ UNCHANGED <<owner, listenFd, nextFd, pending, call, openFd, net, history>>

\* Mutant: the first descriptor Accept hands out counts as a real one.
IsSyntheticStrict(fd) == fd > SynthBase

\* The test Close makes before it forwards.
IsSynthetic(fd) == fd >= SynthBase

\* Close of descriptor fd reaches the real service; only those that Accept has
\* handed out are remembered.
Forward(n, fd) ==
    IF fd \in RealFd THEN forwarded ELSE forwarded \cup {<<n, fd>>}

\* Close of a connection this instance owns: a FIN if established, the slot is
\* reset, and only a real descriptor goes on to the real service.
CloseConn(n, fd) ==
    /\ Idle(n)
    /\ fd \in openFd[n]
    /\ ByFd(n, fd) # {}
    /\ LET s == First(ByFd(n, fd))
           c == conns[n][s]
       IN  /\ net' = IF ~c.established THEN net
                     ELSE net \cup {Seg("FIN", n, c.peer, c.our_seq, c.their_seq, << >>)}
           /\ finned' = IF c.established THEN finned \cup {c.sid} ELSE finned
           /\ conns' = [conns EXCEPT ![n][s] = FreeConn]
    /\ listenFd' = IF listenFd[n] = fd THEN [listenFd EXCEPT ![n] = NoFd] ELSE listenFd
    /\ openFd' = [openFd EXCEPT ![n] = @ \ {fd}]
    /\ forwarded' = IF IsSynthetic(fd) THEN forwarded ELSE Forward(n, fd)
    /\ UNCHANGED <<owner, nextFd, pending, call,
                   isns, wrote, delivered, acked, offered, paired>>

\* Close of any other descriptor goes to the real service; the listener's clears
\* g_tcp_listen_fd if this instance is still the owner.
CloseOther(n, fd) ==
    /\ Idle(n)
    /\ fd \in openFd[n]
    /\ ByFd(n, fd) = {}
    /\ listenFd' = IF owner[n] /\ listenFd[n] = fd
                   THEN [listenFd EXCEPT ![n] = NoFd] ELSE listenFd
    /\ openFd' = [openFd EXCEPT ![n] = @ \ {fd}]
    /\ forwarded' = Forward(n, fd)
    /\ UNCHANGED <<owner, nextFd, conns, pending, call, net,
                   isns, wrote, delivered, acked, offered, paired, finned>>
-----------------------------------------------------------------------------
(* The drain thread: HandleTcpSegment, one action per return path that     *)
(* changes state, and CheckDataRetransmits.  Without an owner a segment is *)
(* dropped unseen.                                                         *)

HandleRst(n, m) ==
    /\ m.kind = "RST"
    /\ ByPeer(n, m.src) # {}
    /\ conns' = [conns EXCEPT ![n][First(ByPeer(n, m.src))].peer_closed = TRUE]
    /\ UNCHANGED <<owner, listenFd, nextFd, pending, call, openFd, net, history>>

\* Mutant: a SYN of a connected peer is answered too.
AnswersAnySyn(n, p) == PendingOf(n, p) = {} /\ FreePendings(n) # {}

\* A SYN of peer p is answered if p is neither connected nor pending.
AnswersSyn(n, p) == ByPeer(n, p) = {} /\ PendingOf(n, p) = {} /\ FreePendings(n) # {}

HandleSyn(n, m) ==
    /\ m.kind = "SYN"
    /\ AnswersSyn(n, m.src)
    /\ \E i \in RandomIsn :
        /\ isns' = isns \cup {i}
        /\ pending' = [pending EXCEPT ![n][First(FreePendings(n))] =
              [used |-> TRUE, peer |-> m.src, our_isn |-> i, their_isn |-> m.seq,
               got_final_ack |-> FALSE]]
        /\ net' = net \cup {Seg("SYNACK", n, m.src, i, Plus(m.seq, 1), << >>)}
        /\ offered' = offered \cup {<<m.seq, i>>}
    /\ UNCHANGED <<owner, listenFd, nextFd, conns, call, openFd,
                   wrote, delivered, acked, paired, finned, forwarded>>

\* m answers the SYN that record c has sent.
IsOurSynAck(m, c) == c.syn_sent /\ m.ack = Plus(c.our_isn, 1)

\* The SYN-ACK of the SYN we sent establishes the connection.
HandleSynAck(n, m) ==
    /\ m.kind = "SYNACK"
    /\ ByPeer(n, m.src) # {}
    /\ LET s == First(ByPeer(n, m.src))
           c == conns[n][s]
           d == [c EXCEPT !.their_seq = Plus(m.seq, 1), !.our_seq = Plus(c.our_isn, 1),
                          !.syn_sent = FALSE, !.established = TRUE, !.rid = m.seq]
       IN  /\ IsOurSynAck(m, c)
           /\ conns' = [conns EXCEPT ![n][s] = d]
           /\ net' = net \cup {AckOf(n, d)}
           /\ paired' = paired \cup {<<c.our_isn, m.seq>>}
    /\ UNCHANGED <<owner, listenFd, nextFd, pending, call, openFd,
                   isns, wrote, delivered, acked, offered, finned, forwarded>>

\* A FIN is applied whatever its sequence number.
HandleFin(n, m) ==
    /\ m.kind = "FIN"
    /\ ByPeer(n, m.src) # {}
    /\ LET s == First(ByPeer(n, m.src))
           d == [conns[n][s] EXCEPT !.peer_closed = TRUE, !.their_seq = Plus(m.seq, 1)]
       IN  /\ conns' = [conns EXCEPT ![n][s] = d]
           /\ net' = net \cup {AckOf(n, d)}
    /\ UNCHANGED <<owner, listenFd, nextFd, pending, call, openFd, history>>

\* The ACK of our SYN-ACK; a payload it carries is not looked at.
HandleFinalAck(n, m) ==
    /\ m.kind = "ACK"
    /\ Completed(n, m.src, m.ack) # {}
    /\ pending' = [pending EXCEPT ![n][First(Completed(n, m.src, m.ack))].got_final_ack = TRUE]
    /\ UNCHANGED <<owner, listenFd, nextFd, conns, call, openFd, net, history>>

\* Mutant: every ACK stops the retransmission.
AcknowledgesAny(m, c) == c.unacked # << >>

\* Whether segment m acknowledges the segment record c keeps for retransmission.
Acknowledges(m, c) ==
    /\ c.unacked # << >>
    /\ m.ack = Plus(c.unacked_seq, Len(c.unacked))

\* Mutant: the sequence number is not compared.
AppendsAny(m, c) ==
    /\ c.established
    /\ m.data # << >>
    /\ Len(c.inbox) + Len(m.data) <= VTcpInboxCap

\* Mutant: the payload alone is compared with the capacity of the inbox.
AppendsIfShort(m, c) ==
    /\ c.established
    /\ m.data # << >>
    /\ m.seq = c.their_seq
    /\ Len(m.data) <= VTcpInboxCap

\* Whether the payload of segment m is appended to the inbox of record c.
Appends(m, c) ==
    /\ c.established
    /\ m.data # << >>
    /\ m.seq = c.their_seq
    /\ Len(c.inbox) + Len(m.data) <= VTcpInboxCap

\* Any other ACK: it may acknowledge our data, and its payload may be appended
\* and acknowledged.
HandleData(n, m) ==
    /\ m.kind = "ACK"
    /\ Completed(n, m.src, m.ack) = {}
    /\ ByPeer(n, m.src) # {}
    /\ LET s == First(ByPeer(n, m.src))
           c == conns[n][s]
           d == [c EXCEPT !.unacked = IF Acknowledges(m, c) THEN << >> ELSE @]
           e == [d EXCEPT !.inbox = @ \o m.data, !.their_seq = Plus(@, Len(m.data))]
       IN  /\ conns' = [conns EXCEPT ![n][s] = IF Appends(m, c) THEN e ELSE d]
           /\ net' = IF Appends(m, c) THEN net \cup {AckOf(n, e)} ELSE net
           /\ acked' = IF Acknowledges(m, c)
                       THEN [acked EXCEPT ![c.sid] = c.unacked[Len(c.unacked)][2]]
                       ELSE acked
           /\ delivered' = IF Appends(m, c)
                           THEN [delivered EXCEPT ![c.rid] = Len(c.read) + Len(e.inbox)]
                           ELSE delivered
    /\ UNCHANGED <<owner, listenFd, nextFd, pending, call, openFd,
                   isns, wrote, offered, paired, finned, forwarded>>

HandleTcpSegment(n, m) ==
    /\ owner[n]
    /\ m.dst = n
    /\ \/ HandleRst(n, m)
       \/ HandleSyn(n, m)
       \/ HandleSynAck(n, m)
       \/ HandleFin(n, m)
       \/ HandleFinalAck(n, m)
       \/ HandleData(n, m)

\* The segment sent again for record c.
Resent(n, c) == Seg("ACK", n, c.peer, c.unacked_seq, c.their_seq, c.unacked)

\* Mutant: the retransmissions are not counted.
NotCounted(c) == c

Counted(c) == [c EXCEPT !.retransmits = @ + 1]

\* CheckDataRetransmits on one connection whose interval has passed.
CheckDataRetransmits(n, s) ==
    LET c == conns[n][s] IN
    /\ owner[n]
    /\ c.used /\ c.established /\ c.unacked # << >>
    /\ IF c.retransmits >= MaxDataRetransmits
       THEN /\ conns' = [conns EXCEPT ![n][s].unacked = << >>]
            /\ UNCHANGED net
       ELSE /\ conns' = [conns EXCEPT ![n][s] = Counted(c)]
            /\ net' = net \cup {Resent(n, c)}
    /\ UNCHANGED <<owner, listenFd, nextFd, pending, call, openFd, history>>
-----------------------------------------------------------------------------
(* The relay, and peers whose TCP stack is not this code.                  *)

Lose(m) ==
    /\ Lossy
    /\ net' = net \ {m}
    /\ UNCHANGED <<owner, listenFd, nextFd, conns, pending, call, openFd, history>>

PeerResets(p, n) ==
    /\ p \in Aborter
    /\ p # n
    /\ net' = net \cup {Seg("RST", p, n, 0, 0, << >>)}
    /\ UNCHANGED <<owner, listenFd, nextFd, conns, pending, call, openFd, history>>

ConnectStep(n) ==
    \/ ConnectReturns(n)
    \/ ConnectPollFails(n)
    \/ ConnectRetries(n)
    \/ ConnectTimesOut(n)

Command(n) ==
    \/ BindControl(n)
    \/ CloseControl(n)
    \/ ProcessExit(n)
    \/ Accept(n)
    \/ \E fd \in RealFd : Listen(n, fd)
    \/ \E fd \in RealFd, p \in Console : Connect(n, fd, p)
    \/ \E fd \in openFd[n] :
          \/ \E len \in SendSizes : SendTo(n, fd, len)
          \/ \E size \in ReadSizes : RecvFrom(n, fd, size)
          \/ RecvEof(n, fd)
          \/ CloseConn(n, fd)
          \/ CloseOther(n, fd)

Drain(n) ==
    \/ \E m \in net : HandleTcpSegment(n, m)
    \/ \E s \in Slot : CheckDataRetransmits(n, s)

Environment ==
    \/ \E m \in net : Lose(m)
    \/ \E p, n \in Console : PeerResets(p, n)

Next ==
    \/ \E n \in Console : Command(n) \/ ConnectStep(n) \/ Drain(n)
    \/ Environment

Spec == Init /\ [][Next]_vars

\* The dispatch thread runs a command it has begun, and the drain thread wakes
\* every few milliseconds and runs the timers.
Fairness ==
    \A n \in Console :
        /\ WF_vars(ConnectStep(n))
        /\ \A s \in Slot : WF_vars(CheckDataRetransmits(n, s))

FairSpec == Spec /\ Fairness
-----------------------------------------------------------------------------
\* Types: sequence numbers stay within their width across every addition, and what
\* is received and acknowledged of a stream within what may be written to it.
TypeOK ==
    /\ owner \in [Console -> BOOLEAN]
    /\ listenFd \in [Console -> Int]
    /\ nextFd \in [Console -> Int]
    /\ conns \in [Console -> [Slot -> VTcpConn]]
    /\ pending \in [Console -> [PSlot -> PendingAccept]]
    /\ call \in [Console -> Call]
    /\ openFd \in [Console -> SUBSET Int]
    /\ net \subseteq Segment
    /\ isns \subseteq ISN
    /\ wrote \in [ISN -> 0 .. MaxStream]
    /\ delivered \in [ISN -> 0 .. MaxStream]
    /\ acked \in [ISN -> 0 .. MaxStream]
    /\ offered \subseteq ISN \X ISN
    /\ paired \subseteq ISN \X ISN
    /\ finned \subseteq ISN
    /\ forwarded \subseteq Console \X Int

\* The bytes a connection has received, read or not.
Received(c) == c.read \o c.inbox

\* Stream integrity: what ldn_mitm reads from a connection is a prefix of what
\* its peer wrote to it -- no byte lost, repeated, reordered or taken from another
\* connection -- whatever the relay loses, duplicates or reorders.  (The seq check
\* and the inbox handling of HandleTcpSegment, RecvFrom and the retransmissions.)
StreamIntegrity ==
    \A n \in Console, s \in Slot :
        LET c == conns[n][s] IN
        (c.used /\ c.established) =>
            /\ Len(Received(c)) <= wrote[c.rid]
            /\ \A j \in 1 .. Len(Received(c)) : Received(c)[j] = <<c.rid, j>>

\* No more of a stream is acknowledged at its sender than its receiver has really
\* taken: retransmission only stops, short of giving up, when the data has arrived.
AckedWasDelivered == \A i \in ISN : acked[i] <= delivered[i]

\* The inbox never outgrows its array.
InboxBounded ==
    \A n \in Console, s \in Slot :
        conns[n][s].used => Len(conns[n][s].inbox) <= VTcpInboxCap

\* Both ends agree on the handshake: a joiner is established on a SYN-ACK that
\* answers its own SYN, and a host hands out a connection only if its joiner
\* really accepted the SYN-ACK the host had sent for it.
HandshakeAgreement ==
    \A n \in Console, s \in Slot :
        LET c == conns[n][s] IN
        (c.used /\ c.established) =>
            IF c.fd >= SynthBase THEN <<c.rid, c.sid>> \in paired
                                 ELSE <<c.sid, c.rid>> \in offered

\* A console has at most one connection with a peer, which is what lets
\* FindVTcpConnByPeer tell connections apart by the peer's IP address alone.
OneConnPerPeer ==
    \A n \in Console : \A s, t \in Slot :
        (conns[n][s].used /\ conns[n][t].used /\ conns[n][s].peer = conns[n][t].peer)
            => s = t

\* No synthetic descriptor is ever handed to the real bsd:u service, where it
\* would close an unrelated socket of the same number.
SyntheticNeverForwarded == forwarded = {}

\* RecvFrom answers end-of-file only after every byte the peer wrote was read.
EofIsComplete ==
    \A n \in Console, s \in Slot :
        conns[n][s].eof => Len(conns[n][s].read) = wrote[conns[n][s].rid]

\* Connect always returns: it never blocks the only dispatch thread for good.
ConnectTerminates ==
    \A n \in Console : call[n].phase # "idle" ~> call[n].phase = "idle"

\* A data segment is retransmitted only for so long: it is acknowledged, given up,
\* or its connection goes away.
RetransmissionEnds ==
    \A n \in Console, s \in Slot :
        conns[n][s].unacked # << >> ~> conns[n][s].unacked = << >>
=============================================================================
