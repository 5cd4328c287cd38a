---------------------------- MODULE VTcpPeerProofs ----------------------------
(***************************************************************************)
(* The two ends of a connection: that they agree on the handshake and that *)
(* nothing is acknowledged that was not delivered, for any consoles, exits *)
(* and losses; and that the tables keep one connection per peer and no     *)
(* synthetic descriptor gets to the real service, for consoles that close  *)
(* in order.                                                               *)
(***************************************************************************)
EXTENDS VTcpProofs

-----------------------------------------------------------------------------
(* The invariant.  As in VTcpInv the parts about one connection, one       *)
(* pending accept and one segment are operators of the values they depend  *)
(* on: I is isns, O is offered, P is paired, D is delivered, F is finned   *)
(* and w is wrote.                                                         *)

\* Stream i is one of a pair that was agreed on.
Known(i, P) == \E x \in P : x[1] = i \/ x[2] = i

\* Stream i was drawn by a Connect, not by the answer to a SYN.
Opener(i, I, O) == i \in I /\ \A x \in O : x[2] # i

\* What an acknowledgement number says: it names a position of a stream that was
\* received up to there, or the FIN at the end of a closed one.
Confirms(a, P, D, F, w) ==
    \A i \in ISN, k \in 0 .. MaxStream + 1 :
        a = Plus(i, k + 1) => \/ Known(i, P) /\ k <= D[i]
                              \/ i \in F /\ k = w[i] + 1

SegPair(m, I, O, P, D, F, w) ==
    /\ m.kind = "SYN" => Opener(m.seq, I, O)
    /\ m.kind = "SYNACK" => \E x \in O : x[2] = m.seq /\ m.ack = Plus(x[1], 1)
    /\ m.kind = "ACK" => Confirms(m.ack, P, D, F, w)

\* The pair of streams of connection c, the opener's first.
PairOf(c) == IF c.fd >= SynthBase THEN <<c.rid, c.sid>> ELSE <<c.sid, c.rid>>

\* A connection that waits for its SYN-ACK is in no pair yet; an established one
\* is one end of its pair and has received all that was delivered of its stream.
ConnPair(c, P, D) ==
    c.used =>
        /\ ~c.established => c.fd < SynthBase /\ \A x \in P : x[1] # c.sid
        /\ c.established => PairOf(c) \in P /\ D[c.rid] = Len(Received(c))

\* A pending accept was offered, and completed only by the joiner that accepted
\* the offer, whose stream nobody else receives.
PendPair(p, O, P, D) ==
    p.used =>
        /\ <<p.their_isn, p.our_isn>> \in O
        /\ p.got_final_ack => <<p.their_isn, p.our_isn>> \in P
        /\ <<p.their_isn, p.our_isn>> \in P => D[p.their_isn] = 0

\* An answer belongs to one SYN, a SYN gets into one pair, and no stream is both.
PairsInv(I, O, P) ==
    /\ P \subseteq O
    /\ \A x \in O : x[1] \in I /\ x[2] \in I
    /\ \A x, y \in O : x[1] # y[2]
    /\ \A x, y \in O : x[2] = y[2] => x = y
    /\ \A x, y \in P : x[1] = y[1] => x = y

ConnPairs == \A n \in Console, s \in Slot : ConnPair(conns[n][s], paired, delivered)
PendPairs ==
    \A n \in Console, k \in PSlot : PendPair(pending[n][k], offered, paired, delivered)
SegPairs ==
    \A m \in net : SegPair(m, isns, offered, paired, delivered, finned, wrote)
CallPairs ==
    \A n \in Console : call[n].phase # "idle" => Opener(call[n].isn, isns, offered)

\* Accept makes up descriptors from SynthBase on, and only a stream of a pair is
\* received.
MadeInv ==
    /\ \A n \in Console : nextFd[n] >= SynthBase
    /\ \A i \in ISN : delivered[i] # 0 => Known(i, paired)

\* The inductive invariant, on top of IInv.
PairInv ==
    /\ PairsInv(isns, offered, paired)
    /\ ConnPairs
    /\ PendPairs
    /\ SegPairs
    /\ CallPairs
    /\ MadeInv
    /\ AckedWasDelivered

-----------------------------------------------------------------------------
(* Consoles that close in order.                                           *)

\* ldn_mitm closes its control socket last, does not exit with sockets open, and
\* a console hosts networks or joins them.
Tidy == ControlLast /\ Exits = {} /\ Host \cap Joiner = {}

\* Descriptors in use are below the next synthetic one, and only a host listens.
FdsInv ==
    \A n \in Console :
        /\ nextFd[n] >= SynthBase
        /\ n \notin Host => listenFd[n] = NoFd
        /\ \A fd \in openFd[n] : fd \in Nat /\ fd < nextFd[n]

\* A connection has an owner, and ldn_mitm holds its descriptor.
OwnedInv ==
    \A n \in Console, s \in Slot :
        conns[n][s].used => owner[n] /\ conns[n][s].fd \in openFd[n]

\* No two connections share a descriptor or a peer.
DistinctInv ==
    \A n \in Console : \A s, t \in Slot :
        (/\ conns[n][s].used /\ conns[n][t].used
         /\ \/ conns[n][s].fd = conns[n][t].fd
            \/ conns[n][s].peer = conns[n][t].peer) => s = t

\* On a console that does not join, a peer is in one of the two tables at most.
WaitingInv ==
    \A n \in Console \ Joiner :
        /\ \A k, l \in PSlot :
              (/\ pending[n][k].used /\ pending[n][l].used
               /\ pending[n][k].peer = pending[n][l].peer) => k = l
        /\ \A s \in Slot, k \in PSlot :
              conns[n][s].used /\ pending[n][k].used =>
                  conns[n][s].peer # pending[n][k].peer

TablesInv == FdsInv /\ OwnedInv /\ DistinctInv /\ WaitingInv

\* Every descriptor of ldn_mitm is one of the real service's or belongs to a
\* connection of the owner.
SynthInv ==
    /\ forwarded = {}
    /\ \A n \in Console :
          /\ nextFd[n] >= SynthBase
          /\ call[n].phase # "idle" => call[n].fd \in RealFd
          /\ \A fd \in openFd[n] \ RealFd :
                /\ fd >= SynthBase /\ owner[n]
                /\ \E s \in Slot : conns[n][s].used /\ conns[n][s].fd = fd
-----------------------------------------------------------------------------
(* What a step leaves of the table.                                        *)

\* Every slot keeps its descriptor and its peer.
Kept ==
    \A p \in Console, t \in Slot :
        /\ conns'[p][t].used = conns[p][t].used
        /\ conns'[p][t].fd = conns[p][t].fd
        /\ conns'[p][t].peer = conns[p][t].peer

\* A record written again with its descriptor and its peer.
LEMMA SlotKept ==
    ASSUME TypeOK, NEW n \in Console, NEW s \in Slot, NEW d,
           conns' = [conns EXCEPT ![n][s] = d],
           d.used = conns[n][s].used, d.fd = conns[n][s].fd,
           d.peer = conns[n][s].peer
    PROVE  Kept
BY DEF TypeOK, Kept

\* Data, acknowledgements and the signals of the peer.
LEMMA DrainKeeps ==
    ASSUME TypeOK, NEW n \in Console, NEW m \in net,
           \/ HandleRst(n, m) \/ HandleSynAck(n, m) \/ HandleFin(n, m)
           \/ HandleData(n, m)
    PROVE  Kept
<1>1. PICK s \in Slot : s = First(ByPeer(n, m.src))
    BY LookupTypes DEF HandleRst, HandleSynAck, HandleFin, HandleData
<1>2. PICK c \in VTcpConn : c = conns[n][s]
    BY DEF TypeOK
<1>3. CASE HandleRst(n, m)
    <2>1. conns' = [conns EXCEPT ![n][s] = [c EXCEPT !.peer_closed = TRUE]]
        BY <1>1, <1>2, <1>3 DEF HandleRst, TypeOK
    <2> QED
        BY <1>2, <2>1, SlotKept DEF VTcpConn
<1>4. CASE HandleSynAck(n, m)
    <2>1. conns' = [conns EXCEPT ![n][s] =
              [c EXCEPT !.their_seq = Plus(m.seq, 1), !.our_seq = Plus(c.our_isn, 1),
                        !.syn_sent = FALSE, !.established = TRUE, !.rid = m.seq]]
        BY <1>1, <1>2, <1>4 DEF HandleSynAck
    <2> QED
        BY <1>2, <2>1, SlotKept DEF VTcpConn
<1>5. CASE HandleFin(n, m)
    <2>1. conns' = [conns EXCEPT ![n][s] =
              [c EXCEPT !.peer_closed = TRUE, !.their_seq = Plus(m.seq, 1)]]
        BY <1>1, <1>2, <1>5 DEF HandleFin
    <2> QED
        BY <1>2, <2>1, SlotKept DEF VTcpConn
<1>6. CASE HandleData(n, m)
    <2>1. PICK u, b, q :
              \/ conns' = [conns EXCEPT ![n][s] = [c EXCEPT !.unacked = u]]
              \/ conns' = [conns EXCEPT ![n][s] =
                     [[c EXCEPT !.unacked = u] EXCEPT !.inbox = b, !.their_seq = q]]
        BY <1>1, <1>2, <1>6 DEF HandleData
    <2>2. CASE conns' = [conns EXCEPT ![n][s] = [c EXCEPT !.unacked = u]]
        BY <1>2, <2>2, SlotKept DEF VTcpConn
    <2>3. CASE conns' = [conns EXCEPT ![n][s] =
                     [[c EXCEPT !.unacked = u] EXCEPT !.inbox = b, !.their_seq = q]]
        BY <1>2, <2>3, SlotKept DEF VTcpConn
    <2> QED
        BY <2>1, <2>2, <2>3
<1> QED
    BY <1>3, <1>4, <1>5, <1>6

\* The retransmission timer.
LEMMA RetransmitKeeps ==
    ASSUME TypeOK, NEW n \in Console, NEW s \in Slot, CheckDataRetransmits(n, s)
    PROVE  Kept
<1>1. PICK c \in VTcpConn : c = conns[n][s]
    BY DEF TypeOK
<1>2. \/ conns' = [conns EXCEPT ![n][s] = [c EXCEPT !.unacked = << >>]]
      \/ conns' = [conns EXCEPT ![n][s] = [c EXCEPT !.retransmits = @ + 1]]
    BY <1>1 DEF CheckDataRetransmits, Counted, TypeOK
<1>3. CASE conns' = [conns EXCEPT ![n][s] = [c EXCEPT !.unacked = << >>]]
    BY <1>1, <1>3, SlotKept DEF VTcpConn
<1>4. CASE conns' = [conns EXCEPT ![n][s] = [c EXCEPT !.retransmits = @ + 1]]
    BY <1>1, <1>4, SlotKept DEF VTcpConn
<1> QED
    BY <1>2, <1>3, <1>4

\* SendTo and RecvFrom.
LEMMA TransferKeeps ==
    ASSUME TypeOK, NEW n \in Console, NEW fd,
           \/ \E len \in SendSizes : SendTo(n, fd, len)
           \/ \E size \in ReadSizes : RecvFrom(n, fd, size)
           \/ RecvEof(n, fd)
    PROVE  Kept
<1>1. PICK s \in Slot : s = First(ByFd(n, fd))
    BY LookupTypes DEF SendTo, RecvFrom, RecvEof
<1>2. PICK c \in VTcpConn : c = conns[n][s]
    BY DEF TypeOK
<1>3. ASSUME NEW len \in SendSizes, SendTo(n, fd, len) PROVE Kept
    <2>1. PICK payload : conns' = [conns EXCEPT ![n][s] =
              [c EXCEPT !.unacked = payload, !.unacked_seq = c.our_seq,
                        !.retransmits = 0, !.our_seq = Plus(c.our_seq, Len(payload))]]
        BY <1>1, <1>2, <1>3 DEF SendTo, Sent
    <2> QED
        BY <1>2, <2>1, SlotKept DEF VTcpConn
<1>4. ASSUME NEW size \in ReadSizes, RecvFrom(n, fd, size) PROVE Kept
    <2>1. PICK a, b : conns' = [conns EXCEPT ![n][s] = [c EXCEPT !.read = a, !.inbox = b]]
        BY <1>1, <1>2, <1>4 DEF RecvFrom
    <2> QED
        BY <1>2, <2>1, SlotKept DEF VTcpConn
<1>5. CASE RecvEof(n, fd)
    <2>1. conns' = [conns EXCEPT ![n][s] = [c EXCEPT !.eof = TRUE]]
        BY <1>1, <1>2, <1>5 DEF RecvEof, TypeOK
    <2> QED
        BY <1>2, <2>1, SlotKept DEF VTcpConn
<1> QED
    BY <1>3, <1>4, <1>5

\* A pending accept keeps its peer.
PendKept ==
    \A p \in Console, k \in PSlot :
        /\ pending'[p][k].used = pending[p][k].used
        /\ pending'[p][k].peer = pending[p][k].peer

\* A step that opens and closes nothing.
Quiet ==
    /\ Kept /\ PendKept
    /\ UNCHANGED <<owner, listenFd, nextFd, openFd, forwarded>>
    /\ \A p \in Console : call'[p].phase # "idle" =>
           call[p].phase # "idle" /\ call'[p].fd = call[p].fd

\* The steps that do.
Loud(n) ==
    \/ BindControl(n) \/ CloseControl(n) \/ ProcessExit(n) \/ Accept(n)
    \/ \E fd \in RealFd : Listen(n, fd)
    \/ \E fd \in RealFd, p \in Console : Connect(n, fd, p)
    \/ \E fd \in openFd[n] : CloseConn(n, fd) \/ CloseOther(n, fd)
    \/ ConnectTimesOut(n)
    \/ owner[n] /\ \E m \in net : HandleSyn(n, m)

\* Every step is of one of the two kinds.
LEMMA QuietOrLoud ==
    ASSUME TypeOK, [Next]_vars
    PROVE  Quiet \/ \E n \in Console : Loud(n)
<1>1. CASE UNCHANGED vars
    BY <1>1 DEF vars, Quiet, Kept, PendKept
<1>2. ASSUME NEW n \in Console, Command(n) PROVE Quiet \/ Loud(n)
    <2>1. CASE \E fd \in openFd[n] :
              \/ \E len \in SendSizes : SendTo(n, fd, len)
              \/ \E size \in ReadSizes : RecvFrom(n, fd, size)
              \/ RecvEof(n, fd)
        <3>1. PICK fd \in openFd[n] :
              \/ \E len \in SendSizes : SendTo(n, fd, len)
              \/ \E size \in ReadSizes : RecvFrom(n, fd, size)
              \/ RecvEof(n, fd)
            BY <2>1
        <3>2. Kept
            BY <3>1, TransferKeeps
        <3>3. UNCHANGED <<owner, listenFd, nextFd, openFd, forwarded, pending, call>>
            BY <3>1 DEF SendTo, RecvFrom, RecvEof, history
        <3> QED
            BY <3>2, <3>3 DEF Quiet, PendKept
    <2> QED
        BY <1>2, <2>1 DEF Command, Loud
<1>3. ASSUME NEW n \in Console, ConnectStep(n) PROVE Quiet \/ Loud(n)
    <2>1. CASE ConnectReturns(n)
        BY <2>1 DEF ConnectReturns, Quiet, Kept, PendKept, TypeOK, NoCall, history
    <2>2. CASE ConnectPollFails(n)
        BY <2>2 DEF ConnectPollFails, Quiet, Kept, PendKept, TypeOK, Call, history
    <2>3. CASE ConnectRetries(n)
        BY <2>3 DEF ConnectRetries, NextAttempt, Quiet, Kept, PendKept, TypeOK, Call, history
    <2> QED
        BY <1>3, <2>1, <2>2, <2>3 DEF ConnectStep, Loud
<1>4. ASSUME NEW n \in Console, Drain(n) PROVE Quiet \/ Loud(n)
    <2>1. ASSUME NEW m \in net, HandleTcpSegment(n, m) PROVE Quiet \/ Loud(n)
        <3>1. CASE \/ HandleRst(n, m) \/ HandleSynAck(n, m) \/ HandleFin(n, m)
                   \/ HandleData(n, m)
            <4>1. Kept
                BY <3>1, DrainKeeps
            <4>2. UNCHANGED <<owner, listenFd, nextFd, openFd, forwarded, pending, call>>
                BY <3>1 DEF HandleRst, HandleSynAck, HandleFin, HandleData, history
            <4> QED
                BY <4>1, <4>2 DEF Quiet, PendKept
        <3>2. CASE HandleFinalAck(n, m)
            <4>1. PICK k : pending' = [pending EXCEPT ![n][k].got_final_ack = TRUE]
                BY <3>2 DEF HandleFinalAck
            <4>2. UNCHANGED <<owner, listenFd, nextFd, openFd, forwarded, conns, call>>
                BY <3>2 DEF HandleFinalAck, history
            <4>3. PendKept
                BY <4>1 DEF PendKept, TypeOK, PendingAccept
            <4> QED
                BY <4>2, <4>3 DEF Quiet, Kept
        <3> QED
            BY <2>1, <3>1, <3>2 DEF HandleTcpSegment, Loud
    <2>2. ASSUME NEW s \in Slot, CheckDataRetransmits(n, s) PROVE Quiet
        <3>1. Kept
            BY <2>2, RetransmitKeeps
        <3>2. UNCHANGED <<owner, listenFd, nextFd, openFd, forwarded, pending, call>>
            BY <2>2 DEF CheckDataRetransmits, history
        <3> QED
            BY <3>1, <3>2 DEF Quiet, PendKept
    <2> QED
        BY <1>4, <2>1, <2>2 DEF Drain
<1>5. CASE Environment
    BY <1>5 DEF Environment, Lose, PeerResets, Quiet, Kept, PendKept, history
<1> QED
    BY <1>1, <1>2, <1>3, <1>4, <1>5 DEF Next

\* What the lookup by descriptor finds.
LEMMA FoundByFd ==
    ASSUME TypeOK, NEW n \in Console, NEW fd, ByFd(n, fd) # {}
    PROVE  /\ First(ByFd(n, fd)) \in Slot
           /\ owner[n] /\ conns[n][First(ByFd(n, fd))].used
           /\ conns[n][First(ByFd(n, fd))].fd = fd
<1>1. ByFd(n, fd) \in SUBSET Nat
    BY SlotFacts DEF ByFd
<1>2. First(ByFd(n, fd)) \in ByFd(n, fd)
    BY <1>1, FirstInSet
<1> QED
    BY <1>2 DEF ByFd

\* What Accept does to the two tables.
LEMMA AcceptEffect ==
    ASSUME TypeOK, NEW n \in Console, Accept(n)
    PROVE  \E k \in PSlot, s \in Slot, d \in VTcpConn :
              /\ pending[n][k].used /\ pending[n][k].got_final_ack /\ ~conns[n][s].used
              /\ pending' = [pending EXCEPT ![n][k].used = FALSE]
              /\ conns' = [conns EXCEPT ![n][s] = d]
              /\ d.used /\ d.established /\ d.fd = nextFd[n]
              /\ d.peer = pending[n][k].peer
              /\ d.sid = pending[n][k].our_isn /\ d.rid = pending[n][k].their_isn
              /\ d.read = << >> /\ d.inbox = << >>
<1> DEFINE ready == {j \in PSlot : pending[n][j].used /\ pending[n][j].got_final_ack}
<1>1. ready \in SUBSET Nat /\ ready # {}
    BY SlotFacts DEF Accept
<1>2. First(ready) \in ready
    BY <1>1, FirstInSet
<1>3. PICK k \in PSlot : k = First(ready) /\ pending[n][k].used /\ pending[n][k].got_final_ack
    BY <1>2
<1>4. PICK s \in Slot : s = First(FreeSlots(n)) /\ ~conns[n][s].used
    BY LookupTypes DEF Accept
<1>5. PICK p \in PendingAccept : p = pending[n][k]
    BY DEF TypeOK
<1> DEFINE d == [FreeConn EXCEPT !.used = TRUE, !.fd = nextFd[n],
                                 !.established = TRUE, !.peer = p.peer,
                                 !.our_seq = Plus(p.our_isn, 1),
                                 !.their_seq = Plus(p.their_isn, 1),
                                 !.sid = p.our_isn, !.rid = p.their_isn]
<1>6. /\ pending' = [pending EXCEPT ![n][k].used = FALSE]
      /\ conns' = [conns EXCEPT ![n][s] = d]
    BY <1>3, <1>4, <1>5 DEF Accept
<1>7. Plus(p.our_isn, 1) \in SeqNo /\ Plus(p.their_isn, 1) \in SeqNo /\ nextFd[n] \in Int
    BY PlusType, IsnType DEF TypeOK, PendingAccept
<1>8. d \in VTcpConn
    BY <1>7, FreeConnType DEF VTcpConn, PendingAccept
<1>9. /\ d.used /\ d.established /\ d.fd = nextFd[n] /\ d.peer = p.peer
      /\ d.sid = p.our_isn /\ d.rid = p.their_isn
      /\ d.read = << >> /\ d.inbox = << >>
    BY DEF FreeConn
<1> HIDE DEF d
<1> QED
    BY <1>3, <1>4, <1>5, <1>6, <1>8, <1>9
-----------------------------------------------------------------------------
(* Descriptors.                                                            *)

\* No descriptor is open at first.
LEMMA InitSynth == Init => SynthInv
BY FdAssumption DEF Init, SynthInv, NoCall

\* No step lets go of a synthetic descriptor that is still open.
LEMMA NextSynth ==
    ASSUME ControlLast, TypeOK, SynthInv, [Next]_vars
    PROVE  SynthInv'
<1>0. NoFd \notin RealFd /\ NoFd < SynthBase /\ RealFd \subseteq Int /\ SynthBase \in Nat
      /\ \A fd \in RealFd : fd < SynthBase
    BY FdAssumption DEF NoFd
<1>1. CASE Quiet
    BY <1>1 DEF Quiet, Kept, SynthInv
<1>2. ASSUME NEW n \in Console, BindControl(n) PROVE SynthInv'
    BY <1>2 DEF BindControl, SynthInv, TypeOK, history
<1>3. ASSUME NEW n \in Console, CloseControl(n) PROVE SynthInv'
    BY <1>3 DEF CloseControl, SynthInv, TypeOK, history
<1>4. ASSUME NEW n \in Console, ProcessExit(n) PROVE SynthInv'
    BY <1>4 DEF ProcessExit, SynthInv, TypeOK, history
<1>5. ASSUME NEW n \in Console, NEW fd \in RealFd, Listen(n, fd) PROVE SynthInv'
    BY <1>5 DEF Listen, SynthInv, TypeOK, history
<1>6. ASSUME NEW n \in Console, Accept(n) PROVE SynthInv'
    <2>1. PICK s \in Slot, d \in VTcpConn :
              /\ conns' = [conns EXCEPT ![n][s] = d] /\ ~conns[n][s].used
              /\ d.used /\ d.fd = nextFd[n]
        BY <1>6, AcceptEffect
    <2>3. \A p \in Console, t \in Slot :
             conns'[p][t] = IF p = n /\ t = s THEN d ELSE conns[p][t]
        BY <2>1 DEF TypeOK
    <2>4. /\ UNCHANGED <<owner, call, forwarded>> /\ owner[n]
          /\ nextFd' = [nextFd EXCEPT ![n] = @ + 1]
          /\ openFd' = [openFd EXCEPT ![n] = @ \cup {nextFd[n]}]
        BY <1>6 DEF Accept, history
    <2>5. nextFd[n] \in Int /\ nextFd[n] >= SynthBase
        BY DEF TypeOK, SynthInv
    <2>6. ASSUME NEW p \in Console, NEW fd \in openFd'[p] \ RealFd
          PROVE  /\ fd >= SynthBase /\ owner'[p]
                 /\ \E t \in Slot : conns'[p][t].used /\ conns'[p][t].fd = fd
        <3>1. CASE p = n /\ fd = nextFd[n]
            BY <2>1, <2>3, <2>4, <2>5, <3>1
        <3>2. CASE ~(p = n /\ fd = nextFd[n])
            <4>1. fd \in openFd[p] \ RealFd
                BY <2>4, <2>6, <3>2 DEF TypeOK
            <4>2. PICK t \in Slot : conns[p][t].used /\ conns[p][t].fd = fd
                BY <4>1 DEF SynthInv
            <4>3. conns'[p][t] = conns[p][t]
                BY <2>1, <2>3, <4>2
            <4> QED
                BY <2>4, <4>1, <4>2, <4>3 DEF SynthInv
        <3> QED
            BY <3>1, <3>2
    <2>7. \A p \in Console : nextFd'[p] >= SynthBase
        BY <1>0, <2>4, <2>5 DEF SynthInv, TypeOK
    <2> QED
        BY <2>4, <2>6, <2>7 DEF SynthInv
<1>7. ASSUME NEW n \in Console, NEW fd \in RealFd, NEW q \in Console, Connect(n, fd, q)
      PROVE  SynthInv'
    <2>1. PICK s \in Slot : s = First(FreeSlots(n)) /\ ~conns[n][s].used
        BY <1>7, LookupTypes DEF Connect
    <2>2. PICK d : conns' = [conns EXCEPT ![n][s] = d]
        BY <1>7, <2>1 DEF Connect
    <2>3. \A p \in Console, t \in Slot :
             conns'[p][t] = IF p = n /\ t = s THEN d ELSE conns[p][t]
        BY <2>2 DEF TypeOK
    <2>4. /\ UNCHANGED <<owner, nextFd, forwarded>> /\ openFd[n] = {}
          /\ openFd' = [openFd EXCEPT ![n] = @ \cup {fd}]
        BY <1>7 DEF Connect
    <2>5. PICK i : call' = [call EXCEPT ![n] = [phase |-> "wait", fd |-> fd, dst |-> q,
                                               isn |-> i, attempt |-> 1]]
        BY <1>7 DEF Connect
    <2>6. \A p \in Console : call'[p].phase # "idle" => call'[p].fd \in RealFd
        BY <2>5 DEF SynthInv, TypeOK
    <2>7. \A p \in Console : p # n => conns'[p] = conns[p] /\ openFd'[p] = openFd[p]
        BY <2>2, <2>4 DEF TypeOK
    <2>8. openFd'[n] \subseteq RealFd
        BY <2>4 DEF TypeOK
    <2> QED
        BY <2>4, <2>6, <2>7, <2>8 DEF SynthInv
<1>8. ASSUME NEW n \in Console, ConnectTimesOut(n) PROVE SynthInv'
    <2>1. CASE ByFd(n, call[n].fd) = {}
        BY <1>8, <2>1 DEF ConnectTimesOut, SynthInv, TypeOK, NoCall, history
    <2>2. CASE ByFd(n, call[n].fd) # {}
        <3>1. PICK s \in Slot : /\ s = First(ByFd(n, call[n].fd))
                                /\ conns[n][s].fd = call[n].fd
            BY <2>2, FoundByFd
        <3>2. conns' = [conns EXCEPT ![n][s] = FreeConn]
            BY <1>8, <2>2, <3>1 DEF ConnectTimesOut
        <3>3. \A p \in Console, t \in Slot :
                 p # n \/ t # s => conns'[p][t] = conns[p][t]
            BY <3>2 DEF TypeOK
        <3>4. conns[n][s].fd \in RealFd
            BY <1>8, <3>1 DEF ConnectTimesOut, SynthInv
        <3>5. /\ UNCHANGED <<owner, nextFd, openFd, forwarded>>
              /\ call' = [call EXCEPT ![n] = NoCall]
            BY <1>8 DEF ConnectTimesOut, history
        <3>6. \A p \in Console : call'[p].phase # "idle" => call'[p].fd \in RealFd
            BY <3>5 DEF SynthInv, TypeOK, NoCall
        <3>7. ASSUME NEW p \in Console, NEW fd \in openFd[p] \ RealFd
              PROVE  \E t \in Slot : conns'[p][t].used /\ conns'[p][t].fd = fd
            BY <3>3, <3>4 DEF SynthInv
        <3> QED
            BY <3>5, <3>6, <3>7 DEF SynthInv
    <2> QED
        BY <2>1, <2>2
<1>9. ASSUME NEW n \in Console, NEW fd \in openFd[n], CloseConn(n, fd) PROVE SynthInv'
    <2>1. PICK s \in Slot : s = First(ByFd(n, fd)) /\ conns[n][s].fd = fd
        BY <1>9, FoundByFd DEF CloseConn
    <2>2. conns' = [conns EXCEPT ![n][s] = FreeConn]
        BY <1>9, <2>1 DEF CloseConn
    <2>3. \A p \in Console, t \in Slot :
             p # n \/ t # s => conns'[p][t] = conns[p][t]
        BY <2>2 DEF TypeOK
    <2>4. /\ UNCHANGED <<owner, nextFd, call>>
          /\ openFd' = [openFd EXCEPT ![n] = @ \ {fd}]
        BY <1>9 DEF CloseConn
    <2>5. forwarded' = {}
        BY <1>9 DEF CloseConn, IsSynthetic, Forward, SynthInv
    <2>6. ASSUME NEW p \in Console, NEW g \in openFd'[p] \ RealFd
          PROVE  /\ g >= SynthBase /\ owner'[p]
                 /\ \E t \in Slot : conns'[p][t].used /\ conns'[p][t].fd = g
        <3>1. g \in openFd[p] \ RealFd /\ (p = n => g # fd)
            BY <2>4 DEF TypeOK
        <3>2. PICK t \in Slot : conns[p][t].used /\ conns[p][t].fd = g
            BY <3>1 DEF SynthInv
        <3>3. conns'[p][t] = conns[p][t]
            BY <2>1, <2>3, <3>1, <3>2
        <3> QED
            BY <2>4, <3>1, <3>2, <3>3 DEF SynthInv
    <2> QED
        BY <2>4, <2>5, <2>6 DEF SynthInv
<1>10. ASSUME NEW n \in Console, NEW fd \in openFd[n], CloseOther(n, fd) PROVE SynthInv'
    <2>1. fd \in RealFd
        BY <1>10 DEF CloseOther, ByFd, SynthInv
    <2>2. forwarded' = {}
        BY <1>10, <2>1 DEF CloseOther, Forward, SynthInv
    <2> QED
        BY <1>10, <2>2 DEF CloseOther, SynthInv, TypeOK
<1>11. ASSUME NEW n \in Console, NEW m \in net, HandleSyn(n, m) PROVE SynthInv'
    BY <1>11 DEF HandleSyn, SynthInv
<1> QED
    BY <1>1, <1>2, <1>3, <1>4, <1>5, <1>6, <1>7, <1>8, <1>9, <1>10, <1>11,
       QuietOrLoud DEF Loud

\* No descriptor that Accept made up gets to the real bsd:u service, if ldn_mitm
\* closes its control socket last: Close finds the connection it belongs to and keeps
\* it from the forward.  Exits do not matter, the descriptors go with the process.
THEOREM SyntheticStays ==
    ASSUME ControlLast
    PROVE  Spec => []SyntheticNeverForwarded
<1>1. TypeOK /\ SynthInv /\ [Next]_vars => SynthInv'
    BY NextSynth
<1>2. SynthInv => SyntheticNeverForwarded
    BY DEF SynthInv, SyntheticNeverForwarded
<1> QED
    BY InitSynth, TypeCorrect, <1>1, <1>2, PTL DEF Spec
-----------------------------------------------------------------------------
(* Peers.                                                                  *)

\* Both tables are free at first.
LEMMA InitTables == Init => TablesInv
BY FdAssumption DEF Init, TablesInv, FdsInv, OwnedInv, DistinctInv, WaitingInv,
   FreeConn, FreePending

\* A reset slot, with or without its descriptor.
LEMMA ResetTables ==
    ASSUME TypeOK, TablesInv, NEW n \in Console, NEW s \in Slot,
           conns' = [conns EXCEPT ![n][s] = FreeConn],
           UNCHANGED <<owner, nextFd, pending>>, FdsInv',
           \/ openFd' = openFd
           \/ openFd' = [openFd EXCEPT ![n] = @ \ {conns[n][s].fd}] /\ conns[n][s].used
    PROVE  TablesInv'
<1>1. \A p \in Console, t \in Slot :
         conns'[p][t].used => conns'[p][t] = conns[p][t] /\ ~(p = n /\ t = s)
    BY DEF TypeOK, FreeConn
<1>2. ASSUME NEW p \in Console, NEW t \in Slot, conns'[p][t].used
      PROVE  owner'[p] /\ conns'[p][t].fd \in openFd'[p]
    <2>1. conns'[p][t] = conns[p][t] /\ ~(p = n /\ t = s)
        BY <1>1, <1>2
    <2>2. conns[p][t].used /\ owner[p] /\ conns[p][t].fd \in openFd[p]
        BY <1>2, <2>1 DEF TablesInv, OwnedInv
    <2>3. p = n /\ conns[n][s].used => conns[p][t].fd # conns[n][s].fd
        BY <2>1, <2>2 DEF TablesInv, DistinctInv
    <2> QED
        BY <2>1, <2>2, <2>3 DEF TypeOK
<1>3. DistinctInv'
    BY <1>1 DEF TablesInv, DistinctInv
<1>4. WaitingInv'
    BY <1>1 DEF TablesInv, WaitingInv
<1> QED
    BY <1>2, <1>3, <1>4 DEF TablesInv, OwnedInv

\* Accept moves a peer from one table to the other.
LEMMA AcceptTables ==
    ASSUME Tidy, TypeOK, TablesInv, NEW n \in Console, Accept(n)
    PROVE  TablesInv'
<1>1. PICK k \in PSlot, s \in Slot, d \in VTcpConn :
          /\ pending[n][k].used /\ ~conns[n][s].used
          /\ pending' = [pending EXCEPT ![n][k].used = FALSE]
          /\ conns' = [conns EXCEPT ![n][s] = d]
          /\ d.used /\ d.fd = nextFd[n] /\ d.peer = pending[n][k].peer
    BY AcceptEffect
<1>2. \A p \in Console, t \in Slot :
         conns'[p][t] = IF p = n /\ t = s THEN d ELSE conns[p][t]
    BY <1>1 DEF TypeOK
<1>3. \A p \in Console, l \in PSlot :
         /\ pending'[p][l].used => pending[p][l].used /\ ~(p = n /\ l = k)
         /\ pending'[p][l].peer = pending[p][l].peer
    BY <1>1 DEF TypeOK, PendingAccept
<1>4. /\ UNCHANGED <<owner, listenFd>> /\ owner[n] /\ listenFd[n] \in openFd[n]
      /\ nextFd' = [nextFd EXCEPT ![n] = @ + 1]
      /\ openFd' = [openFd EXCEPT ![n] = @ \cup {nextFd[n]}]
    BY DEF Accept
<1>5. n \in Host /\ n \notin Joiner
    BY <1>4 DEF TablesInv, FdsInv, NoFd, Tidy
<1>6. nextFd[n] \in Nat /\ nextFd[n] >= SynthBase
    BY FdAssumption DEF TablesInv, FdsInv, TypeOK
<1>7. FdsInv'
    <2>1. ASSUME NEW p \in Console PROVE nextFd'[p] >= SynthBase
        BY <1>4, <1>6, FdAssumption DEF TablesInv, FdsInv, TypeOK
    <2>2. ASSUME NEW p \in Console, NEW fd \in openFd'[p] PROVE fd \in Nat /\ fd < nextFd'[p]
        BY <1>4, <1>6 DEF TablesInv, FdsInv, TypeOK
    <2> QED
        BY <1>4, <2>1, <2>2 DEF TablesInv, FdsInv
<1>8. OwnedInv'
    BY <1>1, <1>2, <1>4 DEF TablesInv, OwnedInv, TypeOK
<1>9. \A t \in Slot : conns[n][t].used =>
         conns[n][t].fd # nextFd[n] /\ conns[n][t].peer # d.peer
    <2>1. \A t \in Slot : conns[n][t].used => conns[n][t].fd # nextFd[n]
        BY <1>6 DEF TablesInv, OwnedInv, FdsInv
    <2>2. \A t \in Slot : conns[n][t].used => conns[n][t].peer # d.peer
        BY <1>1, <1>5 DEF TablesInv, WaitingInv
    <2> QED
        BY <2>1, <2>2
<1>10. DistinctInv'
    BY <1>1, <1>2, <1>9 DEF TablesInv, DistinctInv
<1>11. WaitingInv'
    <2>1. \A l \in PSlot : pending[n][l].used /\ l # k => pending[n][l].peer # d.peer
        BY <1>1, <1>5 DEF TablesInv, WaitingInv
    <2> QED
        BY <1>1, <1>2, <1>3, <2>1 DEF TablesInv, WaitingInv
<1> QED
    BY <1>7, <1>8, <1>10, <1>11 DEF TablesInv

\* Connect finds the table empty.
LEMMA ConnectTables ==
    ASSUME Tidy, TypeOK, TablesInv, NEW n \in Console, NEW fd \in RealFd,
           NEW q \in Console, Connect(n, fd, q)
    PROVE  TablesInv'
<1>1. PICK s \in Slot : s = First(FreeSlots(n)) /\ ~conns[n][s].used
    BY LookupTypes DEF Connect
<1>2. PICK i : conns' = [conns EXCEPT ![n][s] =
                  [FreeConn EXCEPT !.used = TRUE, !.fd = fd, !.peer = q,
                                   !.our_isn = i, !.syn_sent = TRUE, !.sid = i]]
    BY <1>1 DEF Connect
<1> DEFINE d == [FreeConn EXCEPT !.used = TRUE, !.fd = fd, !.peer = q,
                                 !.our_isn = i, !.syn_sent = TRUE, !.sid = i]
<1>3. conns' = [conns EXCEPT ![n][s] = d] /\ d.fd = fd
    BY <1>2 DEF FreeConn
<1> HIDE DEF d
<1>4. \A p \in Console, t \in Slot :
         conns'[p][t] = IF p = n /\ t = s THEN d ELSE conns[p][t]
    BY <1>3 DEF TypeOK
<1>5. /\ UNCHANGED <<owner, listenFd, nextFd, pending>> /\ n \in Joiner
      /\ openFd[n] = {} /\ openFd' = [openFd EXCEPT ![n] = @ \cup {fd}]
    BY DEF Connect
<1>6. owner[n]
    BY DEF Connect, FreeSlots
<1>7. \A t \in Slot : ~conns[n][t].used
    BY <1>5 DEF TablesInv, OwnedInv
<1>8. FdsInv'
    <2>1. fd \in Nat /\ fd < nextFd[n]
        BY FdAssumption DEF TablesInv, FdsInv, TypeOK
    <2> QED
        BY <1>5, <2>1 DEF TablesInv, FdsInv, TypeOK
<1>9. OwnedInv'
    BY <1>3, <1>4, <1>5, <1>6, <1>7 DEF TablesInv, OwnedInv, TypeOK
<1>10. DistinctInv'
    BY <1>4, <1>7 DEF TablesInv, DistinctInv
<1>11. WaitingInv'
    BY <1>4, <1>5 DEF TablesInv, WaitingInv
<1> QED
    BY <1>8, <1>9, <1>10, <1>11 DEF TablesInv

\* A SYN is answered only if its sender is in neither table.
LEMMA SynTables ==
    ASSUME TypeOK, TablesInv, NEW n \in Console, owner[n], NEW m \in net, HandleSyn(n, m)
    PROVE  TablesInv'
<1>1. PICK k \in PSlot : k = First(FreePendings(n)) /\ ~pending[n][k].used
    BY LookupTypes DEF HandleSyn, AnswersSyn
<1>2. PICK i : pending' = [pending EXCEPT ![n][k] =
                  [used |-> TRUE, peer |-> m.src, our_isn |-> i, their_isn |-> m.seq,
                   got_final_ack |-> FALSE]]
    BY <1>1 DEF HandleSyn
<1> DEFINE d == [used |-> TRUE, peer |-> m.src, our_isn |-> i, their_isn |-> m.seq,
                 got_final_ack |-> FALSE]
<1>3. pending' = [pending EXCEPT ![n][k] = d] /\ d.used /\ d.peer = m.src
    BY <1>2
<1> HIDE DEF d
<1>4. \A p \in Console, l \in PSlot :
         pending'[p][l] = IF p = n /\ l = k THEN d ELSE pending[p][l]
    BY <1>3 DEF TypeOK
<1>5. UNCHANGED <<owner, listenFd, nextFd, conns, openFd>>
    BY DEF HandleSyn
<1>6. /\ \A s \in Slot : conns[n][s].used => conns[n][s].peer # d.peer
      /\ \A l \in PSlot : pending[n][l].used => pending[n][l].peer # d.peer
    BY <1>3 DEF HandleSyn, AnswersSyn, ByPeer, PendingOf
<1>7. FdsInv' /\ OwnedInv' /\ DistinctInv'
    BY <1>5 DEF TablesInv, FdsInv, OwnedInv, DistinctInv
<1>8. WaitingInv'
    BY <1>4, <1>5, <1>6 DEF TablesInv, WaitingInv
<1> QED
    BY <1>7, <1>8 DEF TablesInv

\* Every step keeps the tables.
LEMMA NextTables ==
    ASSUME Tidy, TypeOK, TablesInv, [Next]_vars
    PROVE  TablesInv'
<1>1. CASE Quiet
    <2>1. FdsInv' /\ OwnedInv'
        BY <1>1 DEF Quiet, Kept, TablesInv, FdsInv, OwnedInv
    <2>2. DistinctInv'
        BY <1>1 DEF Quiet, Kept, TablesInv, DistinctInv
    <2>3. WaitingInv'
        BY <1>1 DEF Quiet, Kept, PendKept, TablesInv, WaitingInv
    <2> QED
        BY <2>1, <2>2, <2>3 DEF TablesInv
<1>2. ASSUME NEW n \in Console, BindControl(n) PROVE TablesInv'
    BY <1>2 DEF BindControl, TablesInv, FdsInv, OwnedInv, DistinctInv, WaitingInv, TypeOK
<1>3. ASSUME NEW n \in Console, CloseControl(n) PROVE TablesInv'
    <2>1. \A s \in Slot : ~conns[n][s].used
        BY <1>3 DEF CloseControl, Tidy, TablesInv, OwnedInv
    <2> QED
        BY <1>3, <2>1
        DEF CloseControl, TablesInv, FdsInv, OwnedInv, DistinctInv, WaitingInv, TypeOK
<1>4. ASSUME NEW n \in Console, ProcessExit(n) PROVE TablesInv'
    BY <1>4 DEF ProcessExit, Tidy
<1>5. ASSUME NEW n \in Console, NEW fd \in RealFd, Listen(n, fd) PROVE TablesInv'
    <2>1. fd \in Nat /\ fd < nextFd[n]
        BY FdAssumption DEF TablesInv, FdsInv, TypeOK
    <2>2. FdsInv'
        BY <1>5, <2>1 DEF Listen, TablesInv, FdsInv, TypeOK
    <2>3. OwnedInv'
        BY <1>5 DEF Listen, TablesInv, OwnedInv, TypeOK
    <2>4. DistinctInv' /\ WaitingInv'
        BY <1>5 DEF Listen, TablesInv, DistinctInv, WaitingInv
    <2> QED
        BY <2>2, <2>3, <2>4 DEF TablesInv
<1>6. ASSUME NEW n \in Console, Accept(n) PROVE TablesInv'
    BY <1>6, AcceptTables
<1>7. ASSUME NEW n \in Console, NEW fd \in RealFd, NEW q \in Console, Connect(n, fd, q)
      PROVE  TablesInv'
    BY <1>7, ConnectTables
<1>8. ASSUME NEW n \in Console, ConnectTimesOut(n) PROVE TablesInv'
    <2>0. /\ UNCHANGED <<owner, listenFd, nextFd, pending, openFd>>
        BY <1>8 DEF ConnectTimesOut
    <2>1. FdsInv'
        BY <2>0 DEF TablesInv, FdsInv
    <2>2. CASE ByFd(n, call[n].fd) = {}
        <3>1. conns' = conns
            BY <1>8, <2>2 DEF ConnectTimesOut
        <3> QED
            BY <2>0, <2>1, <3>1 DEF TablesInv, OwnedInv, DistinctInv, WaitingInv
    <2>3. CASE ByFd(n, call[n].fd) # {}
        <3>1. PICK s \in Slot : s = First(ByFd(n, call[n].fd))
            BY <2>3, FoundByFd
        <3>2. conns' = [conns EXCEPT ![n][s] = FreeConn]
            BY <1>8, <2>3, <3>1 DEF ConnectTimesOut
        <3> QED
            BY <2>0, <2>1, <3>2, ResetTables
    <2> QED
        BY <2>2, <2>3
<1>9. ASSUME NEW n \in Console, NEW fd \in openFd[n], CloseConn(n, fd) PROVE TablesInv'
    <2>1. PICK s \in Slot : /\ s = First(ByFd(n, fd)) /\ conns[n][s].fd = fd
                            /\ conns[n][s].used
        BY <1>9, FoundByFd DEF CloseConn
    <2>2. /\ conns' = [conns EXCEPT ![n][s] = FreeConn]
          /\ UNCHANGED <<owner, nextFd, pending>>
          /\ openFd' = [openFd EXCEPT ![n] = @ \ {conns[n][s].fd}]
        BY <1>9, <2>1 DEF CloseConn
    <2>3. FdsInv'
        BY <1>9 DEF CloseConn, TablesInv, FdsInv, TypeOK
    <2> QED
        BY <2>1, <2>2, <2>3, ResetTables
<1>10. ASSUME NEW n \in Console, NEW fd \in openFd[n], CloseOther(n, fd) PROVE TablesInv'
    <2>1. \A s \in Slot : conns[n][s].used => conns[n][s].fd # fd
        BY <1>10 DEF CloseOther, ByFd, TablesInv, OwnedInv
    <2>2. OwnedInv'
        BY <1>10, <2>1 DEF CloseOther, TablesInv, OwnedInv, TypeOK
    <2>3. FdsInv'
        BY <1>10 DEF CloseOther, TablesInv, FdsInv, TypeOK
    <2>4. DistinctInv' /\ WaitingInv'
        BY <1>10 DEF CloseOther, TablesInv, DistinctInv, WaitingInv
    <2> QED
        BY <2>2, <2>3, <2>4 DEF TablesInv
<1>11. ASSUME NEW n \in Console, owner[n], NEW m \in net, HandleSyn(n, m) PROVE TablesInv'
    BY <1>11, SynTables
<1> QED
    BY <1>1, <1>2, <1>3, <1>4, <1>5, <1>6, <1>7, <1>8, <1>9, <1>10, <1>11,
       QuietOrLoud DEF Loud

\* A console never has two connections with one peer, which is all that lets
\* FindVTcpConnByPeer hand a segment to the right one: for consoles that host or join,
\* close their control socket last and do not exit with sockets open.  The host's
\* check of both tables before it answers a SYN is what it rests on.
THEOREM PeerIsUnique ==
    ASSUME Tidy
    PROVE  Spec => []OneConnPerPeer
<1>1. TypeOK /\ TablesInv /\ [Next]_vars => TablesInv'
    BY NextTables
<1>2. TablesInv => OneConnPerPeer
    BY DEF TablesInv, DistinctInv, OneConnPerPeer
<1> QED
    BY InitTables, TypeCorrect, <1>1, <1>2, PTL DEF Spec
-----------------------------------------------------------------------------
(* Pairs of streams.                                                       *)

\* Sequence numbers that confirm what they name.
LEMMA ConfirmsUpTo ==
    ASSUME NEW r \in ISN, NEW L \in 0 .. MaxStream, NEW P, NEW F, NEW w,
           NEW D \in [ISN -> 0 .. MaxStream], Known(r, P), L <= D[r]
    PROVE  Confirms(Plus(r, L + 1), P, D, F, w)
<1>0. MaxStream \in Nat
    BY SizesAssumption
<1>1. ASSUME NEW i \in ISN, NEW k \in 0 .. MaxStream + 1, Plus(r, L + 1) = Plus(i, k + 1)
      PROVE  Known(i, P) /\ k <= D[i]
    <2>1. L + 1 \in 0 .. MaxStream + 2 /\ k + 1 \in 0 .. MaxStream + 2
        BY <1>0
    <2>2. r = i /\ L + 1 = k + 1
        BY <1>1, <2>1, WindowsDisjoint
    <2> QED
        BY <2>2
<1> QED
    BY <1>1 DEF Confirms

\* The number after a FIN.
LEMMA ConfirmsFin ==
    ASSUME NEW F \in SUBSET ISN, NEW f \in F, NEW P, NEW D,
           NEW w \in [ISN -> 0 .. MaxStream]
    PROVE  Confirms(Plus(f, w[f] + 2), P, D, F, w)
<1>0. MaxStream \in Nat /\ f \in ISN /\ w[f] \in 0 .. MaxStream
    BY SizesAssumption
<1>1. ASSUME NEW i \in ISN, NEW k \in 0 .. MaxStream + 1, Plus(f, w[f] + 2) = Plus(i, k + 1)
      PROVE  i \in F /\ k = w[i] + 1
    <2>1. w[f] + 2 \in 0 .. MaxStream + 2 /\ k + 1 \in 0 .. MaxStream + 2
        BY <1>0
    <2>2. f = i /\ w[f] + 2 = k + 1
        BY <1>0, <1>1, <2>1, WindowsDisjoint
    <2> QED
        BY <1>0, <2>2
<1> QED
    BY <1>1 DEF Confirms

\* What is said of a segment stays true while streams are drawn, offered, paired,
\* received and closed.
LEMMA SegPairMonotone ==
    ASSUME NEW m, NEW I, NEW I2, NEW O, NEW O2, NEW P, NEW P2, NEW F, NEW F2,
           NEW D \in [ISN -> 0 .. MaxStream], NEW D2 \in [ISN -> 0 .. MaxStream],
           NEW w \in [ISN -> 0 .. MaxStream], NEW w2 \in [ISN -> 0 .. MaxStream],
           I \subseteq I2, O \subseteq O2, P \subseteq P2, F \subseteq F2,
           \A x \in O2 \ O : x[2] \notin I,
           \A i \in ISN : D[i] <= D2[i], \A i \in F : w2[i] = w[i],
           SegPair(m, I, O, P, D, F, w)
    PROVE  SegPair(m, I2, O2, P2, D2, F2, w2)
<1>1. ASSUME m.kind = "ACK" PROVE Confirms(m.ack, P2, D2, F2, w2)
    <2>1. ASSUME NEW i \in ISN, NEW k \in 0 .. MaxStream + 1, m.ack = Plus(i, k + 1)
          PROVE  \/ Known(i, P2) /\ k <= D2[i]
                 \/ i \in F2 /\ k = w2[i] + 1
        <3>1. \/ Known(i, P) /\ k <= D[i]
              \/ i \in F /\ k = w[i] + 1
            BY <1>1, <2>1 DEF SegPair, Confirms
        <3>2. Known(i, P) => Known(i, P2)
            BY DEF Known
        <3>3. k <= D[i] => k <= D2[i]
            BY SizesAssumption
        <3> QED
            BY <3>1, <3>2, <3>3
    <2> QED
        BY <2>1 DEF Confirms
<1>2. m.kind = "SYN" => Opener(m.seq, I2, O2)
    BY DEF SegPair, Opener
<1>3. m.kind = "SYNACK" => \E x \in O2 : x[2] = m.seq /\ m.ack = Plus(x[1], 1)
    BY DEF SegPair
<1> QED
    BY <1>1, <1>2, <1>3 DEF SegPair

\* A step that draws, offers, pairs, receives and closes.
LEMMA PairStep ==
    ASSUME TypeOK, TypeOK', PairInv,
           isns \subseteq isns', offered \subseteq offered', paired \subseteq paired',
           finned \subseteq finned', \A i \in finned : wrote'[i] = wrote[i],
           \A i \in ISN : delivered[i] <= delivered'[i],
           \A x \in offered' \ offered : x[2] \notin isns,
           \A m \in net' \ net :
              SegPair(m, isns', offered', paired', delivered', finned', wrote'),
           PairsInv(isns, offered, paired)', ConnPairs', PendPairs', CallPairs', MadeInv',
           AckedWasDelivered'
    PROVE  PairInv'
<1>0. /\ delivered \in [ISN -> 0 .. MaxStream] /\ delivered' \in [ISN -> 0 .. MaxStream]
      /\ wrote \in [ISN -> 0 .. MaxStream] /\ wrote' \in [ISN -> 0 .. MaxStream]
    BY DEF TypeOK
<1>1. ASSUME NEW m \in net
      PROVE  SegPair(m, isns', offered', paired', delivered', finned', wrote')
    <2>1. SegPair(m, isns, offered, paired, delivered, finned, wrote)
        BY DEF PairInv, SegPairs
    <2> QED
        BY <1>0, <2>1, SegPairMonotone
<1>2. SegPairs'
    BY <1>1 DEF SegPairs
<1> QED
    BY <1>2 DEF PairInv

\* A step that only closes and writes: the pairs stay, the tables agree with them.
LEMMA TableStep ==
    ASSUME TypeOK, TypeOK', PairInv,
           UNCHANGED <<isns, offered, paired, delivered, acked>>,
           finned \subseteq finned', \A i \in finned : wrote'[i] = wrote[i],
           \A n \in Console, s \in Slot : ConnPair(conns'[n][s], paired, delivered),
           \A n \in Console, k \in PSlot :
              PendPair(pending'[n][k], offered, paired, delivered),
           \A n \in Console : call'[n].phase # "idle" =>
              call[n].phase # "idle" /\ call'[n].isn = call[n].isn,
           \A n \in Console : nextFd'[n] >= SynthBase,
           \A m \in net' \ net :
              SegPair(m, isns, offered, paired, delivered, finned', wrote')
    PROVE  PairInv'
<1>1. PairsInv(isns, offered, paired)' /\ ConnPairs' /\ PendPairs'
    BY DEF PairInv, PairsInv, ConnPairs, PendPairs
<1>2. CallPairs' /\ MadeInv' /\ AckedWasDelivered'
    BY DEF PairInv, CallPairs, MadeInv, AckedWasDelivered, Known
<1>3. \A i \in ISN : delivered[i] <= delivered'[i]
    BY DEF TypeOK
<1> QED
    BY <1>1, <1>2, <1>3, PairStep

\* A connection's record, written again.
LEMMA ConnWritten ==
    ASSUME TypeOK, PairInv, NEW n \in Console, NEW s \in Slot, NEW d,
           conns' = [conns EXCEPT ![n][s] = d], ConnPair(d, paired, delivered)
    PROVE  \A p \in Console, t \in Slot : ConnPair(conns'[p][t], paired, delivered)
BY DEF TypeOK, PairInv, ConnPairs

\* What a pair depends on.
LEMMA ConnPairSame ==
    ASSUME NEW c, NEW d, NEW P, NEW D, ConnPair(c, P, D),
           d.used = c.used, d.established = c.established, d.fd = c.fd,
           d.sid = c.sid, d.rid = c.rid, Received(d) = Received(c)
    PROVE  ConnPair(d, P, D)
BY DEF ConnPair, PairOf

\* A reset slot is in no pair.
LEMMA FreePair ==
    ASSUME NEW P, NEW D
    PROVE  ConnPair(FreeConn, P, D)
BY DEF ConnPair, FreeConn

\* The acknowledgement number of an established connection.
LEMMA TheirSeqConfirms ==
    ASSUME IInv, PairInv, NEW n \in Console, NEW s \in Slot,
           conns[n][s].used, conns[n][s].established
    PROVE  Confirms(conns[n][s].their_seq, paired, delivered, finned, wrote)
<1>1. PICK c \in VTcpConn : c = conns[n][s]
    BY DEF IInv, TypeOK
<1>2. Established(c, wrote, finned)
    BY <1>1 DEF IInv, ConnsInv, ConnInv
<1>3. PairOf(c) \in paired /\ delivered[c.rid] = Len(Received(c))
    BY <1>1 DEF PairInv, ConnPairs, ConnPair
<1>4. c.rid \in ISN /\ delivered \in [ISN -> 0 .. MaxStream]
      /\ wrote \in [ISN -> 0 .. MaxStream] /\ finned \in SUBSET ISN
    BY <1>2 DEF Established, IInv, TypeOK
<1>5. Known(c.rid, paired)
    BY <1>3 DEF PairOf, Known
<1>6. CASE c.their_seq = Plus(c.rid, Len(Received(c)) + 1)
    <2>1. PICK L \in 0 .. MaxStream : L = Len(Received(c)) /\ L = delivered[c.rid]
        BY <1>3, <1>4
    <2>2. L <= delivered[c.rid]
        BY <2>1
    <2>3. Confirms(Plus(c.rid, L + 1), paired, delivered, finned, wrote)
        BY <1>4, <1>5, <2>2, ConfirmsUpTo
    <2> QED
        BY <1>1, <1>6, <2>1, <2>3
<1>7. CASE \E i \in finned : c.their_seq = Plus(i, wrote[i] + 2)
    BY <1>1, <1>4, <1>7, ConfirmsFin
<1> QED
    BY <1>2, <1>6, <1>7 DEF Established

\* A stream has one receiver: no two connections read the same one, and no pending
\* accept stands for a connection whose stream is being read.
LEMMA OneReceiver ==
    ASSUME IInv, PairInv, NEW n \in Console, NEW s \in Slot,
           conns[n][s].used, conns[n][s].established
    PROVE  /\ \A p \in Console, t \in Slot :
                 (/\ conns[p][t].used /\ conns[p][t].established
                  /\ conns[p][t].rid = conns[n][s].rid) => p = n /\ t = s
           /\ \A p \in Console, k \in PSlot :
                 (/\ pending[p][k].used
                  /\ <<pending[p][k].their_isn, pending[p][k].our_isn>> \in paired)
                     => pending[p][k].their_isn # conns[n][s].rid
<1>0. PairsInv(isns, offered, paired) /\ PairOf(conns[n][s]) \in paired
    BY DEF PairInv, ConnPairs, ConnPair
<1>1. ASSUME NEW p \in Console, NEW t \in Slot, conns[p][t].used, conns[p][t].established,
             conns[p][t].rid = conns[n][s].rid
      PROVE  p = n /\ t = s
    <2>1. PairOf(conns[p][t]) \in paired
        BY <1>1 DEF PairInv, ConnPairs, ConnPair
    <2>2. conns[p][t].sid = conns[n][s].sid
        BY <1>0, <1>1, <2>1 DEF PairOf, PairsInv
    <2> QED
        BY <1>1, <2>2 DEF IInv, OneWriter
<1>2. ASSUME NEW p \in Console, NEW k \in PSlot, pending[p][k].used,
             <<pending[p][k].their_isn, pending[p][k].our_isn>> \in paired,
             pending[p][k].their_isn = conns[n][s].rid
      PROVE  FALSE
    <2>1. conns[n][s].sid = pending[p][k].our_isn
        BY <1>0, <1>2 DEF PairOf, PairsInv
    <2> QED
        BY <1>2, <2>1 DEF IInv, OneWriter
<1> QED
    BY <1>1, <1>2

\* There are no pairs at first.
LEMMA InitPairs == Init => PairInv
<1> SUFFICES ASSUME Init PROVE PairInv
    OBVIOUS
<1>1. /\ \A n \in Console, s \in Slot : ~conns[n][s].used
      /\ \A n \in Console, k \in PSlot : ~pending[n][k].used
    BY DEF Init, FreeConn, FreePending
<1>2. ConnPairs /\ PendPairs
    BY <1>1 DEF ConnPairs, ConnPair, PendPairs, PendPair
<1>3. PairsInv(isns, offered, paired) /\ SegPairs /\ CallPairs
    BY DEF Init, PairsInv, SegPairs, CallPairs, NoCall
<1>4. MadeInv /\ AckedWasDelivered
    BY FdAssumption DEF Init, MadeInv, AckedWasDelivered
<1> QED
    BY <1>2, <1>3, <1>4 DEF PairInv

\* Steps that leave both tables alone.
LEMMA StillPairs ==
    ASSUME IInv, IInv', PairInv, UNCHANGED <<conns, pending, nextFd>>,
           UNCHANGED <<isns, wrote, delivered, acked, offered, paired, finned>>,
           \A n \in Console : call'[n].phase # "idle" =>
              call[n].phase # "idle" /\ call'[n].isn = call[n].isn,
           \A m \in net' \ net :
              SegPair(m, isns, offered, paired, delivered, finned, wrote)
    PROVE  PairInv'
<1>1. /\ \A n \in Console, s \in Slot : ConnPair(conns'[n][s], paired, delivered)
      /\ \A n \in Console, k \in PSlot :
            PendPair(pending'[n][k], offered, paired, delivered)
      /\ \A n \in Console : nextFd'[n] >= SynthBase
    BY DEF PairInv, ConnPairs, PendPairs, MadeInv
<1>2. TypeOK /\ TypeOK'
    BY DEF IInv
<1>3. \A m \in net' \ net :
         SegPair(m, isns, offered, paired, delivered, finned', wrote')
    OBVIOUS
<1>4. /\ finned \subseteq finned' /\ \A i \in finned : wrote'[i] = wrote[i]
      /\ UNCHANGED <<isns, offered, paired, delivered, acked>>
    OBVIOUS
<1> QED
    BY <1>1, <1>2, <1>3, <1>4, TableStep

\* The control socket, the listener, the polls of Connect and the loss of a segment.
LEMMA StillStepsPairs ==
    ASSUME IInv, IInv', PairInv, NEW n \in Console,
           \/ BindControl(n) \/ CloseControl(n) \/ ProcessExit(n)
           \/ \E fd \in RealFd : Listen(n, fd)
           \/ \E fd \in openFd[n] : CloseOther(n, fd)
           \/ ConnectReturns(n) \/ ConnectPollFails(n)
           \/ \E m \in net : Lose(m)
    PROVE  PairInv'
<1>1. /\ UNCHANGED <<conns, pending, nextFd>>
      /\ UNCHANGED <<isns, wrote, delivered, acked, offered, paired, finned>>
    BY DEF BindControl, CloseControl, ProcessExit, Listen, CloseOther, ConnectReturns,
           ConnectPollFails, Lose, history
<1>2. net' \subseteq net
    BY DEF BindControl, CloseControl, ProcessExit, Listen, CloseOther, ConnectReturns,
           ConnectPollFails, Lose, history
<1>3. \A p \in Console : call'[p].phase # "idle" =>
         call[p].phase # "idle" /\ call'[p].isn = call[p].isn
    <2>1. CASE ConnectReturns(n)
        BY <2>1 DEF ConnectReturns, IInv, TypeOK, NoCall
    <2>2. CASE ConnectPollFails(n)
        BY <2>2 DEF ConnectPollFails, IInv, TypeOK, Call
    <2>3. CASE call' = call
        BY <2>3
    <2> QED
        BY <2>1, <2>2, <2>3 DEF BindControl, CloseControl, ProcessExit, Listen, CloseOther, Lose
<1> QED
    BY <1>1, <1>2, <1>3, StillPairs

\* An RST and a repeated SYN carry nothing new.
LEMMA SendingPairs ==
    ASSUME IInv, IInv', PairInv, NEW n \in Console,
           ConnectRetries(n) \/ \E p \in Console : PeerResets(p, n)
    PROVE  PairInv'
<1>1. /\ UNCHANGED <<conns, pending, nextFd>>
      /\ UNCHANGED <<isns, wrote, delivered, acked, offered, paired, finned>>
    BY DEF ConnectRetries, PeerResets, history
<1>2. \A p \in Console : call'[p].phase # "idle" =>
         call[p].phase # "idle" /\ call'[p].isn = call[p].isn
    <2>1. CASE ConnectRetries(n)
        BY <2>1 DEF ConnectRetries, NextAttempt, IInv, TypeOK, Call
    <2> QED
        BY <2>1 DEF PeerResets
<1>3. \A m \in net' \ net :
         SegPair(m, isns, offered, paired, delivered, finned, wrote)
    <2>1. CASE ConnectRetries(n)
        <3>1. Opener(call[n].isn, isns, offered)
            BY <2>1 DEF ConnectRetries, PairInv, CallPairs
        <3> QED
            BY <2>1, <3>1 DEF ConnectRetries, Seg, SegPair
    <2>2. ASSUME NEW p \in Console, PeerResets(p, n)
          PROVE  \A m \in net' \ net :
                    SegPair(m, isns, offered, paired, delivered, finned, wrote)
        BY <2>2 DEF PeerResets, Seg, SegPair
    <2> QED
        BY <2>1, <2>2
<1> QED
    BY <1>1, <1>2, <1>3, StillPairs

\* Steps that write one connection's record again and send at most a bare ACK.
LEMMA OneConnPairs ==
    ASSUME IInv, IInv', PairInv, NEW n \in Console, NEW s \in Slot, NEW d,
           conns' = [conns EXCEPT ![n][s] = d], ConnPair(d, paired, delivered),
           UNCHANGED <<pending, nextFd>>, call' = call \/ call' = [call EXCEPT ![n] = NoCall],
           UNCHANGED <<isns, delivered, acked, offered, paired>>,
           finned \subseteq finned', \A i \in finned : wrote'[i] = wrote[i],
           \A m \in net' \ net :
              SegPair(m, isns, offered, paired, delivered, finned', wrote')
    PROVE  PairInv'
<1>1. \A p \in Console, t \in Slot : ConnPair(conns'[p][t], paired, delivered)
    BY ConnWritten DEF IInv
<1>2. /\ \A p \in Console, k \in PSlot :
            PendPair(pending'[p][k], offered, paired, delivered)
      /\ \A p \in Console : nextFd'[p] >= SynthBase
    BY DEF PairInv, PendPairs, MadeInv
<1>3. \A p \in Console : call'[p].phase # "idle" =>
         call[p].phase # "idle" /\ call'[p].isn = call[p].isn
    BY DEF IInv, TypeOK, NoCall
<1>4. TypeOK /\ TypeOK'
    BY DEF IInv
<1> QED
    BY <1>1, <1>2, <1>3, <1>4, TableStep

\* A timeout resets the slot, established or not.
LEMMA ConnectTimesOutPairs ==
    ASSUME IInv, IInv', PairInv, NEW n \in Console, ConnectTimesOut(n)
    PROVE  PairInv'
<1>0. /\ UNCHANGED <<pending, nextFd, net>> /\ call' = [call EXCEPT ![n] = NoCall]
      /\ UNCHANGED <<isns, wrote, delivered, acked, offered, paired, finned>>
    BY DEF ConnectTimesOut, history
<1>1. CASE ByFd(n, call[n].fd) = {}
    <2>1. conns' = conns
        BY <1>1 DEF ConnectTimesOut
    <2>2. \A p \in Console : call'[p].phase # "idle" =>
             call[p].phase # "idle" /\ call'[p].isn = call[p].isn
        BY <1>0 DEF IInv, TypeOK, NoCall
    <2> QED
        BY <1>0, <2>1, <2>2, StillPairs
<1>2. CASE ByFd(n, call[n].fd) # {}
    <2>1. PICK s \in Slot : s = First(ByFd(n, call[n].fd))
        BY <1>2, FoundByFd DEF IInv
    <2>2. conns' = [conns EXCEPT ![n][s] = FreeConn]
        BY <1>2, <2>1 DEF ConnectTimesOut
    <2> QED
        BY <1>0, <2>2, FreePair, OneConnPairs
<1> QED
    BY <1>1, <1>2

\* Close resets the slot and sends a FIN.
LEMMA CloseConnPairs ==
    ASSUME IInv, IInv', PairInv, NEW n \in Console, NEW fd \in openFd[n], CloseConn(n, fd)
    PROVE  PairInv'
<1>1. PICK s \in Slot : s = First(ByFd(n, fd))
    BY FoundByFd DEF IInv, CloseConn
<1>2. /\ conns' = [conns EXCEPT ![n][s] = FreeConn]
      /\ UNCHANGED <<pending, nextFd, call>>
      /\ UNCHANGED <<isns, wrote, delivered, acked, offered, paired>>
      /\ finned \subseteq finned'
    BY <1>1 DEF CloseConn
<1>3. \A m \in net' \ net : m.kind = "FIN"
    BY DEF CloseConn, Seg
<1>4. \A m \in net' \ net :
         SegPair(m, isns, offered, paired, delivered, finned', wrote')
    BY <1>3 DEF SegPair
<1> QED
    BY <1>2, <1>4, FreePair, OneConnPairs

\* What the reader does to a connection.
LEMMA ReadPairs ==
    ASSUME IInv, IInv', PairInv, NEW n \in Console, NEW fd \in openFd[n],
           \/ \E size \in ReadSizes : RecvFrom(n, fd, size)
           \/ RecvEof(n, fd)
    PROVE  PairInv'
<1>1. PICK s \in Slot : s = First(ByFd(n, fd))
    BY FoundByFd DEF IInv, RecvFrom, RecvEof
<1>2. PICK c \in VTcpConn : c = conns[n][s] /\ ConnPair(c, paired, delivered)
    BY DEF IInv, TypeOK, PairInv, ConnPairs
<1>3. /\ UNCHANGED <<pending, nextFd, call, net>>
      /\ UNCHANGED <<isns, wrote, delivered, acked, offered, paired, finned>>
    BY DEF RecvFrom, RecvEof, history
<1>4. ASSUME NEW size \in ReadSizes, RecvFrom(n, fd, size) PROVE PairInv'
    <2> DEFINE deliver == IF Len(c.inbox) > size THEN size ELSE Len(c.inbox)
               d == [c EXCEPT !.read = @ \o SubSeq(c.inbox, 1, deliver),
                              !.inbox = SubSeq(c.inbox, deliver + 1, Len(c.inbox))]
    <2>1. conns' = [conns EXCEPT ![n][s] = d] /\ c.inbox # << >>
        BY <1>1, <1>2, <1>4 DEF RecvFrom
    <2>2. c.inbox \in Seq(Byte) /\ c.read \in Seq(Byte) /\ Len(c.inbox) \in Nat \ {0}
        BY <2>1 DEF VTcpConn
    <2>3. deliver \in 1 .. Len(c.inbox)
        BY <2>2, SizesAssumption
    <2> HIDE DEF deliver
    <2>4. (c.read \o SubSeq(c.inbox, 1, deliver)) \o SubSeq(c.inbox, deliver + 1, Len(c.inbox))
             = c.read \o c.inbox
        BY <2>2, <2>3, SplitInbox
    <2>5. /\ d.used = c.used /\ d.established = c.established /\ d.fd = c.fd
          /\ d.sid = c.sid /\ d.rid = c.rid
          /\ d.read = c.read \o SubSeq(c.inbox, 1, deliver)
          /\ d.inbox = SubSeq(c.inbox, deliver + 1, Len(c.inbox))
        BY DEF VTcpConn
    <2> HIDE DEF d
    <2>6. Received(d) = Received(c)
        BY <2>4, <2>5, Zenon DEF Received
    <2>7. ConnPair(d, paired, delivered)
        BY <1>2, <2>5, <2>6, ConnPairSame
    <2> QED
        BY <1>3, <2>1, <2>7, OneConnPairs
<1>5. CASE RecvEof(n, fd)
    <2> DEFINE d == [c EXCEPT !.eof = TRUE]
    <2>1. conns' = [conns EXCEPT ![n][s] = d]
        BY <1>1, <1>2, <1>5 DEF RecvEof, IInv, TypeOK
    <2>2. /\ d.used = c.used /\ d.established = c.established /\ d.fd = c.fd
          /\ d.sid = c.sid /\ d.rid = c.rid /\ Received(d) = Received(c)
        BY DEF VTcpConn, Received
    <2> HIDE DEF d
    <2>3. ConnPair(d, paired, delivered)
        BY <1>2, <2>2, ConnPairSame
    <2> QED
        BY <1>3, <2>1, <2>3, OneConnPairs
<1> QED
    BY <1>4, <1>5

\* SendTo acknowledges what was received.
LEMMA SendToPairs ==
    ASSUME IInv, IInv', PairInv, NEW n \in Console, NEW fd \in openFd[n],
           NEW len \in SendSizes, SendTo(n, fd, len)
    PROVE  PairInv'
<1>1. PICK s \in Slot : s = First(ByFd(n, fd)) /\ conns[n][s].used
    BY FoundByFd DEF IInv, SendTo
<1>2. PICK c \in VTcpConn : c = conns[n][s] /\ ConnPair(c, paired, delivered)
    BY DEF IInv, TypeOK, PairInv, ConnPairs
<1>3. PICK x : /\ net' = net \cup {Seg("ACK", n, c.peer, c.our_seq, c.their_seq, x)}
               /\ conns' = [conns EXCEPT ![n][s] = Sent(c, x)]
               /\ wrote' = [wrote EXCEPT ![c.sid] = @ + len]
    BY <1>1, <1>2 DEF SendTo
<1>4. /\ UNCHANGED <<pending, nextFd, call>> /\ c.established /\ c.used
      /\ UNCHANGED <<isns, delivered, acked, offered, paired, finned>>
    BY <1>1, <1>2 DEF SendTo
<1>5. Confirms(c.their_seq, paired, delivered, finned, wrote)
    BY <1>2, <1>4, TheirSeqConfirms
<1>6. c.sid \notin finned
    BY <1>1, <1>2 DEF IInv, ConnsInv, ConnInv
<1>7. \A i \in finned : wrote'[i] = wrote[i]
    BY <1>3, <1>6 DEF IInv, TypeOK
<1>8. Confirms(c.their_seq, paired, delivered, finned, wrote')
    BY <1>5, <1>7 DEF Confirms
<1>9. \A m \in net' \ net :
         SegPair(m, isns, offered, paired, delivered, finned', wrote')
    BY <1>3, <1>4, <1>8 DEF Seg, SegPair
<1> DEFINE d == Sent(c, x)
<1>10. /\ d.used = c.used /\ d.established = c.established /\ d.fd = c.fd
       /\ d.sid = c.sid /\ d.rid = c.rid /\ Received(d) = Received(c)
    BY DEF Sent, VTcpConn, Received
<1>11. conns' = [conns EXCEPT ![n][s] = d]
    BY <1>3
<1> HIDE DEF d
<1>12. ConnPair(d, paired, delivered)
    BY <1>2, <1>10, ConnPairSame
<1> QED
    BY <1>4, <1>7, <1>9, <1>11, <1>12, OneConnPairs

\* A segment sent again acknowledges what has been received by now.
LEMMA CheckDataRetransmitsPairs ==
    ASSUME IInv, IInv', PairInv, NEW n \in Console, NEW s \in Slot,
           CheckDataRetransmits(n, s)
    PROVE  PairInv'
<1>1. PICK c \in VTcpConn : c = conns[n][s] /\ ConnPair(c, paired, delivered)
    BY DEF IInv, TypeOK, PairInv, ConnPairs
<1>2. /\ UNCHANGED <<pending, nextFd, call>> /\ c.established /\ c.used
      /\ UNCHANGED <<isns, wrote, delivered, acked, offered, paired, finned>>
    BY <1>1 DEF CheckDataRetransmits, history
<1>3. Confirms(c.their_seq, paired, delivered, finned, wrote)
    BY <1>1, <1>2, TheirSeqConfirms
<1>4. \A m \in net' \ net :
         SegPair(m, isns, offered, paired, delivered, finned', wrote')
    BY <1>1, <1>2, <1>3 DEF CheckDataRetransmits, Resent, Seg, SegPair
<1> DEFINE d == [c EXCEPT !.unacked = << >>]
           e == [c EXCEPT !.retransmits = @ + 1]
<1>5. conns' = [conns EXCEPT ![n][s] = d] \/ conns' = [conns EXCEPT ![n][s] = e]
    BY <1>1 DEF CheckDataRetransmits, Counted, IInv, TypeOK
<1>6. /\ d.used = c.used /\ d.established = c.established /\ d.fd = c.fd
      /\ d.sid = c.sid /\ d.rid = c.rid /\ Received(d) = Received(c)
    BY DEF VTcpConn, Received
<1>7. /\ e.used = c.used /\ e.established = c.established /\ e.fd = c.fd
      /\ e.sid = c.sid /\ e.rid = c.rid /\ Received(e) = Received(c)
    BY DEF VTcpConn, Received
<1> HIDE DEF d, e
<1>8. ConnPair(d, paired, delivered)
    BY <1>1, <1>6, ConnPairSame
<1>9. ConnPair(e, paired, delivered)
    BY <1>1, <1>7, ConnPairSame
<1>10. CASE conns' = [conns EXCEPT ![n][s] = d]
    BY <1>2, <1>4, <1>8, <1>10, OneConnPairs
<1>11. CASE conns' = [conns EXCEPT ![n][s] = e]
    BY <1>2, <1>4, <1>9, <1>11, OneConnPairs
<1> QED
    BY <1>5, <1>10, <1>11

\* An RST only marks the connection.
LEMMA HandleRstPairs ==
    ASSUME IInv, IInv', PairInv, NEW n \in Console, NEW m \in net, HandleRst(n, m)
    PROVE  PairInv'
<1>1. PICK s \in Slot : s = First(ByPeer(n, m.src))
    BY LookupTypes DEF IInv, HandleRst
<1>2. PICK c \in VTcpConn : c = conns[n][s] /\ ConnPair(c, paired, delivered)
    BY DEF IInv, TypeOK, PairInv, ConnPairs
<1>3. /\ UNCHANGED <<pending, nextFd, call, net>>
      /\ UNCHANGED <<isns, wrote, delivered, acked, offered, paired, finned>>
    BY DEF HandleRst, history
<1> DEFINE d == [c EXCEPT !.peer_closed = TRUE]
<1>4. conns' = [conns EXCEPT ![n][s] = d]
    BY <1>1, <1>2 DEF HandleRst, IInv, TypeOK
<1>5. /\ d.used = c.used /\ d.established = c.established /\ d.fd = c.fd
      /\ d.sid = c.sid /\ d.rid = c.rid /\ Received(d) = Received(c)
    BY DEF VTcpConn, Received
<1> HIDE DEF d
<1>6. ConnPair(d, paired, delivered)
    BY <1>2, <1>5, ConnPairSame
<1> QED
    BY <1>3, <1>4, <1>6, OneConnPairs

\* The ACK of a FIN confirms the FIN.
LEMMA HandleFinPairs ==
    ASSUME IInv, IInv', PairInv, NEW n \in Console, NEW m \in net, HandleFin(n, m)
    PROVE  PairInv'
<1>1. PICK s \in Slot : s = First(ByPeer(n, m.src))
    BY LookupTypes DEF IInv, HandleFin
<1>2. PICK c \in VTcpConn : c = conns[n][s] /\ ConnPair(c, paired, delivered)
    BY DEF IInv, TypeOK, PairInv, ConnPairs
<1>3. /\ UNCHANGED <<pending, nextFd, call>>
      /\ UNCHANGED <<isns, wrote, delivered, acked, offered, paired, finned>>
    BY DEF HandleFin, history
<1>4. PICK i \in finned : m.seq = Plus(i, wrote[i] + 1)
    BY DEF HandleFin, IInv, SegsInv, SegInv
<1>5. Plus(m.seq, 1) = Plus(i, wrote[i] + 2)
    <2>1. PICK w \in Nat : w = wrote[i]
        BY DEF IInv, TypeOK
    <2>2. i \in Nat /\ w + 1 \in Nat
        BY IsnType DEF IInv, TypeOK
    <2>3. Plus(Plus(i, w + 1), 1) = Plus(i, (w + 1) + 1)
        BY <2>2, PlusPlus
    <2>4. (w + 1) + 1 = w + 2
        OBVIOUS
    <2> QED
        BY <1>4, <2>1, <2>3, <2>4
<1>6. Confirms(Plus(m.seq, 1), paired, delivered, finned, wrote)
    BY <1>5, ConfirmsFin DEF IInv, TypeOK
<1> DEFINE d == [c EXCEPT !.peer_closed = TRUE, !.their_seq = Plus(m.seq, 1)]
<1>7. conns' = [conns EXCEPT ![n][s] = d] /\ net' = net \cup {AckOf(n, d)}
    BY <1>1, <1>2 DEF HandleFin
<1>8. /\ d.used = c.used /\ d.established = c.established /\ d.fd = c.fd
      /\ d.sid = c.sid /\ d.rid = c.rid /\ Received(d) = Received(c)
      /\ d.their_seq = Plus(m.seq, 1)
    BY DEF VTcpConn, Received
<1> HIDE DEF d
<1>9. ConnPair(d, paired, delivered)
    BY <1>2, <1>8, ConnPairSame
<1>10. \A g \in net' \ net :
         SegPair(g, isns, offered, paired, delivered, finned', wrote')
    BY <1>3, <1>6, <1>7, <1>8 DEF AckOf, Seg, SegPair
<1> QED
    BY <1>3, <1>7, <1>9, <1>10, OneConnPairs

\* A fresh number is in no pair.
LEMMA FreshPair ==
    ASSUME IInv, PairInv, NEW i \in RandomIsn
    PROVE  /\ i \in ISN /\ i \notin isns
           /\ \A x \in offered : x[1] # i /\ x[2] # i
           /\ paired \subseteq offered
BY FreshIsn DEF PairInv, PairsInv

\* Connect draws the first stream of a pair to come.
LEMMA ConnectPairs ==
    ASSUME IInv, IInv', PairInv, NEW n \in Console, NEW fd \in RealFd, NEW p \in Console,
           Connect(n, fd, p)
    PROVE  PairInv'
<1>1. PICK s \in Slot : s = First(FreeSlots(n))
    BY LookupTypes DEF IInv, Connect
<1>2. PICK i \in RandomIsn :
        /\ isns' = isns \cup {i}
        /\ conns' = [conns EXCEPT ![n][s] =
              [FreeConn EXCEPT !.used = TRUE, !.fd = fd, !.peer = p,
                               !.our_isn = i, !.syn_sent = TRUE, !.sid = i]]
        /\ call' = [call EXCEPT ![n] = [phase |-> "wait", fd |-> fd, dst |-> p,
                                        isn |-> i, attempt |-> 1]]
        /\ net' = net \cup {Seg("SYN", n, p, i, 0, << >>)}
    BY <1>1 DEF Connect
<1>3. UNCHANGED <<nextFd, pending, wrote, delivered, acked, offered, paired, finned>>
    BY DEF Connect
<1>4. /\ i \in ISN /\ i \notin isns /\ \A x \in offered : x[1] # i /\ x[2] # i
      /\ paired \subseteq offered
    BY FreshPair
<1>5. Opener(i, isns', offered)
    BY <1>2, <1>4 DEF Opener
<1> DEFINE d == [FreeConn EXCEPT !.used = TRUE, !.fd = fd, !.peer = p,
                                 !.our_isn = i, !.syn_sent = TRUE, !.sid = i]
<1>6. /\ conns' = [conns EXCEPT ![n][s] = d]
      /\ ~d.established /\ d.fd = fd /\ d.sid = i
    BY <1>2 DEF FreeConn
<1> HIDE DEF d
<1>7. ConnPair(d, paired, delivered)
    <2>1. fd < SynthBase
        BY FdAssumption
    <2> QED
        BY <1>4, <1>6, <2>1 DEF ConnPair
<1>8. ConnPairs'
    BY <1>3, <1>6, <1>7, ConnWritten DEF ConnPairs, IInv
<1>9. PendPairs' /\ MadeInv' /\ AckedWasDelivered'
    BY <1>3 DEF PairInv, PendPairs, MadeInv, AckedWasDelivered
<1>10. PairsInv(isns, offered, paired)'
    BY <1>2, <1>3 DEF PairInv, PairsInv
<1>11. CallPairs'
    <2>1. ASSUME NEW o \in Console, o # n, call[o].phase # "idle"
          PROVE  Opener(call[o].isn, isns', offered)
        BY <1>2, <2>1 DEF PairInv, CallPairs, Opener
    <2>2. /\ \A o \in Console : o # n => call'[o] = call[o]
          /\ call'[n].isn = i
        BY <1>2 DEF IInv, TypeOK
    <2> QED
        BY <1>3, <1>5, <2>1, <2>2 DEF CallPairs
<1>12. \A m \in net' \ net :
          SegPair(m, isns', offered', paired', delivered', finned', wrote')
    BY <1>2, <1>3, <1>5 DEF Seg, SegPair
<1>13. \A j \in ISN : delivered[j] <= delivered'[j]
    BY <1>3 DEF IInv, TypeOK
<1>14. /\ isns \subseteq isns' /\ offered \subseteq offered' /\ paired \subseteq paired'
       /\ finned \subseteq finned' /\ \A j \in finned : wrote'[j] = wrote[j]
       /\ \A x \in offered' \ offered : x[2] \notin isns
    BY <1>2, <1>3
<1>15. TypeOK /\ TypeOK'
    BY DEF IInv
<1> QED
    BY <1>8, <1>9, <1>10, <1>11, <1>12, <1>13, <1>14, <1>15, PairStep

\* The answer to a SYN offers a stream of its own to the one that asked.
LEMMA HandleSynPairs ==
    ASSUME IInv, IInv', PairInv, NEW n \in Console, NEW m \in net, HandleSyn(n, m)
    PROVE  PairInv'
<1>1. PICK k \in PSlot : k = First(FreePendings(n))
    BY LookupTypes DEF IInv, HandleSyn, AnswersSyn
<1>2. PICK i \in RandomIsn :
        /\ isns' = isns \cup {i}
        /\ pending' = [pending EXCEPT ![n][k] =
              [used |-> TRUE, peer |-> m.src, our_isn |-> i, their_isn |-> m.seq,
               got_final_ack |-> FALSE]]
        /\ net' = net \cup {Seg("SYNACK", n, m.src, i, Plus(m.seq, 1), << >>)}
        /\ offered' = offered \cup {<<m.seq, i>>}
    BY <1>1 DEF HandleSyn
<1>3. UNCHANGED <<nextFd, conns, call, wrote, delivered, acked, paired, finned>>
    BY DEF HandleSyn
<1>4. /\ i \in ISN /\ i \notin isns /\ \A x \in offered : x[1] # i /\ x[2] # i
      /\ paired \subseteq offered
    BY FreshPair
<1>5. m.seq \in isns /\ \A x \in offered : x[2] # m.seq
    BY DEF HandleSyn, PairInv, SegPairs, SegPair, Opener
<1>6. PairsInv(isns, offered, paired)'
    <2>1. paired' \subseteq offered' /\ \A x \in offered' : x[1] \in isns' /\ x[2] \in isns'
        BY <1>2, <1>3, <1>4, <1>5 DEF PairInv, PairsInv
    <2>2. \A x, y \in offered' : x[1] # y[2]
        BY <1>2, <1>4, <1>5 DEF PairInv, PairsInv
    <2>3. \A x, y \in offered' : x[2] = y[2] => x = y
        BY <1>2, <1>4 DEF PairInv, PairsInv
    <2>4. \A x, y \in paired' : x[1] = y[1] => x = y
        BY <1>3 DEF PairInv, PairsInv
    <2> QED
        BY <2>1, <2>2, <2>3, <2>4 DEF PairsInv
<1>7. ConnPairs' /\ MadeInv' /\ AckedWasDelivered'
    BY <1>3 DEF PairInv, ConnPairs, MadeInv, AckedWasDelivered
<1>8. CallPairs'
    BY <1>2, <1>3, <1>4 DEF PairInv, CallPairs, Opener
<1> DEFINE q == [used |-> TRUE, peer |-> m.src, our_isn |-> i, their_isn |-> m.seq,
                 got_final_ack |-> FALSE]
<1>9. PendPair(q, offered', paired, delivered)
    BY <1>2, <1>4 DEF PendPair
<1>10. \A o \in Console, j \in PSlot :
          pending'[o][j] = IF o = n /\ j = k THEN q ELSE pending[o][j]
    BY <1>2 DEF IInv, TypeOK
<1> HIDE DEF q
<1>11. PendPairs'
    <2>1. ASSUME NEW o \in Console, NEW j \in PSlot
          PROVE  PendPair(pending[o][j], offered', paired, delivered)
        BY <1>2 DEF PairInv, PendPairs, PendPair
    <2> QED
        BY <1>3, <1>9, <1>10, <2>1 DEF PendPairs
<1>12. \A g \in net' \ net :
          SegPair(g, isns', offered', paired', delivered', finned', wrote')
    <2>1. /\ <<m.seq, i>> \in offered'
          /\ <<m.seq, i>>[1] = m.seq /\ <<m.seq, i>>[2] = i
        BY <1>2
    <2>2. \E x \in offered' : x[2] = i /\ Plus(m.seq, 1) = Plus(x[1], 1)
        BY <2>1, Zenon
    <2> QED
        BY <1>2, <2>2 DEF Seg, SegPair
<1>13. \A j \in ISN : delivered[j] <= delivered'[j]
    BY <1>3 DEF IInv, TypeOK
<1>14. /\ isns \subseteq isns' /\ offered \subseteq offered' /\ paired \subseteq paired'
       /\ finned \subseteq finned' /\ \A j \in finned : wrote'[j] = wrote[j]
       /\ \A x \in offered' \ offered : x[2] \notin isns
    BY <1>2, <1>3, <1>4
<1>15. TypeOK /\ TypeOK'
    BY DEF IInv
<1> QED
    BY <1>6, <1>7, <1>8, <1>11, <1>12, <1>13, <1>14, <1>15, PairStep

\* The final ACK can only come from a joiner that accepted this very offer: the
\* acknowledgement number names a stream that is in a pair.
LEMMA HandleFinalAckPairs ==
    ASSUME IInv, IInv', PairInv, NEW n \in Console, NEW m \in net, HandleFinalAck(n, m)
    PROVE  PairInv'
<1>1. Completed(n, m.src, m.ack) \in SUBSET Nat /\ Completed(n, m.src, m.ack) # {}
    BY SlotFacts DEF HandleFinalAck, Completed, PendingOf
<1>2. First(Completed(n, m.src, m.ack)) \in Completed(n, m.src, m.ack)
    BY <1>1, FirstInSet
<1>3. PICK k \in PSlot :
          /\ k = First(Completed(n, m.src, m.ack)) /\ pending[n][k].used
          /\ m.ack = Plus(pending[n][k].our_isn, 1)
    BY <1>2 DEF Completed, PendingOf
<1>4. PICK p \in PendingAccept : p = pending[n][k]
    BY DEF IInv, TypeOK
<1>5. /\ UNCHANGED <<nextFd, conns, call, net>>
      /\ UNCHANGED <<isns, wrote, delivered, acked, offered, paired, finned>>
    BY DEF HandleFinalAck, history
<1> DEFINE q == [p EXCEPT !.got_final_ack = TRUE]
<1>6. pending' = [pending EXCEPT ![n][k] = q]
    BY <1>3, <1>4 DEF HandleFinalAck, IInv, TypeOK
<1>7. q.used = p.used /\ q.our_isn = p.our_isn /\ q.their_isn = p.their_isn
    BY DEF PendingAccept
<1> HIDE DEF q
<1>8. PendPair(p, offered, paired, delivered) /\ <<p.their_isn, p.our_isn>> \in offered
    BY <1>3, <1>4 DEF PairInv, PendPairs, PendPair
<1>9. p.our_isn \in ISN
    BY <1>3, <1>4 DEF IInv, TypeOK, PendsInv, PendInv
<1>10. Confirms(m.ack, paired, delivered, finned, wrote)
    BY DEF HandleFinalAck, PairInv, SegPairs, SegPair
<1>11. Known(p.our_isn, paired)
    <2>1. 0 \in 0 .. MaxStream + 1 /\ 0 + 1 = 1
        BY SizesAssumption
    <2>2. m.ack = Plus(p.our_isn, 0 + 1)
        BY <1>3, <1>4, <2>1
    <2>3. \/ Known(p.our_isn, paired)
          \/ p.our_isn \in finned /\ 0 = wrote[p.our_isn] + 1
        BY <1>9, <1>10, <2>1, <2>2 DEF Confirms
    <2>4. wrote[p.our_isn] + 1 # 0
        BY <1>9, SizesAssumption DEF IInv, TypeOK
    <2> QED
        BY <2>3, <2>4
<1>12. <<p.their_isn, p.our_isn>> \in paired
    <2>1. PICK x \in paired : x[1] = p.our_isn \/ x[2] = p.our_isn
        BY <1>11 DEF Known
    <2>2. x \in offered
        BY DEF PairInv, PairsInv
    <2>3. x[1] # p.our_isn
        BY <1>8, <2>2 DEF PairInv, PairsInv
    <2>4. x = <<p.their_isn, p.our_isn>>
        BY <1>8, <2>1, <2>2, <2>3 DEF PairInv, PairsInv
    <2> QED
        BY <2>4
<1>13. PendPair(q, offered, paired, delivered)
    BY <1>3, <1>4, <1>7, <1>8, <1>12 DEF PendPair
<1>14. \A o \in Console, j \in PSlot : PendPair(pending'[o][j], offered, paired, delivered)
    BY <1>6, <1>13 DEF IInv, TypeOK, PairInv, PendPairs
<1>15. /\ \A o \in Console, s \in Slot : ConnPair(conns'[o][s], paired, delivered)
       /\ \A o \in Console : nextFd'[o] >= SynthBase
    BY <1>5 DEF PairInv, ConnPairs, MadeInv
<1>16. TypeOK /\ TypeOK'
    BY DEF IInv
<1> QED
    BY <1>5, <1>14, <1>15, <1>16, TableStep

\* Accept hands out a pair nothing of which was received yet.
LEMMA AcceptPairs ==
    ASSUME IInv, IInv', PairInv, NEW n \in Console, Accept(n)
    PROVE  PairInv'
<1>0. TypeOK /\ TypeOK'
    BY DEF IInv
<1>1. PICK k \in PSlot, s \in Slot, d \in VTcpConn :
          /\ pending[n][k].used /\ pending[n][k].got_final_ack
          /\ pending' = [pending EXCEPT ![n][k].used = FALSE]
          /\ conns' = [conns EXCEPT ![n][s] = d]
          /\ d.used /\ d.established /\ d.fd = nextFd[n]
          /\ d.sid = pending[n][k].our_isn /\ d.rid = pending[n][k].their_isn
          /\ d.read = << >> /\ d.inbox = << >>
    BY <1>0, AcceptEffect
<1>2. /\ UNCHANGED <<call, net>> /\ nextFd' = [nextFd EXCEPT ![n] = @ + 1]
      /\ UNCHANGED <<isns, wrote, delivered, acked, offered, paired, finned>>
    BY DEF Accept, history
<1>3. <<d.rid, d.sid>> \in paired /\ delivered[d.rid] = 0
    BY <1>1 DEF PairInv, PendPairs, PendPair
<1>4. Len(Received(d)) = 0
    BY <1>1 DEF Received
<1>5. nextFd[n] >= SynthBase
    BY DEF PairInv, MadeInv
<1>6. ConnPair(d, paired, delivered)
    BY <1>1, <1>3, <1>4, <1>5 DEF ConnPair, PairOf
<1>7. \A o \in Console, t \in Slot : ConnPair(conns'[o][t], paired, delivered)
    BY <1>0, <1>1, <1>6, ConnWritten
<1>8. \A o \in Console, j \in PSlot : PendPair(pending'[o][j], offered, paired, delivered)
    <2>1. ASSUME NEW o \in Console, NEW j \in PSlot
          PROVE  pending'[o][j].used => pending'[o][j] = pending[o][j]
        BY <1>0, <1>1 DEF TypeOK, PendingAccept
    <2> QED
        BY <2>1 DEF PairInv, PendPairs, PendPair
<1>9. \A o \in Console : nextFd'[o] >= SynthBase
    BY <1>2, FdAssumption DEF IInv, TypeOK, PairInv, MadeInv
<1> QED
    BY <1>0, <1>2, <1>7, <1>8, <1>9, TableStep

\* The SYN-ACK that establishes a connection answers its own SYN, and neither of the
\* two streams was in a pair before.
LEMMA HandleSynAckPairs ==
    ASSUME IInv, IInv', PairInv, NEW n \in Console, NEW m \in net, HandleSynAck(n, m)
    PROVE  PairInv'
<1>0. TypeOK /\ TypeOK'
    BY DEF IInv
<1>1. PICK s \in Slot : s = First(ByPeer(n, m.src)) /\ conns[n][s].used
    BY <1>0, LookupTypes DEF HandleSynAck
<1>2. PICK c \in VTcpConn : c = conns[n][s] /\ ConnPair(c, paired, delivered)
    BY DEF IInv, TypeOK, PairInv, ConnPairs
<1> DEFINE d == [c EXCEPT !.their_seq = Plus(m.seq, 1), !.our_seq = Plus(c.our_isn, 1),
                          !.syn_sent = FALSE, !.established = TRUE, !.rid = m.seq]
<1>3. /\ conns' = [conns EXCEPT ![n][s] = d] /\ net' = net \cup {AckOf(n, d)}
      /\ paired' = paired \cup {<<c.our_isn, m.seq>>}
      /\ c.syn_sent /\ m.ack = Plus(c.our_isn, 1)
    BY <1>1, <1>2 DEF HandleSynAck, IsOurSynAck
<1>4. /\ UNCHANGED <<nextFd, pending, call>>
      /\ UNCHANGED <<isns, wrote, delivered, acked, offered, finned>>
    BY DEF HandleSynAck
<1>5. /\ d.used = c.used /\ d.established /\ d.fd = c.fd /\ d.sid = c.sid /\ d.rid = m.seq
      /\ d.read = c.read /\ d.inbox = c.inbox /\ d.their_seq = Plus(m.seq, 1)
    BY DEF VTcpConn
<1> HIDE DEF d
<1>6. /\ ~c.established /\ c.our_isn = c.sid /\ c.sid \in ISN
      /\ c.inbox = << >> /\ c.read = << >>
    BY <1>1, <1>2, <1>3 DEF IInv, TypeOK, ConnsInv, ConnInv, Established, Opening
<1>7. c.fd < SynthBase /\ \A x \in paired : x[1] # c.sid
    BY <1>1, <1>2, <1>6 DEF ConnPair
<1>8. <<c.sid, m.seq>> \in offered /\ m.seq \in ISN
    <2>1. PICK x \in offered : x[2] = m.seq /\ m.ack = Plus(x[1], 1)
        BY DEF HandleSynAck, PairInv, SegPairs, SegPair
    <2>2. x[1] \in ISN /\ x[2] \in ISN /\ x = <<x[1], x[2]>>
        BY DEF IInv, TypeOK
    <2>3. 1 \in 0 .. MaxStream + 2
        BY SizesAssumption
    <2>4. x[1] = c.sid
        BY <1>3, <1>6, <2>1, <2>2, <2>3, WindowsDisjoint
    <2> QED
        BY <2>1, <2>2, <2>4
<1>9. ~Known(c.sid, paired) /\ ~Known(m.seq, paired)
    <2>1. \A x \in paired : x \in offered
        BY DEF PairInv, PairsInv
    <2>2. \A x \in paired : x[2] # c.sid /\ x[1] # m.seq
        BY <1>8, <2>1 DEF PairInv, PairsInv
    <2>3. \A x \in paired : x[2] # m.seq
        BY <1>7, <1>8, <2>1 DEF PairInv, PairsInv
    <2> QED
        BY <1>7, <2>2, <2>3 DEF Known
<1>10. delivered[c.sid] = 0 /\ delivered[m.seq] = 0
    BY <1>6, <1>8, <1>9 DEF PairInv, MadeInv
<1>11. PairsInv(isns, offered, paired)'
    <2>1. paired' \subseteq offered
        BY <1>3, <1>6, <1>8 DEF PairInv, PairsInv
    <2>2. \A x, y \in paired' : x[1] = y[1] => x = y
        BY <1>3, <1>6, <1>7 DEF PairInv, PairsInv
    <2> QED
        BY <1>4, <2>1, <2>2 DEF PairInv, PairsInv
<1>12. ConnPairs'
    <2>1. ConnPair(d, paired', delivered)
        <3>1. PairOf(d) = <<c.sid, m.seq>>
            <4>1. c.fd \in Int /\ SynthBase \in Int
                BY FdAssumption DEF VTcpConn
            <4>2. ~(d.fd >= SynthBase)
                BY <1>5, <1>7, <4>1
            <4> QED
                BY <1>5, <4>2 DEF PairOf
        <3>2. Len(Received(d)) = 0
            BY <1>5, <1>6 DEF Received
        <3> QED
            BY <1>3, <1>5, <1>6, <1>10, <3>1, <3>2 DEF ConnPair
    <2>2. ASSUME NEW o \in Console, NEW t \in Slot, ~(o = n /\ t = s)
          PROVE  ConnPair(conns[o][t], paired', delivered)
        <3>1. ConnPair(conns[o][t], paired, delivered)
            BY DEF PairInv, ConnPairs
        <3>2. conns[o][t].used => conns[o][t].sid # c.sid
            BY <1>1, <1>2, <2>2 DEF IInv, OneWriter
        <3> QED
            BY <1>3, <1>6, <3>1, <3>2 DEF ConnPair
    <2>3. \A o \in Console, t \in Slot :
             conns'[o][t] = IF o = n /\ t = s THEN d ELSE conns[o][t]
        BY <1>3 DEF IInv, TypeOK
    <2> QED
        BY <1>4, <2>1, <2>2, <2>3 DEF ConnPairs
<1>13. PendPairs'
    BY <1>3, <1>4, <1>6, <1>10 DEF PairInv, PendPairs, PendPair
<1>14. CallPairs' /\ MadeInv' /\ AckedWasDelivered'
    BY <1>3, <1>4 DEF PairInv, CallPairs, MadeInv, AckedWasDelivered, Known
<1>15. \A g \in net' \ net :
          SegPair(g, isns', offered', paired', delivered', finned', wrote')
    <2>0. <<c.our_isn, m.seq>> \in paired' /\ <<c.our_isn, m.seq>>[2] = m.seq
        BY <1>3
    <2>1. Known(m.seq, paired')
        BY <2>0 DEF Known
    <2>2. 0 \in 0 .. MaxStream /\ 0 <= delivered[m.seq] /\ 0 + 1 = 1
        BY <1>10, SizesAssumption
    <2>3. delivered \in [ISN -> 0 .. MaxStream]
        BY <1>0 DEF TypeOK
    <2>4. Confirms(Plus(m.seq, 0 + 1), paired', delivered, finned, wrote)
        BY <1>8, <2>1, <2>2, <2>3, ConfirmsUpTo
    <2>5. Confirms(d.their_seq, paired', delivered, finned, wrote)
        BY <1>5, <2>2, <2>4
    <2> QED
        BY <1>3, <1>4, <2>5 DEF AckOf, Seg, SegPair
<1>16. \A j \in ISN : delivered[j] <= delivered'[j]
    BY <1>4 DEF IInv, TypeOK
<1>17. /\ isns \subseteq isns' /\ offered \subseteq offered' /\ paired \subseteq paired'
       /\ finned \subseteq finned' /\ \A j \in finned : wrote'[j] = wrote[j]
       /\ \A x \in offered' \ offered : x[2] \notin isns
    BY <1>3, <1>4
<1> QED
    BY <1>0, <1>11, <1>12, <1>13, <1>14, <1>15, <1>16, <1>17, PairStep

\* The acknowledgement number that stops a retransmission names the end of the
\* segment kept for it, so that all of it was received.
LEMMA AcknowledgedIsReceived ==
    ASSUME IInv, PairInv, NEW n \in Console, NEW s \in Slot, NEW m \in net, m.kind = "ACK",
           conns[n][s].used, Acknowledges(m, conns[n][s])
    PROVE  /\ conns[n][s].sid \in ISN
           /\ conns[n][s].unacked[Len(conns[n][s].unacked)][2] <= delivered[conns[n][s].sid]
<1>1. PICK c \in VTcpConn : c = conns[n][s]
    BY DEF IInv, TypeOK
<1>2. c.unacked # << >> /\ m.ack = Plus(c.unacked_seq, Len(c.unacked))
    BY <1>1 DEF Acknowledges
<1>3. /\ c.sid \in ISN /\ c.sid \notin finned
      /\ DataOf(wrote, c.sid, c.unacked_seq, c.unacked)
    BY <1>1, <1>2 DEF IInv, TypeOK, ConnsInv, ConnInv, Established, Opening
<1>4. PICK k \in 0 .. MaxStream :
         /\ c.unacked_seq = Plus(c.sid, k + 1)
         /\ k + Len(c.unacked) <= wrote[c.sid]
         /\ \A j \in 1 .. Len(c.unacked) : c.unacked[j] = <<c.sid, k + j>>
    BY <1>3 DEF DataOf
<1>5. PICK l \in Nat \ {0} : l = Len(c.unacked)
    BY <1>2 DEF VTcpConn
<1>6. c.unacked[l] = <<c.sid, k + l>>
    <2>1. l \in 1 .. Len(c.unacked)
        BY <1>5
    <2> QED
        BY <1>4, <2>1
<1>7. k + l \in 0 .. MaxStream + 1
    <2>1. wrote[c.sid] \in 0 .. MaxStream
        BY <1>3 DEF IInv, TypeOK
    <2> QED
        BY <1>4, <1>5, <2>1, SizesAssumption
<1>8. m.ack = Plus(c.sid, (k + l) + 1)
    <2>a. c.sid \in Nat
        BY <1>3, IsnType
    <2>0. k + 1 \in Nat /\ l \in Nat
        OBVIOUS
    <2>1. Plus(Plus(c.sid, k + 1), l) = Plus(c.sid, (k + 1) + l)
        BY <2>a, <2>0, PlusPlus
    <2>2. (k + 1) + l = (k + l) + 1
        OBVIOUS
    <2> QED
        BY <1>2, <1>4, <1>5, <2>1, <2>2
<1>9. Confirms(m.ack, paired, delivered, finned, wrote)
    BY DEF PairInv, SegPairs, SegPair
<1>10. k + l <= delivered[c.sid]
    BY <1>3, <1>7, <1>8, <1>9 DEF Confirms
<1> QED
    BY <1>1, <1>3, <1>5, <1>6, <1>10

\* An ACK: what it acknowledges was received, and what it appends is received by the
\* only receiver of its stream.
LEMMA HandleDataPairs ==
    ASSUME IInv, IInv', PairInv, NEW n \in Console, NEW m \in net, HandleData(n, m)
    PROVE  PairInv'
<1>0. TypeOK /\ TypeOK'
    BY DEF IInv
<1>1. PICK s \in Slot : s = First(ByPeer(n, m.src)) /\ conns[n][s].used
    BY <1>0, LookupTypes DEF HandleData
<1>2. PICK c \in VTcpConn : c = conns[n][s] /\ ConnPair(c, paired, delivered)
    BY DEF IInv, TypeOK, PairInv, ConnPairs
<1>3. m.kind = "ACK" /\ m.data \in Seq(Byte) /\ Len(m.data) \in Nat
    BY <1>0 DEF HandleData, TypeOK, Segment
<1>4. PICK u : u = IF Acknowledges(m, c) THEN << >> ELSE c.unacked
    OBVIOUS
<1> DEFINE d == [c EXCEPT !.unacked = u]
           e == [d EXCEPT !.inbox = @ \o m.data, !.their_seq = Plus(@, Len(m.data))]
<1>5. /\ conns' = [conns EXCEPT ![n][s] = IF Appends(m, c) THEN e ELSE d]
      /\ net' = IF Appends(m, c) THEN net \cup {AckOf(n, e)} ELSE net
      /\ acked' = IF Acknowledges(m, c)
                  THEN [acked EXCEPT ![c.sid] = c.unacked[Len(c.unacked)][2]]
                  ELSE acked
      /\ delivered' = IF Appends(m, c)
                      THEN [delivered EXCEPT ![c.rid] = Len(c.read) + Len(e.inbox)]
                      ELSE delivered
    BY <1>1, <1>2, <1>4 DEF HandleData
<1>6. /\ UNCHANGED <<nextFd, pending, call>>
      /\ UNCHANGED <<isns, wrote, offered, paired, finned>>
    BY DEF HandleData
<1>7. \A i \in ISN : acked'[i] <= delivered[i]
    <2>1. CASE Acknowledges(m, c)
        <3>1. c.sid \in ISN /\ c.unacked[Len(c.unacked)][2] <= delivered[c.sid]
            BY <1>1, <1>2, <1>3, <2>1, AcknowledgedIsReceived
        <3>2. PICK a : a = c.unacked[Len(c.unacked)][2]
            OBVIOUS
        <3>3. acked' = [acked EXCEPT ![c.sid] = a]
            BY <1>5, <2>1, <3>2
        <3> QED
            BY <1>0, <3>1, <3>2, <3>3 DEF TypeOK, PairInv, AckedWasDelivered
    <2>2. CASE ~Acknowledges(m, c)
        BY <1>5, <2>2 DEF PairInv, AckedWasDelivered
    <2> QED
        BY <2>1, <2>2
<1>8. /\ d.used = c.used /\ d.established = c.established /\ d.fd = c.fd
      /\ d.sid = c.sid /\ d.rid = c.rid /\ d.read = c.read /\ d.inbox = c.inbox
    BY DEF VTcpConn
<1>9. ConnPair(d, paired, delivered)
    <2>1. Received(d) = Received(c)
        BY <1>8 DEF Received
    <2> QED
        BY <1>2, <1>8, <2>1, ConnPairSame
<1>10. CASE ~Appends(m, c)
    <2>1. conns' = [conns EXCEPT ![n][s] = d] /\ UNCHANGED <<net, delivered>>
        BY <1>5, <1>10
    <2>2. \A p \in Console, t \in Slot : ConnPair(conns'[p][t], paired, delivered)
        BY <1>0, <1>9, <2>1, ConnWritten
    <2>3. ConnPairs' /\ PendPairs' /\ CallPairs' /\ MadeInv' /\ AckedWasDelivered'
        BY <1>6, <1>7, <2>1, <2>2
        DEF PairInv, ConnPairs, PendPairs, CallPairs, MadeInv, AckedWasDelivered
    <2>4. PairsInv(isns, offered, paired)'
        BY <1>6 DEF PairInv, PairsInv
    <2>5. \A i \in ISN : delivered[i] <= delivered'[i]
        BY <1>0, <2>1 DEF TypeOK
    <2> QED
        BY <1>0, <1>6, <2>1, <2>3, <2>4, <2>5, PairStep
<1>11. CASE Appends(m, c)
    <2>1. /\ e.used = c.used /\ e.established = c.established /\ e.fd = c.fd
          /\ e.sid = c.sid /\ e.rid = c.rid /\ e.read = c.read
          /\ e.inbox = c.inbox \o m.data
        BY DEF VTcpConn
    <2>2. /\ conns' = [conns EXCEPT ![n][s] = e] /\ net' = net \cup {AckOf(n, e)}
          /\ delivered' = [delivered EXCEPT ![c.rid] = Len(c.read) + Len(e.inbox)]
        BY <1>5, <1>11
    <2> HIDE DEF e, d
    <2>3. c.established /\ c.used /\ c.rid \in ISN
        BY <1>1, <1>2, <1>11 DEF Appends, IInv, ConnsInv, ConnInv, Established
    <2>4. PICK r \in Nat, b \in Nat, l \in Nat :
              /\ r = Len(c.read) /\ b = Len(c.inbox) /\ l = Len(m.data)
              /\ Len(e.inbox) = b + l /\ Len(Received(e)) = r + (b + l)
              /\ Len(Received(c)) = r + b
        <3>1. PICK x \in Seq(Byte), y \in Seq(Byte), z \in Seq(Byte) :
                  x = c.read /\ y = c.inbox /\ z = m.data
            BY <1>3 DEF VTcpConn
        <3>2. /\ Len(x) \in Nat /\ Len(y) \in Nat /\ Len(z) \in Nat
              /\ Len(y \o z) = Len(y) + Len(z) /\ Len(x \o y) = Len(x) + Len(y)
              /\ Len(x \o (y \o z)) = Len(x) + (Len(y) + Len(z))
            OBVIOUS
        <3>3. e.inbox = y \o z /\ Received(e) = x \o (y \o z) /\ Received(c) = x \o y
            BY <2>1, <3>1, Zenon DEF Received
        <3> QED
            BY <3>1, <3>2, <3>3, Zenon
    <2>5. PICK N \in Nat : /\ N = Len(c.read) + Len(e.inbox) /\ N = Len(Received(e))
                           /\ N = r + (b + l)
        <3>1. r + (b + l) \in Nat
            OBVIOUS
        <3> QED
            BY <2>4, <3>1, Zenon
    <2>6. PICK L \in Nat : L = Len(Received(c)) /\ L <= N /\ N = L + l
        <3>1. r + b \in Nat /\ r + b <= r + (b + l) /\ r + (b + l) = (r + b) + l
            OBVIOUS
        <3> QED
            BY <2>4, <2>5, <3>1, Zenon
    <2>7. PairOf(c) \in paired /\ delivered[c.rid] = L /\ Known(c.rid, paired)
        <3>1. PairOf(c) \in paired /\ delivered[c.rid] = L
            BY <1>2, <2>3, <2>6 DEF ConnPair
        <3> QED
            BY <3>1 DEF PairOf, Known
    <2>8. /\ delivered'[c.rid] = N
          /\ \A i \in ISN : i # c.rid => delivered'[i] = delivered[i]
        BY <1>0, <2>2, <2>3, <2>5 DEF TypeOK
    <2>9. \A i \in ISN : delivered[i] <= delivered'[i]
        <3>1. ASSUME NEW i \in ISN, i # c.rid PROVE delivered[i] <= delivered'[i]
            <4>1. delivered'[i] = delivered[i] /\ delivered[i] \in Int
                BY <1>0, <2>8, <3>1 DEF TypeOK
            <4> QED
                BY <4>1
        <3> QED
            BY <2>6, <2>7, <2>8, <3>1
    <2>10. ConnPair(e, paired, delivered')
        BY <2>1, <2>3, <2>5, <2>7, <2>8 DEF ConnPair, PairOf
    <2>11. /\ \A p \in Console, t \in Slot :
                 (/\ conns[p][t].used /\ conns[p][t].established
                  /\ conns[p][t].rid = c.rid) => p = n /\ t = s
           /\ \A p \in Console, k \in PSlot :
                 (/\ pending[p][k].used
                  /\ <<pending[p][k].their_isn, pending[p][k].our_isn>> \in paired)
                     => pending[p][k].their_isn # c.rid
        BY <1>2, <2>3, OneReceiver
    <2>12. ConnPairs'
        <3>1. ASSUME NEW p \in Console, NEW t \in Slot, ~(p = n /\ t = s)
              PROVE  ConnPair(conns[p][t], paired, delivered')
            <4>1. ConnPair(conns[p][t], paired, delivered)
                BY DEF PairInv, ConnPairs
            <4>2. conns[p][t].used /\ conns[p][t].established =>
                     conns[p][t].rid \in ISN /\ conns[p][t].rid # c.rid
                BY <2>11, <3>1 DEF IInv, ConnsInv, ConnInv, Established
            <4> QED
                BY <2>8, <4>1, <4>2 DEF ConnPair
        <3>2. \A p \in Console, t \in Slot :
                 conns'[p][t] = IF p = n /\ t = s THEN e ELSE conns[p][t]
            BY <1>0, <2>2 DEF TypeOK
        <3> QED
            BY <1>6, <2>10, <3>1, <3>2 DEF ConnPairs
    <2>13. PendPairs'
        <3>1. ASSUME NEW p \in Console, NEW k \in PSlot
              PROVE  PendPair(pending[p][k], offered, paired, delivered')
            <4>1. PendPair(pending[p][k], offered, paired, delivered)
                BY DEF PairInv, PendPairs
            <4>2. pending[p][k].used => pending[p][k].their_isn \in ISN
                BY DEF IInv, PendsInv, PendInv
            <4> QED
                BY <2>8, <2>11, <4>1, <4>2 DEF PendPair
        <3> QED
            BY <1>6, <3>1 DEF PendPairs
    <2>14. CallPairs'
        BY <1>6 DEF PairInv, CallPairs
    <2>15. MadeInv'
        BY <1>6, <2>7, <2>8 DEF PairInv, MadeInv
    <2>16. AckedWasDelivered'
        BY <1>0, <1>7, <2>9 DEF TypeOK, AckedWasDelivered
    <2>17. PairsInv(isns, offered, paired)'
        BY <1>6 DEF PairInv, PairsInv
    <2>18. Confirms(e.their_seq, paired, delivered', finned, wrote)
        <3>1. c.their_seq = Plus(c.rid, Len(Received(c)) + 1)
            BY <1>1, <1>2, <1>11, AppendedIsNext DEF IInv, ConnsInv
        <3>2. e.their_seq = Plus(c.their_seq, Len(m.data))
            BY DEF e, d, VTcpConn
        <3>4. e.their_seq = Plus(c.rid, N + 1)
            <4>a. c.rid \in Nat
                BY <2>3, IsnType
            <4>0. L + 1 \in Nat /\ (L + 1) + l = N + 1
                BY <2>6
            <4>1. Plus(Plus(c.rid, L + 1), l) = Plus(c.rid, (L + 1) + l)
                BY <4>a, <4>0, PlusPlus
            <4> QED
                BY <2>4, <2>6, <3>1, <3>2, <4>0, <4>1, Zenon
        <3>5. N \in 0 .. MaxStream /\ N <= delivered'[c.rid]
            BY <1>0, <2>3, <2>8 DEF TypeOK
        <3>6. delivered' \in [ISN -> 0 .. MaxStream]
            BY <1>0 DEF TypeOK
        <3>7. Confirms(Plus(c.rid, N + 1), paired, delivered', finned, wrote)
            BY <2>3, <2>7, <3>5, <3>6, ConfirmsUpTo
        <3> QED
            BY <3>4, <3>7
    <2>19. \A g \in net' \ net :
              SegPair(g, isns', offered', paired', delivered', finned', wrote')
        BY <1>6, <2>2, <2>18 DEF AckOf, Seg, SegPair
    <2> QED
        BY <1>0, <1>6, <2>9, <2>12, <2>13, <2>14, <2>15, <2>16, <2>17, <2>19, PairStep
<1> QED
    BY <1>10, <1>11

\* Every step keeps the pairs.
LEMMA NextPairs == IInv /\ PairInv /\ [Next]_vars => PairInv'
<1> SUFFICES ASSUME IInv, PairInv, [Next]_vars PROVE PairInv'
    OBVIOUS
<1>0. IInv'
    BY NextIInv
<1>1. CASE UNCHANGED vars
    BY <1>0, <1>1, StillPairs DEF vars
<1>2. ASSUME NEW n \in Console, Command(n) PROVE PairInv'
    <2>1. CASE \/ BindControl(n) \/ CloseControl(n) \/ ProcessExit(n)
               \/ \E fd \in RealFd : Listen(n, fd)
        BY <1>0, <2>1, StillStepsPairs
    <2>2. CASE Accept(n)
        BY <1>0, <2>2, AcceptPairs
    <2>3. CASE \E fd \in RealFd, p \in Console : Connect(n, fd, p)
        BY <1>0, <2>3, ConnectPairs
    <2>4. ASSUME NEW fd \in openFd[n],
                 \/ \E len \in SendSizes : SendTo(n, fd, len)
                 \/ \E size \in ReadSizes : RecvFrom(n, fd, size)
                 \/ RecvEof(n, fd)
                 \/ CloseConn(n, fd)
                 \/ CloseOther(n, fd)
          PROVE  PairInv'
        <3>1. CASE \E len \in SendSizes : SendTo(n, fd, len)
            BY <1>0, <3>1, SendToPairs
        <3>2. CASE (\E size \in ReadSizes : RecvFrom(n, fd, size)) \/ RecvEof(n, fd)
            BY <1>0, <3>2, ReadPairs
        <3>3. CASE CloseConn(n, fd)
            BY <1>0, <3>3, CloseConnPairs
        <3>4. CASE CloseOther(n, fd)
            BY <1>0, <3>4, StillStepsPairs
        <3> QED
            BY <2>4, <3>1, <3>2, <3>3, <3>4
    <2> QED
        BY <1>2, <2>1, <2>2, <2>3, <2>4 DEF Command
<1>3. ASSUME NEW n \in Console, ConnectStep(n) PROVE PairInv'
    BY <1>0, <1>3, StillStepsPairs, SendingPairs, ConnectTimesOutPairs DEF ConnectStep
<1>4. ASSUME NEW n \in Console, Drain(n) PROVE PairInv'
    <2>1. ASSUME NEW m \in net, HandleTcpSegment(n, m) PROVE PairInv'
        BY <1>0, <2>1, HandleRstPairs, HandleSynPairs, HandleSynAckPairs, HandleFinPairs,
           HandleFinalAckPairs, HandleDataPairs DEF HandleTcpSegment
    <2>2. ASSUME NEW s \in Slot, CheckDataRetransmits(n, s) PROVE PairInv'
        BY <1>0, <2>2, CheckDataRetransmitsPairs
    <2> QED
        BY <1>4, <2>1, <2>2 DEF Drain
<1>5. CASE Environment
    <2>1. ASSUME NEW m \in net, Lose(m) PROVE PairInv'
        <3>1. /\ UNCHANGED <<conns, pending, nextFd, call>> /\ net' \subseteq net
              /\ UNCHANGED <<isns, wrote, delivered, acked, offered, paired, finned>>
            BY <2>1 DEF Lose, history
        <3> QED
            BY <1>0, <3>1, StillPairs
    <2>2. ASSUME NEW p \in Console, NEW n \in Console, PeerResets(p, n) PROVE PairInv'
        BY <1>0, <2>2, SendingPairs
    <2> QED
        BY <1>5, <2>1, <2>2 DEF Environment
<1> QED
    BY <1>1, <1>2, <1>3, <1>4, <1>5 DEF Next

\* The pairs agree in every state VTcp can reach.
LEMMA PairInvariance == Spec => []PairInv
BY InitPairs, NextPairs, Invariance, PTL DEF Spec

\* Both ends agree on the handshake: a joiner is established on the answer to its own
\* SYN, and Accept hands out a connection only if its joiner accepted the SYN-ACK that
\* was sent for it -- whatever is lost, repeated or left over from other connections.
THEOREM EndsAgree == Spec => []HandshakeAgreement
<1>1. PairInv => HandshakeAgreement
    BY DEF PairInv, PairsInv, ConnPairs, ConnPair, PairOf, HandshakeAgreement
<1> QED
    BY <1>1, PairInvariance, PTL

\* A segment kept for retransmission is dropped on an acknowledgement only when its
\* last byte is in the inbox of the one connection that receives its stream.
THEOREM AcksAreTrue == Spec => []AckedWasDelivered
<1>1. PairInv => AckedWasDelivered
    BY DEF PairInv
<1> QED
    BY <1>1, PairInvariance, PTL
=============================================================================
