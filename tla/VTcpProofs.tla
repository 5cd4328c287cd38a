------------------------------ MODULE VTcpProofs ------------------------------
EXTENDS VTcpInv, SequenceTheorems, WellFoundedInduction, TLAPS

\* u32 addition yields a u32.
LEMMA PlusType ==
    ASSUME NEW a \in Nat, NEW k \in Nat
    PROVE  Plus(a, k) \in SeqNo
BY WindowAssumption DEF Plus, SeqNo

\* Two representations with remainders in range are the same.
LEMMA ModUnique ==
    ASSUME NEW M \in Nat \ {0}, NEW x \in Int, NEW q \in Int, NEW r \in 0 .. M - 1,
           x = M * q + r
    PROVE  x % M = r
OBVIOUS

\* Reducing a summand first does not change a sum modulo m.
LEMMA ModAdd ==
    ASSUME NEW M \in Nat \ {0}, NEW x \in Nat, NEW k \in Nat
    PROVE  ((x % M) + k) % M = (x + k) % M
<1>1. PICK q \in Int, r \in 0 .. M - 1 : x = M * q + r /\ r = x % M
  <2>1. x = M * (x \div M) + (x % M) /\ x \div M \in Int /\ x % M \in 0 .. M - 1
    OBVIOUS
  <2> QED BY <2>1
<1>2. PICK v \in Int, u \in 0 .. M - 1 : r + k = M * v + u /\ u = (r + k) % M
  <2>1. /\ r + k = M * ((r + k) \div M) + ((r + k) % M)
        /\ (r + k) \div M \in Int
        /\ (r + k) % M \in 0 .. M - 1
    BY <1>1
  <2> QED BY <2>1
<1>3. PICK w \in Int : w = q + v
  BY <1>1, <1>2
<1>4. M * w = M * q + M * v
  BY <1>3
<1>5. PICK A \in Int, B \in Int : A = M * q /\ B = M * v
  BY <1>1, <1>2
<1>6. M * w = A + B /\ x = A + r /\ r + k = B + u
  BY <1>1, <1>2, <1>4, <1>5
<1>7. x + k = (A + B) + u
  BY <1>1, <1>2, <1>5, <1>6
<1>8. x + k = M * w + u
  BY <1>6, <1>7
<1>9. x + k \in Int
  OBVIOUS
<1>10. (x + k) % M = u
  BY <1>2, <1>3, <1>8, <1>9, ModUnique
<1> QED BY <1>1, <1>2, <1>10

\* Adding in two steps is adding at once: our_seq and their_seq advance by segments.
LEMMA PlusPlus ==
    ASSUME NEW a \in Nat, NEW j \in Nat, NEW k \in Nat
    PROVE  Plus(Plus(a, j), k) = Plus(a, j + k)
<1>1. a + j \in Nat /\ SeqMod \in Nat \ {0} BY WindowAssumption
<1>2. (((a + j) % SeqMod) + k) % SeqMod = ((a + j) + k) % SeqMod
  BY <1>1, ModAdd
<1>3. (a + j) + k = a + (j + k) OBVIOUS
<1> QED BY <1>2, <1>3 DEF Plus

\* WindowAssumption for two positions: a sequence number names one byte of one stream.
LEMMA WindowsDisjoint ==
    ASSUME NEW i \in ISN, NEW j \in ISN,
           NEW a \in 0 .. MaxStream + 2, NEW b \in 0 .. MaxStream + 2,
           Plus(i, a) = Plus(j, b)
    PROVE  i = j /\ a = b
BY WindowAssumption

\* Initial sequence numbers are sequence numbers.
LEMMA IsnType == ISN \subseteq SeqNo /\ ISN \subseteq Nat /\ SeqNo \subseteq Nat /\ 0 \in SeqNo
BY WindowAssumption DEF SeqNo

\* The first slot of a nonempty set of slots is one of them.
LEMMA FirstInSet ==
    ASSUME NEW S \in SUBSET Nat, S # {}
    PROVE  First(S) \in S
<1>1. \E x \in S : \A y \in S : ~ (<<y, x>> \in OpToRel(<, Nat))
  BY WFMin, NatLessThanWellFounded
<1>2. PICK x \in S : \A y \in S : ~ (<<y, x>> \in OpToRel(<, Nat))
  BY <1>1
<1>3. ASSUME NEW y \in S PROVE x <= y
  <2>1. x \in Nat /\ y \in Nat
    OBVIOUS
  <2>2. ~ (y < x)
    BY <1>2, <2>1, Zenon DEF OpToRel
  <2> QED BY <2>1, <2>2
<1>4. \E z \in S : \A y \in S : z <= y
  BY <1>3
<1> QED BY <1>4 DEF First

\* The slots of both tables are numbered.
LEMMA SlotFacts == Slot \subseteq Nat /\ PSlot \subseteq Nat
BY SizesAssumption DEF Slot, PSlot

\* A reset slot (*c = VTcpConn{}) is a connection record.
LEMMA FreeConnType == FreeConn \in VTcpConn
BY IsnType DEF FreeConn, VTcpConn, NoFd

\* What is said of a connection stays true while others write, draw and close.
LEMMA ConnMonotone ==
    ASSUME NEW c \in VTcpConn,
           NEW w \in [ISN -> 0 .. MaxStream], NEW w2 \in [ISN -> 0 .. MaxStream],
           NEW I \in SUBSET ISN, NEW I2 \in SUBSET ISN,
           NEW F \in SUBSET ISN, NEW F2 \in SUBSET ISN,
           I \subseteq I2, F \subseteq F2,
           \A i \in ISN : w[i] <= w2[i],
           \A i \in F : w2[i] = w[i],
           c.used => c.sid \notin F2 /\ w2[c.sid] = w[c.sid],
           ConnInv(c, w, I, F)
    PROVE  ConnInv(c, w2, I2, F2)
<1> SUFFICES ASSUME c.used PROVE ConnInv(c, w2, I2, F2)
  BY DEF ConnInv
<1>1. c.sid \in I2 /\ c.sid \notin F2 /\ c.peer \in Console
  BY DEF ConnInv
<1>2. ~c.established => Opening(c, w2)
  BY DEF ConnInv, Opening
<1>3. ASSUME c.established PROVE Established(c, w2, F2)
  <2>1. Established(c, w, F)
    BY <1>3 DEF ConnInv
  <2>2. Received(c) \in Seq(Byte)
    BY ConcatProperties DEF VTcpConn, Received
  <2>3. PrefixOf(w2, c.rid, Received(c))
    <3>1. Len(Received(c)) \in Nat
      BY <2>2
    <3> QED BY <2>1, <3>1 DEF Established, PrefixOf
  <2>4. c.unacked # << >> => DataOf(w2, c.sid, c.unacked_seq, c.unacked)
    BY <2>1 DEF Established, DataOf
  <2>5. \/ c.their_seq = Plus(c.rid, Len(Received(c)) + 1)
        \/ \E i \in F2 : c.their_seq = Plus(i, w2[i] + 2)
    BY <2>1 DEF Established
  <2> QED BY <2>1, <2>3, <2>4, <2>5 DEF Established
<1> QED BY <1>1, <1>2, <1>3 DEF ConnInv

\* What is said of a segment in flight stays true while others write and close.
LEMMA SegMonotone ==
    ASSUME NEW m \in Segment,
           NEW w \in [ISN -> 0 .. MaxStream], NEW w2 \in [ISN -> 0 .. MaxStream],
           NEW F \in SUBSET ISN, NEW F2 \in SUBSET ISN, F \subseteq F2,
           \A i \in ISN : w[i] <= w2[i],
           \A i \in F : w2[i] = w[i],
           SegInv(m, w, F)
    PROVE  SegInv(m, w2, F2)
<1>1. ASSUME m.data # << >> PROVE \E i \in ISN : DataOf(w2, i, m.seq, m.data)
  <2>1. PICK i \in ISN : DataOf(w, i, m.seq, m.data)
    BY <1>1 DEF SegInv
  <2>2. Len(m.data) \in Nat
    BY DEF Segment
  <2>3. DataOf(w2, i, m.seq, m.data)
    BY <2>1, <2>2 DEF DataOf
  <2> QED BY <2>3
<1> QED BY <1>1 DEF SegInv

\* Types of what the lookups return.
LEMMA LookupTypes ==
    ASSUME TypeOK, NEW n \in Console, NEW x
    PROVE  /\ ByFd(n, x) # {} => First(ByFd(n, x)) \in Slot /\ conns[n][First(ByFd(n, x))].used
           /\ ByPeer(n, x) # {} => /\ First(ByPeer(n, x)) \in Slot
                                  /\ conns[n][First(ByPeer(n, x))].used
                                  /\ conns[n][First(ByPeer(n, x))].peer = x
           /\ FreeSlots(n) # {} => First(FreeSlots(n)) \in Slot
           /\ FreeSlots(n) # {} => ~conns[n][First(FreeSlots(n))].used
           /\ FreePendings(n) # {} => First(FreePendings(n)) \in PSlot
           /\ FreePendings(n) # {} => ~pending[n][First(FreePendings(n))].used
<1>1. /\ ByFd(n, x) \in SUBSET Nat /\ ByPeer(n, x) \in SUBSET Nat
      /\ FreeSlots(n) \in SUBSET Nat /\ FreePendings(n) \in SUBSET Nat
  BY SlotFacts DEF ByFd, ByPeer, FreeSlots, FreePendings
<1>2. /\ ByFd(n, x) # {} => First(ByFd(n, x)) \in ByFd(n, x)
      /\ ByPeer(n, x) # {} => First(ByPeer(n, x)) \in ByPeer(n, x)
      /\ FreeSlots(n) # {} => First(FreeSlots(n)) \in FreeSlots(n)
      /\ FreePendings(n) # {} => First(FreePendings(n)) \in FreePendings(n)
  BY <1>1, FirstInSet
<1> QED BY <1>2 DEF ByFd, ByPeer, FreeSlots, FreePendings

\* A step that touches no connection, no pending accept and no stream; it may send.
LEMMA QuietStep ==
    ASSUME IInv, conns' = conns, pending' = pending, wrote' = wrote, isns' = isns,
           finned' = finned, TypeOK', CallsInv',
           \A m \in net' \ net : SegInv(m, wrote, finned)
    PROVE  IInv'
BY DEF IInv, OneWriter, ConnsInv, PendsInv, SegsInv, FreshInv

\* A step that rewrites one connection, sends at most one segment and leaves the
\* streams alone.
LEMMA ConnStep ==
    ASSUME IInv, TypeOK', CallsInv',
           NEW n \in Console, NEW s \in Slot, NEW d \in VTcpConn,
           conns' = [conns EXCEPT ![n][s] = d], pending' = pending,
           wrote' = wrote, isns' = isns, finned' = finned,
           \A m \in net' \ net : SegInv(m, wrote, finned),
           d.used => conns[n][s].used /\ d.sid = conns[n][s].sid,
           ConnInv(d, wrote, isns, finned)
    PROVE  IInv'
<1>1. \A p \in Console, t \in Slot :
         conns'[p][t] = IF p = n /\ t = s THEN d ELSE conns[p][t]
  BY DEF IInv, TypeOK
<1>2. OneWriter'
  <2>1. \A p \in Console, t \in Slot :
           conns'[p][t].used => conns[p][t].used /\ conns'[p][t].sid = conns[p][t].sid
    BY <1>1
  <2> QED BY <2>1 DEF IInv, OneWriter
<1>3. ConnsInv'
  BY <1>1 DEF IInv, ConnsInv
<1>4. PendsInv' /\ FreshInv'
  BY DEF IInv, PendsInv, FreshInv
<1>5. SegsInv'
  BY DEF IInv, SegsInv
<1> QED BY <1>2, <1>3, <1>4, <1>5 DEF IInv

\* The initial state: both tables are free and nothing is in flight.
LEMMA InitIInv == Init => IInv
<1> SUFFICES ASSUME Init PROVE IInv
  OBVIOUS
<1>1. TypeOK
  <2>1. NoCall \in Call /\ FreePending \in PendingAccept
    BY IsnType DEF NoCall, Call, FreePending, PendingAccept, NoFd
  <2>2. 0 \in 0 .. MaxStream /\ SynthBase \in Int
    BY SizesAssumption, FdAssumption
  <2> QED BY <2>1, <2>2, FreeConnType DEF Init, TypeOK, NoFd
<1>2. /\ \A n \in Console, s \in Slot : ~conns[n][s].used
      /\ \A n \in Console, k \in PSlot : ~pending[n][k].used
  BY DEF Init, FreeConn, FreePending
<1>3. OneWriter /\ ConnsInv /\ PendsInv
  BY <1>2 DEF OneWriter, ConnsInv, ConnInv, PendsInv, PendInv
<1>4. SegsInv /\ CallsInv /\ FreshInv
  BY DEF Init, SegsInv, CallsInv, CallInv, NoCall, FreshInv
<1> QED BY <1>1, <1>3, <1>4 DEF IInv

\* Commands that touch neither table nor any stream.
LEMMA BindControlIInv ==
    ASSUME IInv, NEW n \in Console,
           BindControl(n) \/ CloseControl(n) \/ ProcessExit(n)
    PROVE  IInv'
<1>1. TypeOK'
  BY DEF IInv, TypeOK, BindControl, CloseControl, ProcessExit, history
<1>2. CallsInv'
  BY DEF IInv, CallsInv, BindControl, CloseControl, ProcessExit
<1> QED BY <1>1, <1>2, QuietStep DEF BindControl, CloseControl, ProcessExit, history

\* Listen only records a descriptor.
LEMMA ListenIInv ==
    ASSUME IInv, NEW n \in Console, NEW fd \in RealFd, Listen(n, fd)
    PROVE  IInv'
<1>0. fd \in Int
  BY FdAssumption
<1>1. TypeOK'
  BY <1>0 DEF IInv, TypeOK, Listen, history
<1>2. CallsInv'
  BY DEF IInv, CallsInv, Listen
<1> QED BY <1>1, <1>2, QuietStep DEF Listen, history

\* Close of a descriptor that is no virtual TCP connection.
LEMMA CloseOtherIInv ==
    ASSUME IInv, NEW n \in Console, NEW fd \in openFd[n], CloseOther(n, fd)
    PROVE  IInv'
<1>1. TypeOK'
  BY DEF IInv, TypeOK, CloseOther, Forward, NoFd
<1>2. CallsInv'
  BY DEF IInv, CallsInv, CloseOther
<1> QED BY <1>1, <1>2, QuietStep DEF CloseOther

\* The polls of a blocked Connect.
LEMMA ConnectPollIInv ==
    ASSUME IInv, NEW n \in Console, ConnectReturns(n) \/ ConnectPollFails(n)
    PROVE  IInv'
<1>1. call[n] \in Call /\ call \in [Console -> Call] /\ CallInv(call[n])
  BY DEF IInv, TypeOK, CallsInv
<1>2. PICK k \in Call : call' = [call EXCEPT ![n] = k] /\ CallInv(k)
  <2>1. NoCall \in Call /\ CallInv(NoCall)
    BY IsnType DEF NoCall, Call, NoFd, CallInv
  <2>2. CASE ConnectReturns(n)
    BY <2>1, <2>2 DEF ConnectReturns
  <2>3. CASE ConnectPollFails(n)
    <3>1. call' = [call EXCEPT ![n] = [call[n] EXCEPT !.phase = "late"]]
      BY <2>3 DEF ConnectPollFails
    <3>2. [call[n] EXCEPT !.phase = "late"] \in Call
      BY <1>1 DEF Call
    <3>3. CallInv([call[n] EXCEPT !.phase = "late"])
      BY <1>1, <2>3 DEF CallInv, ConnectPollFails, Call
    <3> QED BY <3>1, <3>2, <3>3
  <2> QED BY <2>2, <2>3
<1>3. TypeOK'
  BY <1>1, <1>2 DEF IInv, TypeOK, ConnectReturns, ConnectPollFails, history
<1>4. CallsInv'
  BY <1>1, <1>2 DEF IInv, CallsInv
<1> QED BY <1>3, <1>4, QuietStep DEF ConnectReturns, ConnectPollFails, history

\* The relay loses a segment.
LEMMA LoseIInv ==
    ASSUME IInv, NEW m \in net, Lose(m)
    PROVE  IInv'
<1>1. TypeOK'
  BY DEF IInv, TypeOK, Lose, history
<1>2. CallsInv'
  BY DEF IInv, CallsInv, Lose
<1> QED BY <1>1, <1>2, QuietStep DEF Lose, history

\* A segment without payload that is no FIN and starts no stream.
LEMMA BareSegment ==
    ASSUME NEW kind \in {"ACK", "RST"}, NEW n \in Console, NEW p \in Console,
           NEW q \in SeqNo, NEW a \in SeqNo
    PROVE  /\ Seg(kind, n, p, q, a, << >>) \in Segment
           /\ SegInv(Seg(kind, n, p, q, a, << >>), wrote, finned)
BY DEF Seg, Segment, Kind, SegInv

\* A peer's own stack sends an RST, which carries no payload.
LEMMA PeerResetsIInv ==
    ASSUME IInv, NEW p \in Console, NEW n \in Console, PeerResets(p, n)
    PROVE  IInv'
<1> DEFINE m == Seg("RST", p, n, 0, 0, << >>)
<1>1. m \in Segment /\ SegInv(m, wrote, finned)
  BY BareSegment, IsnType
<1> HIDE DEF m
<1>0. net' = net \cup {m}
  BY DEF PeerResets, m
<1>2. TypeOK'
  BY <1>0, <1>1 DEF IInv, TypeOK, PeerResets, history
<1>3. CallsInv'
  BY DEF IInv, CallsInv, PeerResets
<1>4. \A y \in net' \ net : SegInv(y, wrote, finned)
  BY <1>0, <1>1
<1>5. UNCHANGED <<conns, pending, wrote, isns, finned>>
  BY DEF PeerResets, history
<1> QED BY <1>2, <1>3, <1>4, <1>5, QuietStep

\* Connect sends its SYN again: the same initial sequence number.
LEMMA ConnectRetriesIInv ==
    ASSUME IInv, NEW n \in Console, ConnectRetries(n)
    PROVE  IInv'
<1> DEFINE m == Seg("SYN", n, call[n].dst, call[n].isn, 0, << >>)
           k == [call[n] EXCEPT !.phase = "wait", !.attempt = @ + 1]
<1>1. call[n] \in Call /\ call[n].isn \in ISN /\ call[n].dst \in Console
  BY DEF IInv, TypeOK, CallsInv, CallInv, ConnectRetries
<1>2. m \in Segment /\ SegInv(m, wrote, finned)
  <2>1. call[n].isn \in SeqNo /\ 0 \in SeqNo
    BY <1>1, IsnType
  <2>2. m \in Segment
    BY <1>1, <2>1 DEF Seg, Segment, Kind
  <2>3. SegInv(m, wrote, finned)
    BY <1>1 DEF Seg, SegInv
  <2> QED BY <2>2, <2>3
<1>3. k \in Call /\ CallInv(k)
  <2>1. call[n].attempt + 1 \in Nat
    BY <1>1 DEF Call
  <2>2. k \in Call
    BY <1>1, <2>1 DEF Call
  <2>3. k.isn = call[n].isn /\ k.dst = call[n].dst
    BY <1>1 DEF Call
  <2> QED BY <1>1, <2>2, <2>3 DEF CallInv
<1>4. net' = net \cup {m} /\ call' = [call EXCEPT ![n] = k]
  BY DEF ConnectRetries, NextAttempt
<1> HIDE DEF m, k
<1>5. TypeOK'
  BY <1>2, <1>3, <1>4 DEF IInv, TypeOK, ConnectRetries, history
<1>6. CallsInv'
  BY <1>3, <1>4 DEF IInv, TypeOK, CallsInv
<1>7. \A y \in net' \ net : SegInv(y, wrote, finned)
  BY <1>2, <1>4
<1>8. UNCHANGED <<conns, pending, wrote, isns, finned>>
  BY DEF ConnectRetries, history
<1> QED BY <1>5, <1>6, <1>7, <1>8, QuietStep

\* Connect gives up and resets its slot.
LEMMA ConnectTimesOutIInv ==
    ASSUME IInv, NEW n \in Console, ConnectTimesOut(n)
    PROVE  IInv'
<1>1. NoCall \in Call /\ CallInv(NoCall)
  BY IsnType DEF NoCall, Call, NoFd, CallInv
<1>2. CallsInv'
  BY <1>1 DEF IInv, TypeOK, CallsInv, ConnectTimesOut
<1>3. CASE ByFd(n, call[n].fd) = {}
  <2>1. conns' = conns
    BY <1>3 DEF ConnectTimesOut
  <2>2. TypeOK'
    BY <1>1, <2>1 DEF IInv, TypeOK, ConnectTimesOut, history
  <2> QED BY <1>2, <2>1, <2>2, QuietStep DEF ConnectTimesOut, history
<1>4. CASE ByFd(n, call[n].fd) # {}
  <2>1. PICK s \in Slot : conns' = [conns EXCEPT ![n][s] = FreeConn]
    BY <1>4, LookupTypes DEF ConnectTimesOut, IInv
  <2>6. /\ UNCHANGED <<owner, listenFd, nextFd, pending, openFd, net, history>>
        /\ call' = [call EXCEPT ![n] = NoCall]
    BY DEF ConnectTimesOut
  <2>2. TypeOK'
    <3>1. conns' \in [Console -> [Slot -> VTcpConn]]
      BY <2>1, FreeConnType DEF IInv, TypeOK
    <3>2. call' \in [Console -> Call]
      BY <1>1, <2>6 DEF IInv, TypeOK
    <3> QED BY <3>1, <3>2, <2>6 DEF IInv, TypeOK, history
  <2>3. ~FreeConn.used
    BY DEF FreeConn
  <2>4. ConnInv(FreeConn, wrote, isns, finned)
    BY <2>3 DEF ConnInv
  <2>7. \A m \in net' \ net : SegInv(m, wrote, finned)
    BY <2>6
  <2>8. UNCHANGED <<pending, wrote, isns, finned>>
    BY <2>6 DEF history
  <2> QED BY <1>2, <2>1, <2>2, <2>3, <2>4, <2>7, <2>8, FreeConnType, ConnStep, Zenon
<1> QED BY <1>3, <1>4

\* The same for the steps that leave descriptors, calls and pending accepts alone.
LEMMA DrainStep ==
    ASSUME IInv,
           NEW n \in Console, NEW s \in Slot, NEW d \in VTcpConn,
           conns' = [conns EXCEPT ![n][s] = d],
           UNCHANGED <<owner, listenFd, nextFd, pending, call, openFd>>,
           UNCHANGED <<isns, wrote, offered, finned, forwarded>>,
           paired' \subseteq ISN \X ISN,
           acked' \in [ISN -> 0 .. MaxStream], delivered' \in [ISN -> 0 .. MaxStream],
           \A m \in net' \ net : m \in Segment /\ SegInv(m, wrote, finned),
           conns[n][s].used, d.sid = conns[n][s].sid,
           ConnInv(d, wrote, isns, finned)
    PROVE  IInv'
<1>1. TypeOK'
  <2>1. conns' \in [Console -> [Slot -> VTcpConn]]
    BY DEF IInv, TypeOK
  <2>2. net' \subseteq Segment
    BY DEF IInv, TypeOK
  <2> QED BY <2>1, <2>2 DEF IInv, TypeOK
<1>2. CallsInv'
  BY DEF IInv, CallsInv
<1>3. \A m \in net' \ net : SegInv(m, wrote, finned)
  OBVIOUS
<1>4. UNCHANGED <<pending, wrote, isns, finned>>
  OBVIOUS
<1>5. d.used => conns[n][s].used /\ d.sid = conns[n][s].sid
  OBVIOUS
<1> QED BY <1>1, <1>2, <1>3, <1>4, <1>5, ConnStep, Zenon

\* The fields peer_closed, eof and retransmits carry no obligation.
LEMMA ConnSame ==
    ASSUME NEW c \in VTcpConn, NEW d \in VTcpConn,
           /\ d.used = c.used /\ d.established = c.established /\ d.syn_sent = c.syn_sent
           /\ d.peer = c.peer /\ d.our_isn = c.our_isn /\ d.our_seq = c.our_seq
           /\ d.their_seq = c.their_seq /\ d.inbox = c.inbox /\ d.read = c.read
           /\ d.unacked = c.unacked /\ d.unacked_seq = c.unacked_seq
           /\ d.sid = c.sid /\ d.rid = c.rid,
           NEW w, NEW I, NEW F, ConnInv(c, w, I, F)
    PROVE  ConnInv(d, w, I, F)
BY DEF ConnInv, Opening, Established, Received

\* An RST only marks the connection as closed by its peer.
LEMMA HandleRstIInv ==
    ASSUME IInv, NEW n \in Console, NEW m \in net, HandleRst(n, m)
    PROVE  IInv'
<1> DEFINE s == First(ByPeer(n, m.src))
           c == conns[n][s]
           d == [c EXCEPT !.peer_closed = TRUE]
<1>1. s \in Slot /\ c.used /\ c \in VTcpConn
  BY LookupTypes DEF HandleRst, IInv, TypeOK
<1>2. d \in VTcpConn
  BY <1>1 DEF VTcpConn
<1>3. conns' = [conns EXCEPT ![n][s] = d]
  BY <1>1 DEF HandleRst, IInv, TypeOK
<1>4. ConnInv(c, wrote, isns, finned)
  BY <1>1 DEF IInv, ConnsInv
<1>5. ConnInv(d, wrote, isns, finned) /\ d.sid = c.sid
  BY <1>1, <1>2, <1>4, ConnSame DEF VTcpConn
<1>6. /\ UNCHANGED <<owner, listenFd, nextFd, pending, call, openFd>>
      /\ UNCHANGED <<isns, wrote, offered, finned, forwarded>>
      /\ UNCHANGED <<net, paired, acked, delivered>>
  BY DEF HandleRst, history
<1>7. /\ paired' \subseteq ISN \X ISN
      /\ acked' \in [ISN -> 0 .. MaxStream] /\ delivered' \in [ISN -> 0 .. MaxStream]
  BY <1>6 DEF IInv, TypeOK
<1>8. \A y \in net' \ net : y \in Segment /\ SegInv(y, wrote, finned)
  BY <1>6
<1> HIDE DEF s, d
<1> QED BY <1>1, <1>2, <1>3, <1>5, <1>6, <1>7, <1>8, DrainStep, Zenon

\* RecvFrom answers end-of-file.
LEMMA RecvEofIInv ==
    ASSUME IInv, NEW n \in Console, NEW fd \in openFd[n], RecvEof(n, fd)
    PROVE  IInv'
<1> DEFINE s == First(ByFd(n, fd))
           c == conns[n][s]
           d == [c EXCEPT !.eof = TRUE]
<1>1. s \in Slot /\ c.used /\ c \in VTcpConn
  BY LookupTypes DEF RecvEof, IInv, TypeOK
<1>2. d \in VTcpConn
  BY <1>1 DEF VTcpConn
<1>3. conns' = [conns EXCEPT ![n][s] = d]
  BY <1>1 DEF RecvEof, IInv, TypeOK
<1>4. ConnInv(c, wrote, isns, finned)
  BY <1>1 DEF IInv, ConnsInv
<1>5. ConnInv(d, wrote, isns, finned) /\ d.sid = c.sid
  BY <1>1, <1>2, <1>4, ConnSame DEF VTcpConn
<1>6. /\ UNCHANGED <<owner, listenFd, nextFd, pending, call, openFd>>
      /\ UNCHANGED <<isns, wrote, offered, finned, forwarded>>
      /\ UNCHANGED <<net, paired, acked, delivered>>
  BY DEF RecvEof, history
<1>7. /\ paired' \subseteq ISN \X ISN
      /\ acked' \in [ISN -> 0 .. MaxStream] /\ delivered' \in [ISN -> 0 .. MaxStream]
  BY <1>6 DEF IInv, TypeOK
<1>8. \A y \in net' \ net : y \in Segment /\ SegInv(y, wrote, finned)
  BY <1>6
<1> HIDE DEF s, d
<1> QED BY <1>1, <1>2, <1>3, <1>5, <1>6, <1>7, <1>8, DrainStep, Zenon

\* A FIN moves their_seq past the end of a closed stream.
LEMMA HandleFinIInv ==
    ASSUME IInv, NEW n \in Console, NEW m \in net, HandleFin(n, m)
    PROVE  IInv'
<1> DEFINE s == First(ByPeer(n, m.src))
           c == conns[n][s]
           d == [c EXCEPT !.peer_closed = TRUE, !.their_seq = Plus(m.seq, 1)]
<1>1. s \in Slot /\ c.used /\ c \in VTcpConn /\ ConnInv(c, wrote, isns, finned)
  BY LookupTypes DEF HandleFin, IInv, TypeOK, ConnsInv
<1>0. m \in Segment /\ SegInv(m, wrote, finned)
  BY DEF IInv, TypeOK, SegsInv
<1>2. PICK i \in finned : m.seq = Plus(i, wrote[i] + 1)
  BY <1>0 DEF SegInv, HandleFin
<1>3. Plus(m.seq, 1) = Plus(i, wrote[i] + 2) /\ Plus(m.seq, 1) \in SeqNo
  <2>1. i \in Nat /\ wrote[i] + 1 \in Nat
    BY IsnType DEF IInv, TypeOK
  <2>2. Plus(Plus(i, wrote[i] + 1), 1) = Plus(i, (wrote[i] + 1) + 1)
    BY <2>1, PlusPlus
  <2>3. (wrote[i] + 1) + 1 = wrote[i] + 2
    BY <2>1 DEF IInv, TypeOK
  <2>4. m.seq \in Nat
    BY <1>0, IsnType DEF Segment
  <2> QED BY <1>2, <2>2, <2>3, <2>4, PlusType
<1>4. d \in VTcpConn
  BY <1>1, <1>3 DEF VTcpConn
<1>5. conns' = [conns EXCEPT ![n][s] = d] /\ net' = net \cup {AckOf(n, d)}
  BY DEF HandleFin
<1>6. ConnInv(d, wrote, isns, finned) /\ d.sid = c.sid /\ d.peer \in Console
  <2>1. /\ d.used = c.used /\ d.established = c.established /\ d.syn_sent = c.syn_sent
        /\ d.peer = c.peer /\ d.our_isn = c.our_isn /\ d.our_seq = c.our_seq
        /\ d.inbox = c.inbox /\ d.read = c.read
        /\ d.unacked = c.unacked /\ d.unacked_seq = c.unacked_seq
        /\ d.sid = c.sid /\ d.rid = c.rid
        /\ d.their_seq = Plus(m.seq, 1)
    BY <1>1 DEF VTcpConn
  <2> HIDE DEF d
  <2>2. \E j \in finned : d.their_seq = Plus(j, wrote[j] + 2)
    BY <1>3, <2>1
  <2> QED BY <1>1, <2>1, <2>2 DEF ConnInv, Opening, Established, Received
<1>7. AckOf(n, d) \in Segment /\ SegInv(AckOf(n, d), wrote, finned)
  BY <1>4, <1>6, BareSegment DEF AckOf, VTcpConn
<1>8. /\ UNCHANGED <<owner, listenFd, nextFd, pending, call, openFd>>
      /\ UNCHANGED <<isns, wrote, offered, finned, forwarded>>
      /\ UNCHANGED <<paired, acked, delivered>>
  BY DEF HandleFin, history
<1>9. /\ paired' \subseteq ISN \X ISN
      /\ acked' \in [ISN -> 0 .. MaxStream] /\ delivered' \in [ISN -> 0 .. MaxStream]
  BY <1>8 DEF IInv, TypeOK
<1> HIDE DEF s, d
<1>10. \A y \in net' \ net : y \in Segment /\ SegInv(y, wrote, finned)
  BY <1>5, <1>7
<1> QED BY <1>1, <1>4, <1>5, <1>6, <1>8, <1>9, <1>10, DrainStep, Zenon

\* The SYN-ACK names the stream the connection will read.
LEMMA HandleSynAckIInv ==
    ASSUME IInv, NEW n \in Console, NEW m \in net, HandleSynAck(n, m)
    PROVE  IInv'
<1> DEFINE s == First(ByPeer(n, m.src))
           c == conns[n][s]
           d == [c EXCEPT !.their_seq = Plus(m.seq, 1), !.our_seq = Plus(c.our_isn, 1),
                          !.syn_sent = FALSE, !.established = TRUE, !.rid = m.seq]
<1>1. s \in Slot /\ c.used /\ c \in VTcpConn /\ ConnInv(c, wrote, isns, finned)
  BY LookupTypes DEF HandleSynAck, IInv, TypeOK, ConnsInv
<1>0. m \in Segment /\ m.seq \in ISN
  BY DEF IInv, TypeOK, SegsInv, SegInv, HandleSynAck
<1>2. ~c.established /\ Opening(c, wrote) /\ c.sid \in ISN
  BY <1>1 DEF HandleSynAck, IsOurSynAck, ConnInv, Established, IInv, TypeOK
<1>3. Plus(m.seq, 1) \in SeqNo /\ Plus(c.our_isn, 1) \in SeqNo /\ m.seq \in SeqNo
  BY <1>0, <1>1, PlusType, IsnType DEF VTcpConn
<1>4. d \in VTcpConn
  BY <1>1, <1>3 DEF VTcpConn
<1>5. /\ conns' = [conns EXCEPT ![n][s] = d]
      /\ net' = net \cup {AckOf(n, d)}
      /\ paired' = paired \cup {<<c.our_isn, m.seq>>}
  BY DEF HandleSynAck
<1>6. ConnInv(d, wrote, isns, finned) /\ d.sid = c.sid /\ d.peer \in Console
  <2>1. /\ d.used = c.used /\ d.established /\ ~d.syn_sent
        /\ d.peer = c.peer /\ d.our_seq = Plus(c.our_isn, 1)
        /\ d.inbox = c.inbox /\ d.read = c.read
        /\ d.unacked = c.unacked
        /\ d.sid = c.sid /\ d.rid = m.seq
        /\ d.their_seq = Plus(m.seq, 1)
    BY <1>1 DEF VTcpConn
  <2> HIDE DEF d
  <2>2. Received(d) = << >> /\ Len(<< >>) = 0
    BY <1>2, <2>1 DEF Opening, Received
  <2>3. PrefixOf(wrote, d.rid, Received(d))
    BY <2>1, <2>2, <1>0 DEF PrefixOf, IInv, TypeOK
  <2>4. d.their_seq = Plus(d.rid, Len(Received(d)) + 1)
    BY <2>1, <2>2
  <2>5. d.our_seq = Plus(d.sid, wrote[d.sid] + 1) /\ d.unacked = << >>
    BY <1>2, <2>1 DEF Opening
  <2>6. Established(d, wrote, finned)
    <3>1. Len(d.inbox) = 0
      <4>1. d.inbox = << >>
        BY <1>2, <2>1 DEF Opening
      <4> QED BY <2>2, <4>1, Zenon
    <3>2. Len(d.inbox) <= VTcpInboxCap
      BY <3>1, SizesAssumption
    <3> QED BY <1>0, <2>1, <2>3, <2>4, <2>5, <3>2 DEF Established
  <2> QED BY <1>1, <2>1, <2>6 DEF ConnInv
<1>7. AckOf(n, d) \in Segment /\ SegInv(AckOf(n, d), wrote, finned)
  BY <1>4, <1>6, BareSegment DEF AckOf, VTcpConn
<1>8. /\ UNCHANGED <<owner, listenFd, nextFd, pending, call, openFd>>
      /\ UNCHANGED <<isns, wrote, offered, finned, forwarded>>
      /\ UNCHANGED <<acked, delivered>>
  BY DEF HandleSynAck
<1>9. /\ paired' \subseteq ISN \X ISN
      /\ acked' \in [ISN -> 0 .. MaxStream] /\ delivered' \in [ISN -> 0 .. MaxStream]
  <2>1. c.our_isn \in ISN
    BY <1>2 DEF Opening
  <2> QED BY <1>0, <1>5, <1>8, <2>1 DEF IInv, TypeOK
<1> HIDE DEF s, d
<1>10. \A y \in net' \ net : y \in Segment /\ SegInv(y, wrote, finned)
  BY <1>5, <1>7
<1> QED BY <1>1, <1>4, <1>5, <1>6, <1>8, <1>9, <1>10, DrainStep, Zenon

\* A retransmission is a stretch of the sender's own stream again.
LEMMA CheckDataRetransmitsIInv ==
    ASSUME IInv, NEW n \in Console, NEW s \in Slot, CheckDataRetransmits(n, s)
    PROVE  IInv'
<1> DEFINE c == conns[n][s]
           stop == [c EXCEPT !.unacked = << >>]
           again == [c EXCEPT !.retransmits = @ + 1]
           m == Seg("ACK", n, c.peer, c.unacked_seq, c.their_seq, c.unacked)
<1>1. /\ c.used /\ c.established /\ c.unacked # << >>
      /\ c \in VTcpConn /\ ConnInv(c, wrote, isns, finned)
  BY DEF CheckDataRetransmits, IInv, TypeOK, ConnsInv
<1>2. /\ Established(c, wrote, finned) /\ c.peer \in Console /\ c.sid \in ISN
      /\ DataOf(wrote, c.sid, c.unacked_seq, c.unacked)
  BY <1>1 DEF ConnInv, Established, IInv, TypeOK
<1>3. /\ UNCHANGED <<owner, listenFd, nextFd, pending, call, openFd>>
      /\ UNCHANGED <<isns, wrote, offered, finned, forwarded>>
      /\ UNCHANGED <<paired, acked, delivered>>
  BY DEF CheckDataRetransmits, history
<1>4. /\ paired' \subseteq ISN \X ISN
      /\ acked' \in [ISN -> 0 .. MaxStream] /\ delivered' \in [ISN -> 0 .. MaxStream]
  BY <1>3 DEF IInv, TypeOK
<1>5. CASE c.retransmits >= MaxDataRetransmits
  <2>1. conns' = [conns EXCEPT ![n][s] = stop] /\ net' = net
    BY <1>5 DEF CheckDataRetransmits, IInv, TypeOK
  <2>2. stop \in VTcpConn
    <3>0. << >> \in Seq(Byte)
      OBVIOUS
    <3>1. PICK e \in Seq(Byte) : e = << >>
      BY <3>0, Zenon
    <3>2. [c EXCEPT !.unacked = e] \in VTcpConn
      BY <1>1 DEF VTcpConn
    <3> QED BY <3>1, <3>2, Zenon
  <2>3. /\ stop.used = c.used /\ stop.established = c.established
        /\ stop.syn_sent = c.syn_sent /\ stop.peer = c.peer /\ stop.our_seq = c.our_seq
        /\ stop.their_seq = c.their_seq /\ stop.inbox = c.inbox /\ stop.read = c.read
        /\ stop.unacked = << >> /\ stop.sid = c.sid /\ stop.rid = c.rid
    BY <1>1 DEF VTcpConn
  <2> HIDE DEF stop
  <2>4. ConnInv(stop, wrote, isns, finned)
    BY <1>1, <1>2, <2>3 DEF ConnInv, Established, Received
  <2>5. \A y \in net' \ net : y \in Segment /\ SegInv(y, wrote, finned)
    BY <2>1
  <2>6. conns[n][s].used /\ stop.sid = conns[n][s].sid
    BY <1>1, <2>3
  <2> QED BY <1>3, <1>4, <2>1, <2>2, <2>4, <2>5, <2>6, DrainStep, Zenon
<1>6. CASE ~(c.retransmits >= MaxDataRetransmits)
  <2>1. conns' = [conns EXCEPT ![n][s] = again] /\ net' = net \cup {m}
    BY <1>6 DEF CheckDataRetransmits, Counted, Resent, IInv, TypeOK
  <2>2. c.retransmits + 1 \in Nat
    BY <1>1 DEF VTcpConn
  <2>3. again \in VTcpConn
    BY <1>1, <2>2 DEF VTcpConn
  <2>4. ConnInv(again, wrote, isns, finned) /\ again.sid = c.sid
    BY <1>1, <2>3, ConnSame DEF VTcpConn
  <2>5. m \in Segment
    BY <1>1, <1>2 DEF Seg, Segment, Kind, VTcpConn
  <2>6. SegInv(m, wrote, finned)
    BY <1>2 DEF Seg, SegInv
  <2> HIDE DEF m, again
  <2>7. \A y \in net' \ net : y \in Segment /\ SegInv(y, wrote, finned)
    BY <2>1, <2>5, <2>6
  <2>8. conns[n][s].used /\ again.sid = conns[n][s].sid
    BY <1>1, <2>4
  <2> QED BY <1>3, <1>4, <2>1, <2>3, <2>4, <2>7, <2>8, DrainStep, Zenon
<1> QED BY <1>5, <1>6

\* A short read splits the inbox: what was received does not change.
LEMMA SplitInbox ==
    ASSUME NEW r \in Seq(Byte), NEW b \in Seq(Byte), NEW k \in 1 .. Len(b)
    PROVE  /\ SubSeq(b, 1, k) \in Seq(Byte) /\ SubSeq(b, k + 1, Len(b)) \in Seq(Byte)
           /\ r \o SubSeq(b, 1, k) \in Seq(Byte)
           /\ (r \o SubSeq(b, 1, k)) \o SubSeq(b, k + 1, Len(b)) = r \o b
<1>0. SubSeq(b, 1, k) \in Seq(Byte) /\ SubSeq(b, k + 1, Len(b)) \in Seq(Byte)
  OBVIOUS
<1>1. PICK x \in Seq(Byte) : x = SubSeq(b, 1, k)
  BY <1>0, Zenon
<1>2. PICK y \in Seq(Byte) : y = SubSeq(b, k + 1, Len(b))
  BY <1>0, Zenon
<1>3. x \o y = b
  BY <1>1, <1>2
<1>4. (r \o x) \o y = r \o (x \o y)
  OBVIOUS
<1>5. r \o x \in Seq(Byte)
  BY ConcatProperties
<1> QED BY <1>1, <1>2, <1>3, <1>4, <1>5, Zenon

\* RecvFrom moves bytes from the inbox to the reader.
LEMMA RecvFromIInv ==
    ASSUME IInv, NEW n \in Console, NEW fd \in openFd[n], NEW size \in ReadSizes,
           RecvFrom(n, fd, size)
    PROVE  IInv'
<1> DEFINE s == First(ByFd(n, fd))
           c == conns[n][s]
           k == IF Len(c.inbox) > size THEN size ELSE Len(c.inbox)
           d == [c EXCEPT !.read = @ \o SubSeq(c.inbox, 1, k),
                          !.inbox = SubSeq(c.inbox, k + 1, Len(c.inbox))]
<1>1. s \in Slot /\ c.used /\ c \in VTcpConn /\ ConnInv(c, wrote, isns, finned)
  BY LookupTypes DEF RecvFrom, IInv, TypeOK, ConnsInv
<1>2. c.inbox \in Seq(Byte) /\ c.inbox # << >> /\ c.read \in Seq(Byte)
  BY <1>1 DEF VTcpConn, RecvFrom
<1>3. k \in 1 .. Len(c.inbox)
  <2>1. size \in Nat \ {0}
    BY SizesAssumption
  <2>2. Len(c.inbox) \in Nat \ {0}
    BY <1>2
  <2> QED BY <2>1, <2>2
<1>4. conns' = [conns EXCEPT ![n][s] = d]
  BY DEF RecvFrom
<1>5. /\ c.read \o SubSeq(c.inbox, 1, k) \in Seq(Byte)
      /\ SubSeq(c.inbox, k + 1, Len(c.inbox)) \in Seq(Byte)
      /\ (c.read \o SubSeq(c.inbox, 1, k)) \o SubSeq(c.inbox, k + 1, Len(c.inbox))
            = c.read \o c.inbox
  <2> HIDE DEF k, c
  <2> QED BY <1>2, <1>3, SplitInbox
<1>6. d \in VTcpConn
  <2>1. PICK a \in Seq(Byte) : a = c.read \o SubSeq(c.inbox, 1, k)
    BY <1>5, Zenon
  <2>2. PICK b \in Seq(Byte) : b = SubSeq(c.inbox, k + 1, Len(c.inbox))
    BY <1>5, Zenon
  <2>3. [c EXCEPT !.read = a, !.inbox = b] \in VTcpConn
    BY <1>1 DEF VTcpConn
  <2> QED BY <2>1, <2>2, <2>3, Zenon
<1>7. /\ d.used = c.used /\ d.established = c.established /\ d.syn_sent = c.syn_sent
      /\ d.peer = c.peer /\ d.our_seq = c.our_seq /\ d.our_isn = c.our_isn
      /\ d.their_seq = c.their_seq
      /\ d.unacked = c.unacked /\ d.unacked_seq = c.unacked_seq
      /\ d.sid = c.sid /\ d.rid = c.rid
      /\ d.read = c.read \o SubSeq(c.inbox, 1, k)
      /\ d.inbox = SubSeq(c.inbox, k + 1, Len(c.inbox))
  BY <1>1 DEF VTcpConn
<1>8. /\ UNCHANGED <<owner, listenFd, nextFd, pending, call, openFd>>
      /\ UNCHANGED <<isns, wrote, offered, finned, forwarded>>
      /\ UNCHANGED <<net, paired, acked, delivered>>
  BY DEF RecvFrom, history
<1>9. /\ paired' \subseteq ISN \X ISN
      /\ acked' \in [ISN -> 0 .. MaxStream] /\ delivered' \in [ISN -> 0 .. MaxStream]
  BY <1>8 DEF IInv, TypeOK
<1>10. \A y \in net' \ net : y \in Segment /\ SegInv(y, wrote, finned)
  BY <1>8
<1>11. ConnInv(d, wrote, isns, finned)
  <2>1. Received(d) = Received(c)
    <3> HIDE DEF d, c, k
    <3>1. d.read \o d.inbox = c.read \o c.inbox
      BY <1>5, <1>7, Zenon
    <3> QED BY <3>1 DEF Received
  <2>2. c.established
    BY <1>1, <1>2 DEF ConnInv, Opening, VTcpConn
  <2> HIDE DEF d, c, k
  <2>3. Len(d.inbox) <= VTcpInboxCap
    <3>1. PICK b \in Seq(Byte) : b = c.inbox
      BY <1>2, Zenon
    <3>2. PICK z : z = SubSeq(b, k + 1, Len(b))
      OBVIOUS
    <3>3. PICK q \in 1 .. Len(b) : q = k
      BY <1>3, <3>1, Zenon
    <3>4. Len(z) <= Len(b) /\ Len(b) \in Nat /\ Len(z) \in Nat
      <4>1. z = SubSeq(b, q + 1, Len(b))
        BY <3>2, <3>3, Zenon
      <4> HIDE DEF k
      <4> QED BY <4>1
    <3>5. Len(b) <= VTcpInboxCap
      BY <1>1, <2>2, <3>1 DEF ConnInv, Established
    <3>6. Len(z) <= VTcpInboxCap
      BY <3>4, <3>5, SizesAssumption
    <3>7. d.inbox = z
      BY <1>7, <3>1, <3>2, Zenon
    <3> QED BY <3>6, <3>7, Zenon
  <2> QED BY <1>1, <1>7, <2>1, <2>2, <2>3 DEF ConnInv, Established
<1> HIDE DEF s, d, k
<1> QED BY <1>1, <1>4, <1>6, <1>7, <1>8, <1>9, <1>10, <1>11, DrainStep, Zenon

\* What HandleTcpSegment appends is the next stretch of the peer's own stream: by
\* the disjointness of the windows no payload of another stream, and none of the
\* same stream at another position, has the sequence number the receiver expects.
LEMMA AppendedIsNext ==
    ASSUME IInv, NEW m \in net, NEW c \in VTcpConn, c.used,
           ConnInv(c, wrote, isns, finned), Appends(m, c)
    PROVE  /\ c.their_seq = Plus(c.rid, Len(Received(c)) + 1)
           /\ Len(Received(c)) + Len(m.data) <= wrote[c.rid]
           /\ \A j \in 1 .. Len(m.data) : m.data[j] = <<c.rid, Len(Received(c)) + j>>
<1> DEFINE L == Len(Received(c))
<1>1. m \in Segment /\ SegInv(m, wrote, finned) /\ m.data \in Seq(Byte) /\ m.data # << >>
  BY DEF IInv, TypeOK, SegsInv, Appends, Segment
<1>2. PICK i \in ISN : DataOf(wrote, i, m.seq, m.data)
  BY <1>1 DEF SegInv
<1>3. PICK k \in 0 .. MaxStream :
         /\ m.seq = Plus(i, k + 1)
         /\ k + Len(m.data) <= wrote[i]
         /\ \A j \in 1 .. Len(m.data) : m.data[j] = <<i, k + j>>
  BY <1>2 DEF DataOf
<1>4. Established(c, wrote, finned) /\ c.rid \in ISN /\ m.seq = c.their_seq
  BY DEF Appends, ConnInv, Established
<1>5. Received(c) \in Seq(Byte) /\ L \in Nat
  BY ConcatProperties DEF VTcpConn, Received
<1>6. L <= wrote[c.rid] /\ wrote[c.rid] \in 0 .. MaxStream /\ L \in 0 .. MaxStream
  <2>1. wrote[c.rid] \in 0 .. MaxStream
    BY <1>4 DEF IInv, TypeOK
  <2>2. L <= wrote[c.rid]
    BY <1>4 DEF Established, PrefixOf
  <2> HIDE DEF L
  <2> QED BY <1>5, <2>1, <2>2, SizesAssumption
<1>7. Len(m.data) \in Nat \ {0} /\ MaxStream \in Nat
  BY <1>1, SizesAssumption
<1>8. k + 1 \in 0 .. MaxStream + 2
  BY <1>7
<1>9. ASSUME NEW j \in finned, c.their_seq = Plus(j, wrote[j] + 2)
      PROVE  FALSE
  <2>1. j \in ISN /\ wrote[j] \in 0 .. MaxStream
    BY DEF IInv, TypeOK
  <2>2. wrote[j] + 2 \in 0 .. MaxStream + 2
    BY <1>7, <2>1
  <2>3. Plus(i, k + 1) = Plus(j, wrote[j] + 2)
    BY <1>3, <1>4, <1>9
  <2>4. i = j /\ k + 1 = wrote[j] + 2
    BY <1>8, <2>1, <2>2, <2>3, WindowsDisjoint
  <2> QED BY <1>3, <1>7, <2>1, <2>4
<1>10. c.their_seq = Plus(c.rid, L + 1)
  BY <1>4, <1>9 DEF Established
<1>11. L + 1 \in 0 .. MaxStream + 2
  BY <1>6, <1>7
<1>12. Plus(i, k + 1) = Plus(c.rid, L + 1)
  BY <1>3, <1>4, <1>10
<1>13. i = c.rid /\ k + 1 = L + 1
  BY <1>4, <1>8, <1>11, <1>12, WindowsDisjoint
<1>14. k = L
  BY <1>5, <1>13
<1> QED BY <1>3, <1>10, <1>13, <1>14

\* An ACK: what it appends is the next stretch of the stream that is read.
LEMMA HandleDataIInv ==
    ASSUME IInv, NEW n \in Console, NEW m \in net, HandleData(n, m)
    PROVE  IInv'
<1> DEFINE s == First(ByPeer(n, m.src))
           c == conns[n][s]
           d == [c EXCEPT !.unacked = IF Acknowledges(m, c) THEN << >> ELSE @]
           e == [d EXCEPT !.inbox = @ \o m.data, !.their_seq = Plus(@, Len(m.data))]
<1>1. s \in Slot /\ c.used /\ c \in VTcpConn /\ ConnInv(c, wrote, isns, finned)
  BY LookupTypes DEF HandleData, IInv, TypeOK, ConnsInv
<1>2. m \in Segment /\ m.data \in Seq(Byte) /\ Len(m.data) \in Nat
  BY DEF IInv, TypeOK, Segment
<1>3. d \in VTcpConn
  <2>1. << >> \in Seq(Byte) /\ c.unacked \in Seq(Byte)
    BY <1>1 DEF VTcpConn
  <2>2. PICK u \in Seq(Byte) : u = IF Acknowledges(m, c) THEN << >> ELSE c.unacked
    BY <2>1, Zenon
  <2>3. [c EXCEPT !.unacked = u] \in VTcpConn
    BY <1>1 DEF VTcpConn
  <2> QED BY <2>2, <2>3, Zenon
<1>4. /\ d.used = c.used /\ d.established = c.established /\ d.syn_sent = c.syn_sent
      /\ d.peer = c.peer /\ d.our_seq = c.our_seq /\ d.our_isn = c.our_isn
      /\ d.their_seq = c.their_seq /\ d.inbox = c.inbox /\ d.read = c.read
      /\ d.unacked_seq = c.unacked_seq /\ d.sid = c.sid /\ d.rid = c.rid
      /\ d.unacked = << >> \/ d.unacked = c.unacked
  BY <1>1 DEF VTcpConn
<1>5. ConnInv(d, wrote, isns, finned)
  <2> HIDE DEF d, c
  <2> QED BY <1>1, <1>4 DEF ConnInv, Opening, Established, Received
<1>6. /\ UNCHANGED <<owner, listenFd, nextFd, pending, call, openFd>>
      /\ UNCHANGED <<isns, wrote, offered, finned, forwarded>>
      /\ UNCHANGED paired
  BY DEF HandleData
<1>7. paired' \subseteq ISN \X ISN
  BY <1>6 DEF IInv, TypeOK
<1>8. acked' \in [ISN -> 0 .. MaxStream]
  <2>1. CASE Acknowledges(m, c)
    <3>1. c.unacked \in Seq(Byte) /\ c.unacked # << >>
      BY <1>1, <2>1 DEF VTcpConn, Acknowledges
    <3>2. Len(c.unacked) \in 1 .. Len(c.unacked)
      BY <3>1
    <3>3. c.unacked[Len(c.unacked)] \in Byte
      BY <3>1, <3>2
    <3>4. c.unacked[Len(c.unacked)][2] \in 0 .. MaxStream
      BY <3>3, SizesAssumption DEF Byte
    <3>5. acked' = [acked EXCEPT ![c.sid] = c.unacked[Len(c.unacked)][2]]
      BY <2>1 DEF HandleData
    <3> QED BY <3>4, <3>5 DEF IInv, TypeOK
  <2>2. CASE ~Acknowledges(m, c)
    BY <2>2 DEF HandleData, IInv, TypeOK
  <2> QED BY <2>1, <2>2
<1>9. CASE ~Appends(m, c)
  <2>1. conns' = [conns EXCEPT ![n][s] = d] /\ net' = net /\ delivered' = delivered
    BY <1>9 DEF HandleData
  <2>2. delivered' \in [ISN -> 0 .. MaxStream]
    BY <2>1 DEF IInv, TypeOK
  <2>3. \A y \in net' \ net : y \in Segment /\ SegInv(y, wrote, finned)
    BY <2>1
  <2> HIDE DEF s, d
  <2> QED BY <1>1, <1>3, <1>4, <1>5, <1>6, <1>7, <1>8, <2>1, <2>2, <2>3, DrainStep, Zenon
<1>10. CASE Appends(m, c)
  <2>1. /\ conns' = [conns EXCEPT ![n][s] = e] /\ net' = net \cup {AckOf(n, e)}
        /\ delivered' = [delivered EXCEPT ![c.rid] = Len(c.read) + Len(e.inbox)]
    BY <1>10 DEF HandleData
  <2> HIDE DEF c, d
  <2>2. /\ d.inbox \o m.data \in Seq(Byte)
        /\ Len(d.inbox \o m.data) = Len(d.inbox) + Len(m.data)
    <3>1. d.inbox \in Seq(Byte)
      BY <1>3 DEF VTcpConn
    <3> QED BY <1>2, <3>1, ConcatProperties
  <2>3. Plus(d.their_seq, Len(m.data)) \in SeqNo
    BY <1>2, <1>3, PlusType, IsnType DEF VTcpConn
  <2>4. e \in VTcpConn
    <3>1. PICK b \in Seq(Byte) : b = d.inbox \o m.data
      BY <2>2, Zenon
    <3>2. PICK q \in SeqNo : q = Plus(d.their_seq, Len(m.data))
      BY <2>3, Zenon
    <3>3. [d EXCEPT !.inbox = b, !.their_seq = q] \in VTcpConn
      BY <1>3 DEF VTcpConn
    <3> QED BY <3>1, <3>2, <3>3, Zenon
  <2>5. /\ e.used = d.used /\ e.established = d.established /\ e.syn_sent = d.syn_sent
        /\ e.peer = d.peer /\ e.our_seq = d.our_seq /\ e.our_isn = d.our_isn
        /\ e.their_seq = Plus(d.their_seq, Len(m.data))
        /\ e.inbox = d.inbox \o m.data /\ e.read = d.read
        /\ e.unacked = d.unacked
        /\ e.unacked_seq = d.unacked_seq /\ e.sid = d.sid /\ e.rid = d.rid
    BY <1>3 DEF VTcpConn
  <2> HIDE DEF e
  <2>6. /\ c.their_seq = Plus(c.rid, Len(Received(c)) + 1)
        /\ Len(Received(c)) + Len(m.data) <= wrote[c.rid]
        /\ \A j \in 1 .. Len(m.data) : m.data[j] = <<c.rid, Len(Received(c)) + j>>
    BY <1>1, <1>10, AppendedIsNext
  <2>7. c.established /\ Established(c, wrote, finned) /\ c.rid \in ISN
    BY <1>1, <1>10 DEF Appends, ConnInv, Established
  <2>8. /\ c.read \in Seq(Byte) /\ c.inbox \in Seq(Byte)
        /\ Len(c.read) \in Nat /\ Len(c.inbox) \in Nat
        /\ \A j \in 1 .. Len(c.read \o c.inbox) : (c.read \o c.inbox)[j] = <<c.rid, j>>
        /\ \A j \in 1 .. Len(m.data) : m.data[j] = <<c.rid, Len(c.read \o c.inbox) + j>>
    <3>1. c.read \in Seq(Byte) /\ c.inbox \in Seq(Byte)
      BY <1>1 DEF VTcpConn
    <3>2. Len(c.read) \in Nat /\ Len(c.inbox) \in Nat
      BY <3>1
    <3> QED BY <2>6, <2>7, <3>1, <3>2 DEF Established, PrefixOf, Received
  <2>9. Received(e) = c.read \o (c.inbox \o m.data)
    BY <1>4, <2>5, Zenon DEF Received
  \* Appending the next stretch of a stream to a prefix of it gives a prefix.
  <2>10. /\ Len(c.read \o c.inbox) = Len(c.read) + Len(c.inbox)
         /\ Len(c.read \o (c.inbox \o m.data)) = Len(c.read \o c.inbox) + Len(m.data)
         /\ \A j \in 1 .. Len(c.read \o (c.inbox \o m.data)) :
               (c.read \o (c.inbox \o m.data))[j] = <<c.rid, j>>
    <3>1. PICK x \in Seq(Byte), b \in Seq(Byte), t \in Seq(Byte) :
             x = c.read /\ b = c.inbox /\ t = m.data
      BY <1>2, <2>8, Zenon
    <3>2. /\ \A j \in 1 .. Len(x \o b) : (x \o b)[j] = <<c.rid, j>>
          /\ \A j \in 1 .. Len(t) : t[j] = <<c.rid, Len(x \o b) + j>>
      BY <2>8, <3>1, Zenon
    <3>3. /\ Len(x \o b) = Len(x) + Len(b)
          /\ Len(x \o (b \o t)) = Len(x \o b) + Len(t)
          /\ \A j \in 1 .. Len(x \o (b \o t)) : (x \o (b \o t))[j] = <<c.rid, j>>
      <4>1. PICK y \in Seq(Byte) : y = x \o b
        <5>1. x \o b \in Seq(Byte)
          BY ConcatProperties
        <5> QED BY <5>1, Zenon
      <4>2. x \o (b \o t) = (x \o b) \o t
        OBVIOUS
      <4>3. x \o (b \o t) = y \o t
        BY <4>1, <4>2, Zenon
      <4>4. PICK z \in Seq(Byte) : z = y \o t
        <5>1. y \o t \in Seq(Byte)
          BY ConcatProperties
        <5> QED BY <5>1, Zenon
      <4>5. Len(y) = Len(x) + Len(b) /\ Len(y) \in Nat /\ Len(t) \in Nat
        BY <4>1
      <4>6. /\ Len(z) = Len(y) + Len(t)
            /\ \A j \in 1 .. Len(y) + Len(t) : z[j] = IF j <= Len(y) THEN y[j] ELSE t[j - Len(y)]
        BY <4>4
      <4>7. /\ \A j \in 1 .. Len(y) : y[j] = <<c.rid, j>>
            /\ \A j \in 1 .. Len(t) : t[j] = <<c.rid, Len(y) + j>>
        BY <3>2, <4>1, Zenon
      <4>8. ASSUME NEW j \in 1 .. Len(z) PROVE z[j] = <<c.rid, j>>
        <5>1. CASE j <= Len(y)
          BY <4>5, <4>6, <4>7, <5>1
        <5>2. CASE ~(j <= Len(y))
          <6>1. j - Len(y) \in 1 .. Len(t) /\ Len(y) + (j - Len(y)) = j
            BY <4>5, <4>6, <5>2
          <6> QED BY <4>5, <4>6, <4>7, <5>2, <6>1
        <5> QED BY <5>1, <5>2
      <4>9. x \o (b \o t) = z
        BY <4>3, <4>4, Zenon
      <4> QED BY <4>1, <4>5, <4>6, <4>8, <4>9, Zenon
    <3> QED BY <3>1, <3>3, Zenon
  <2>a. PICK L \in Nat : L = Len(Received(c)) /\ L = Len(c.read) + Len(c.inbox)
    <3>0. PICK a \in Nat, b \in Nat : a = Len(c.read) /\ b = Len(c.inbox)
      BY <2>8, Zenon
    <3>1. Len(c.read) + Len(c.inbox) \in Nat
      <4>1. a + b \in Nat
        OBVIOUS
      <4> QED BY <3>0, <4>1, Zenon
    <3>2. Len(Received(c)) = Len(c.read) + Len(c.inbox)
      BY <2>10, Zenon DEF Received
    <3> QED BY <3>1, <3>2, Zenon
  <2>b. PICK l \in Nat : l = Len(m.data)
    BY <1>2, Zenon
  <2>c. Len(Received(e)) = L + l
    <3>1. Len(c.read \o (c.inbox \o m.data)) = Len(Received(c)) + Len(m.data)
      BY <2>10, Zenon DEF Received
    <3>2. Len(Received(e)) = Len(Received(c)) + Len(m.data)
      BY <2>9, <3>1, Zenon
    <3> QED BY <2>a, <2>b, <3>2, Zenon
  <2>11. PrefixOf(wrote, c.rid, Received(e))
    <3>1. \A j \in 1 .. Len(Received(e)) : Received(e)[j] = <<c.rid, j>>
      BY <2>9, <2>10, Zenon
    <3>2. Len(Received(e)) <= wrote[c.rid]
      BY <2>6, <2>a, <2>b, <2>c
    <3> QED BY <3>1, <3>2 DEF PrefixOf
  <2>12. e.their_seq = Plus(c.rid, Len(Received(e)) + 1)
    <3>0. c.rid \in Nat
      BY <2>7, IsnType, Zenon
    <3>1. c.rid \in Nat /\ L + 1 \in Nat
      BY <3>0
    <3>2. Plus(Plus(c.rid, L + 1), l) = Plus(c.rid, (L + 1) + l)
      BY <3>1, PlusPlus
    <3>3. (L + 1) + l = (L + l) + 1
      OBVIOUS
    <3>4. e.their_seq = Plus(Plus(c.rid, L + 1), l)
      BY <1>4, <2>5, <2>6, <2>a, <2>b, Zenon
    <3> QED BY <2>c, <3>2, <3>3, <3>4, Zenon
  <2>13. ConnInv(e, wrote, isns, finned) /\ e.peer \in Console
    <3>1. Established(d, wrote, finned) /\ d.established /\ d.used
      BY <1>1, <1>4, <1>5, <2>7 DEF ConnInv
    <3>2. Established(e, wrote, finned)
      <4>1. Len(e.inbox) <= VTcpInboxCap
        <5>1. Len(c.inbox) + Len(m.data) <= VTcpInboxCap
          BY <1>10 DEF Appends
        <5>2. Len(e.inbox) = Len(c.inbox) + Len(m.data)
          BY <1>4, <2>2, <2>5, Zenon
        <5> QED BY <5>1, <5>2, Zenon
      <4> QED BY <1>4, <2>5, <2>11, <2>12, <3>1, <4>1 DEF Established
    <3> QED BY <1>5, <2>5, <3>1, <3>2 DEF ConnInv
  <2>14. AckOf(n, e) \in Segment /\ SegInv(AckOf(n, e), wrote, finned)
    BY <2>4, <2>13, BareSegment DEF AckOf, VTcpConn
  <2>15. delivered' \in [ISN -> 0 .. MaxStream]
    <3>1. PICK a \in Nat, b \in Nat : a = Len(c.read) /\ b = Len(c.inbox)
      BY <2>8, Zenon
    <3>2. Len(e.inbox) = b + l
      BY <1>4, <2>2, <2>5, <2>b, <3>1, Zenon
    <3>3. PICK w \in 0 .. MaxStream : w = wrote[c.rid]
      BY <2>7 DEF IInv, TypeOK
    <3>4. L + l <= w /\ L = a + b
      BY <2>6, <2>a, <2>b, <3>1, <3>3, Zenon
    <3>5. a + (b + l) \in 0 .. MaxStream
      BY <3>4, SizesAssumption
    <3>6. Len(c.read) + Len(e.inbox) \in 0 .. MaxStream
      BY <3>1, <3>2, <3>5, Zenon
    <3> QED BY <2>1, <3>6 DEF IInv, TypeOK
  <2>16. \A y \in net' \ net : y \in Segment /\ SegInv(y, wrote, finned)
    BY <2>1, <2>14
  <2>17. conns[n][s].used /\ e.sid = conns[n][s].sid
    BY <1>1, <1>4, <2>5 DEF c
  <2> HIDE DEF s
  <2> QED BY <1>1, <1>6, <1>7, <1>8, <2>1, <2>4, <2>13, <2>15, <2>16, <2>17, DrainStep, Zenon
<1> QED BY <1>9, <1>10

\* The final ACK only marks the pending accept.
LEMMA HandleFinalAckIInv ==
    ASSUME IInv, NEW n \in Console, NEW m \in net, HandleFinalAck(n, m)
    PROVE  IInv'
<1> DEFINE k == First(Completed(n, m.src, m.ack))
           q == [pending[n][k] EXCEPT !.got_final_ack = TRUE]
<1>1. k \in PSlot
  <2>1. Completed(n, m.src, m.ack) \in SUBSET Nat /\ Completed(n, m.src, m.ack) \subseteq PSlot
    BY SlotFacts DEF Completed, PendingOf
  <2> QED BY <2>1, FirstInSet DEF HandleFinalAck
<1>2. pending[n][k] \in PendingAccept
  BY <1>1 DEF IInv, TypeOK
<1>3. /\ q \in PendingAccept /\ q.used = pending[n][k].used /\ q.peer = pending[n][k].peer
      /\ q.our_isn = pending[n][k].our_isn /\ q.their_isn = pending[n][k].their_isn
  BY <1>2 DEF PendingAccept
<1>4. pending' = [pending EXCEPT ![n][k] = q]
  BY <1>1 DEF HandleFinalAck, IInv, TypeOK
<1>5. UNCHANGED <<owner, listenFd, nextFd, conns, call, openFd, net, history>>
  BY DEF HandleFinalAck
<1> HIDE DEF k, q
<1>6. TypeOK'
  <2>1. pending' \in [Console -> [PSlot -> PendingAccept]]
    BY <1>1, <1>3, <1>4 DEF IInv, TypeOK
  <2> QED BY <1>5, <2>1 DEF IInv, TypeOK, history
<1>7. \A p \in Console, j \in PSlot :
         /\ pending'[p][j].used = pending[p][j].used
         /\ pending'[p][j].peer = pending[p][j].peer
         /\ pending'[p][j].our_isn = pending[p][j].our_isn
         /\ pending'[p][j].their_isn = pending[p][j].their_isn
  BY <1>1, <1>3, <1>4 DEF IInv, TypeOK
<1>8. OneWriter'
  BY <1>5, <1>7 DEF IInv, OneWriter
<1>9. PendsInv'
  BY <1>5, <1>7 DEF IInv, PendsInv, PendInv, history
<1>10. ConnsInv' /\ SegsInv' /\ CallsInv' /\ FreshInv'
  BY <1>5 DEF IInv, ConnsInv, SegsInv, CallsInv, FreshInv, history
<1> QED BY <1>6, <1>8, <1>9, <1>10 DEF IInv

\* A number GenerateRandomBytes draws is new: no table, no stream knows it.
LEMMA FreshIsn ==
    ASSUME IInv, NEW i \in RandomIsn
    PROVE  /\ i \in ISN /\ i \in SeqNo /\ i \notin isns /\ i \notin finned /\ wrote[i] = 0
           /\ \A n \in Console, s \in Slot : conns[n][s].used => conns[n][s].sid # i
           /\ \A n \in Console, k \in PSlot : pending[n][k].used => pending[n][k].our_isn # i
<1>1. i \in ISN \ isns
  BY DEF RandomIsn
<1>2. i \notin finned /\ wrote[i] = 0 /\ i \in SeqNo
  BY <1>1, IsnType DEF IInv, FreshInv
<1>3. \A n \in Console, s \in Slot : conns[n][s].used => conns[n][s].sid # i
  BY <1>1 DEF IInv, ConnsInv, ConnInv
<1>4. \A n \in Console, k \in PSlot : pending[n][k].used => pending[n][k].our_isn # i
  BY <1>1 DEF IInv, PendsInv, PendInv
<1> QED BY <1>1, <1>2, <1>3, <1>4

\* A SYN starts a pending accept with a stream of its own.
LEMMA HandleSynIInv ==
    ASSUME IInv, NEW n \in Console, NEW m \in net, HandleSyn(n, m)
    PROVE  IInv'
<1> DEFINE k == First(FreePendings(n))
<1>1. PICK i \in RandomIsn :
        /\ isns' = isns \cup {i}
        /\ pending' = [pending EXCEPT ![n][k] =
              [used |-> TRUE, peer |-> m.src, our_isn |-> i, their_isn |-> m.seq,
               got_final_ack |-> FALSE]]
        /\ net' = net \cup {Seg("SYNACK", n, m.src, i, Plus(m.seq, 1), << >>)}
        /\ offered' = offered \cup {<<m.seq, i>>}
  BY DEF HandleSyn
<1>2. k \in PSlot /\ ~pending[n][k].used
  BY LookupTypes DEF HandleSyn, AnswersSyn, IInv
<1>3. m \in Segment /\ m.src \in Console /\ m.seq \in ISN /\ m.seq \in SeqNo /\ Plus(m.seq, 1) \in SeqNo
  <2>1. m \in Segment /\ m.src \in Console /\ m.seq \in ISN
    BY DEF IInv, TypeOK, SegsInv, SegInv, HandleSyn, Segment
  <2> QED BY <2>1, PlusType, IsnType
<1>4. /\ i \in ISN /\ i \in SeqNo /\ i \notin isns /\ i \notin finned /\ wrote[i] = 0
      /\ \A p \in Console, s \in Slot : conns[p][s].used => conns[p][s].sid # i
      /\ \A p \in Console, j \in PSlot : pending[p][j].used => pending[p][j].our_isn # i
  BY FreshIsn
<1> DEFINE q == [used |-> TRUE, peer |-> m.src, our_isn |-> i, their_isn |-> m.seq,
                 got_final_ack |-> FALSE]
           g == Seg("SYNACK", n, m.src, i, Plus(m.seq, 1), << >>)
<1>5. /\ q \in PendingAccept
      /\ q.used /\ q.peer = m.src /\ q.our_isn = i /\ q.their_isn = m.seq
  BY <1>3, <1>4 DEF PendingAccept
<1>6. /\ g \in Segment
      /\ g.kind = "SYNACK" /\ g.seq = i /\ g.data = << >>
  BY <1>3, <1>4 DEF Seg, Segment, Kind
<1>7. /\ UNCHANGED <<owner, listenFd, nextFd, conns, call, openFd,
                     wrote, delivered, acked, paired, finned, forwarded>>
      /\ pending' = [pending EXCEPT ![n][k] = q]
      /\ net' = net \cup {g}
  BY <1>1 DEF HandleSyn
<1> HIDE DEF k, q, g
<1>8. TypeOK'
  <2>1. pending' \in [Console -> [PSlot -> PendingAccept]]
    BY <1>2, <1>5, <1>7 DEF IInv, TypeOK
  <2>2. net' \subseteq Segment /\ isns' \subseteq ISN /\ offered' \subseteq ISN \X ISN
    BY <1>1, <1>3, <1>4, <1>6, <1>7 DEF IInv, TypeOK
  <2> QED BY <1>7, <2>1, <2>2 DEF IInv, TypeOK
<1>9. \A p \in Console, j \in PSlot :
         pending'[p][j] = IF p = n /\ j = k THEN q ELSE pending[p][j]
  BY <1>2, <1>7 DEF IInv, TypeOK
<1>10. OneWriter'
  BY <1>2, <1>4, <1>5, <1>7, <1>9 DEF IInv, OneWriter
<1>11. ConnsInv'
  BY <1>1, <1>7 DEF IInv, ConnsInv, ConnInv
<1>12. PendsInv'
  BY <1>1, <1>3, <1>4, <1>5, <1>7, <1>9 DEF IInv, PendsInv, PendInv
<1>13. SegsInv'
  BY <1>4, <1>6, <1>7 DEF IInv, SegsInv, SegInv
<1>14. CallsInv' /\ FreshInv'
  BY <1>1, <1>7 DEF IInv, CallsInv, FreshInv
<1> QED BY <1>8, <1>10, <1>11, <1>12, <1>13, <1>14 DEF IInv

\* Connect starts a connection with a stream of its own.
LEMMA ConnectIInv ==
    ASSUME IInv, NEW n \in Console, NEW fd \in RealFd, NEW p \in Console, Connect(n, fd, p)
    PROVE  IInv'
<1> DEFINE s == First(FreeSlots(n))
<1>1. PICK i \in RandomIsn :
        /\ isns' = isns \cup {i}
        /\ conns' = [conns EXCEPT ![n][s] =
              [FreeConn EXCEPT !.used = TRUE, !.fd = fd, !.peer = p,
                               !.our_isn = i, !.syn_sent = TRUE, !.sid = i]]
        /\ call' = [call EXCEPT ![n] = [phase |-> "wait", fd |-> fd, dst |-> p,
                                        isn |-> i, attempt |-> 1]]
        /\ net' = net \cup {Seg("SYN", n, p, i, 0, << >>)}
  BY DEF Connect
<1> DEFINE d == [FreeConn EXCEPT !.used = TRUE, !.fd = fd, !.peer = p,
                                 !.our_isn = i, !.syn_sent = TRUE, !.sid = i]
           k == [phase |-> "wait", fd |-> fd, dst |-> p, isn |-> i, attempt |-> 1]
           g == Seg("SYN", n, p, i, 0, << >>)
<1>2. s \in Slot /\ ~conns[n][s].used
  BY LookupTypes DEF Connect, IInv
<1>3. /\ i \in ISN /\ i \in SeqNo /\ i \notin isns /\ i \notin finned /\ wrote[i] = 0
      /\ \A o \in Console, t \in Slot : conns[o][t].used => conns[o][t].sid # i
      /\ \A o \in Console, j \in PSlot : pending[o][j].used => pending[o][j].our_isn # i
  BY FreshIsn
<1>4. fd \in Int /\ 0 \in SeqNo
  BY FdAssumption, IsnType
<1>5. d \in VTcpConn
  BY <1>3, <1>4, FreeConnType DEF VTcpConn
<1>6. /\ d.used /\ d.sid = i /\ d.peer = p /\ ~d.established /\ d.our_isn = i
      /\ d.inbox = << >> /\ d.read = << >> /\ d.unacked = << >>
  BY DEF FreeConn
<1>7. k \in Call /\ CallInv(k)
  BY <1>3, <1>4 DEF Call, CallInv
<1>8. g \in Segment /\ g.kind = "SYN" /\ g.seq = i /\ g.data = << >>
  BY <1>3, <1>4 DEF Seg, Segment, Kind
<1>9. /\ UNCHANGED <<owner, listenFd, nextFd, pending,
                     wrote, delivered, acked, offered, paired, finned, forwarded>>
      /\ openFd' = [openFd EXCEPT ![n] = @ \cup {fd}]
      /\ conns' = [conns EXCEPT ![n][s] = d]
      /\ call' = [call EXCEPT ![n] = k]
      /\ net' = net \cup {g}
  BY <1>1 DEF Connect
<1> HIDE DEF s, d, k, g
<1>10. TypeOK'
  <2>1. conns' \in [Console -> [Slot -> VTcpConn]]
    BY <1>2, <1>5, <1>9 DEF IInv, TypeOK
  <2>2. call' \in [Console -> Call] /\ openFd' \in [Console -> SUBSET Int]
    BY <1>4, <1>7, <1>9 DEF IInv, TypeOK
  <2>3. net' \subseteq Segment /\ isns' \subseteq ISN
    BY <1>1, <1>3, <1>8, <1>9 DEF IInv, TypeOK
  <2> QED BY <1>9, <2>1, <2>2, <2>3 DEF IInv, TypeOK
<1>11. \A o \in Console, t \in Slot :
         conns'[o][t] = IF o = n /\ t = s THEN d ELSE conns[o][t]
  BY <1>2, <1>9 DEF IInv, TypeOK
<1>12. OneWriter'
  BY <1>2, <1>3, <1>6, <1>9, <1>11 DEF IInv, OneWriter
<1>13. ConnsInv'
  <2>1. ConnInv(d, wrote, isns', finned)
    BY <1>1, <1>3, <1>6 DEF ConnInv, Opening
  <2>2. ASSUME NEW o \in Console, NEW t \in Slot, ~(o = n /\ t = s)
        PROVE  ConnInv(conns'[o][t], wrote, isns', finned)
    <3>1. ConnInv(conns[o][t], wrote, isns, finned) /\ conns'[o][t] = conns[o][t]
      BY <1>11, <2>2 DEF IInv, ConnsInv
    <3>2. ConnInv(conns[o][t], wrote, isns', finned)
      <4>1. \A x : x \in isns => x \in isns'
        BY <1>1
      <4> HIDE DEF d, s, k, g
      <4> QED BY <3>1, <4>1, Zenon DEF ConnInv
    <3> QED BY <3>1, <3>2, Zenon
  <2>3. ASSUME NEW o \in Console, NEW t \in Slot
        PROVE  ConnInv(conns'[o][t], wrote, isns', finned)
    BY <1>11, <2>1, <2>2
  <2> QED BY <1>9, <2>3 DEF ConnsInv
<1>14. PendsInv'
  BY <1>1, <1>9 DEF IInv, PendsInv, PendInv
<1>15. SegsInv'
  BY <1>3, <1>8, <1>9 DEF IInv, SegsInv, SegInv
<1>16. CallsInv' /\ FreshInv'
  BY <1>1, <1>7, <1>9 DEF IInv, TypeOK, CallsInv, FreshInv
<1> QED BY <1>10, <1>12, <1>13, <1>14, <1>15, <1>16 DEF IInv

\* Accept moves a stream from the pending accept to a connection.
LEMMA AcceptIInv ==
    ASSUME IInv, NEW n \in Console, Accept(n)
    PROVE  IInv'
<1> DEFINE ready == {j \in PSlot : pending[n][j].used /\ pending[n][j].got_final_ack}
           k == First(ready)
           s == First(FreeSlots(n))
           p == pending[n][k]
           q == [p EXCEPT !.used = FALSE]
           d == [FreeConn EXCEPT !.used = TRUE, !.fd = nextFd[n],
                                 !.established = TRUE, !.peer = p.peer,
                                 !.our_seq = Plus(p.our_isn, 1),
                                 !.their_seq = Plus(p.their_isn, 1),
                                 !.sid = p.our_isn, !.rid = p.their_isn]
<1>1. k \in PSlot /\ p.used
  <2>1. ready \in SUBSET Nat /\ ready # {}
    BY SlotFacts DEF Accept
  <2>2. First(ready) \in ready
    BY <2>1, FirstInSet
  <2> QED BY <2>2
<1>2. s \in Slot /\ ~conns[n][s].used
  BY LookupTypes DEF Accept, IInv
<1>3. p \in PendingAccept /\ PendInv(p, wrote, isns, finned)
  BY <1>1 DEF IInv, TypeOK, PendsInv
<1>4. /\ p.our_isn \in isns /\ p.our_isn \in ISN /\ p.our_isn \in SeqNo /\ p.our_isn \notin finned
      /\ wrote[p.our_isn] = 0 /\ p.their_isn \in ISN /\ p.their_isn \in SeqNo
      /\ p.peer \in Console
  BY <1>1, <1>3, IsnType DEF PendInv, IInv, TypeOK
<1>5. Plus(p.our_isn, 1) \in SeqNo /\ Plus(p.their_isn, 1) \in SeqNo /\ nextFd[n] \in Int
  BY <1>4, PlusType, IsnType DEF IInv, TypeOK
<1>6. q \in PendingAccept /\ ~q.used
  BY <1>3 DEF PendingAccept
<1>7. /\ pending' = [pending EXCEPT ![n][k] = q]
      /\ conns' = [conns EXCEPT ![n][s] = d]
      /\ nextFd' = [nextFd EXCEPT ![n] = @ + 1]
      /\ openFd' = [openFd EXCEPT ![n] = @ \cup {nextFd[n]}]
      /\ UNCHANGED <<owner, listenFd, call, net, history>>
  BY DEF Accept
<1> HIDE DEF ready, k, s, p, q
<1>8. d \in VTcpConn
  BY <1>4, <1>5, FreeConnType DEF VTcpConn
<1>9. /\ d.used /\ d.established /\ ~d.syn_sent /\ d.sid = p.our_isn /\ d.rid = p.their_isn
      /\ d.peer = p.peer /\ d.our_seq = Plus(p.our_isn, 1)
      /\ d.their_seq = Plus(p.their_isn, 1)
      /\ d.inbox = << >> /\ d.read = << >> /\ d.unacked = << >>
  BY DEF FreeConn
<1> HIDE DEF d
<1>10. TypeOK'
  <2>1. conns' \in [Console -> [Slot -> VTcpConn]]
    BY <1>2, <1>7, <1>8 DEF IInv, TypeOK
  <2>2. pending' \in [Console -> [PSlot -> PendingAccept]]
    BY <1>1, <1>6, <1>7 DEF IInv, TypeOK
  <2>3. nextFd' \in [Console -> Int] /\ openFd' \in [Console -> SUBSET Int]
    BY <1>5, <1>7 DEF IInv, TypeOK
  <2> QED BY <1>7, <2>1, <2>2, <2>3 DEF IInv, TypeOK, history
<1>11. /\ \A o \in Console, t \in Slot :
             conns'[o][t] = IF o = n /\ t = s THEN d ELSE conns[o][t]
       /\ \A o \in Console, j \in PSlot :
             pending'[o][j] = IF o = n /\ j = k THEN q ELSE pending[o][j]
  BY <1>1, <1>2, <1>7 DEF IInv, TypeOK
<1>12. UNCHANGED <<wrote, isns, finned>>
  BY <1>7 DEF history
<1>13. OneWriter'
  <2>1. /\ \A o \in Console, t \in Slot : conns[o][t].used => conns[o][t].sid # p.our_isn
        /\ \A o \in Console, j \in PSlot :
              (pending[o][j].used /\ ~(o = n /\ j = k)) => pending[o][j].our_isn # p.our_isn
    BY <1>1 DEF IInv, OneWriter, p
  <2> QED BY <1>6, <1>9, <1>11, <2>1 DEF IInv, OneWriter
<1>14. ConnsInv'
  <2>1. Received(d) = << >> /\ Len(<< >>) = 0
    BY <1>9 DEF Received
  <2>2. PrefixOf(wrote, d.rid, Received(d))
    BY <1>4, <1>9, <2>1 DEF PrefixOf, IInv, TypeOK
  <2>3. d.their_seq = Plus(d.rid, Len(Received(d)) + 1)
    BY <1>9, <2>1
  <2>4. d.our_seq = Plus(d.sid, wrote[d.sid] + 1)
    BY <1>4, <1>9
  <2>5. Established(d, wrote, finned)
    <3>1. Len(d.inbox) = 0
      BY <1>9, <2>1, Zenon
    <3>2. Len(d.inbox) <= VTcpInboxCap
      BY <3>1, SizesAssumption
    <3> QED BY <1>4, <1>9, <2>2, <2>3, <2>4, <3>2 DEF Established
  <2>6. ConnInv(d, wrote, isns, finned)
    BY <1>4, <1>9, <2>5 DEF ConnInv
  <2> QED BY <1>11, <1>12, <2>6 DEF IInv, ConnsInv
<1>15. PendsInv'
  BY <1>6, <1>11, <1>12 DEF IInv, PendsInv, PendInv
<1>16. SegsInv' /\ CallsInv' /\ FreshInv'
  BY <1>7, <1>12 DEF IInv, SegsInv, CallsInv, FreshInv
<1> QED BY <1>10, <1>13, <1>14, <1>15, <1>16 DEF IInv

\* Close ends a stream, and its FIN stands at the end of it.
LEMMA CloseConnIInv ==
    ASSUME IInv, NEW n \in Console, NEW fd \in openFd[n], CloseConn(n, fd)
    PROVE  IInv'
<1> DEFINE s == First(ByFd(n, fd))
           c == conns[n][s]
           g == Seg("FIN", n, c.peer, c.our_seq, c.their_seq, << >>)
<1>1. s \in Slot /\ c.used /\ c \in VTcpConn /\ ConnInv(c, wrote, isns, finned)
  BY LookupTypes DEF CloseConn, IInv, TypeOK, ConnsInv
<1>2. c.sid \in isns /\ c.sid \in ISN /\ c.sid \notin finned /\ c.peer \in Console
  BY <1>1 DEF ConnInv, IInv, TypeOK
<1>3. g \in Segment /\ g.kind = "FIN" /\ g.seq = c.our_seq /\ g.data = << >>
  BY <1>1, <1>2 DEF Seg, Segment, Kind, VTcpConn
<1>4. /\ net' = IF c.established THEN net \cup {g} ELSE net
      /\ finned' = IF c.established THEN finned \cup {c.sid} ELSE finned
      /\ conns' = [conns EXCEPT ![n][s] = FreeConn]
      /\ listenFd' = IF listenFd[n] = fd THEN [listenFd EXCEPT ![n] = NoFd] ELSE listenFd
      /\ openFd' = [openFd EXCEPT ![n] = @ \ {fd}]
      /\ UNCHANGED <<owner, nextFd, pending, call,
                     isns, wrote, delivered, acked, offered, paired>>
      /\ forwarded' \subseteq forwarded \cup {<<n, fd>>}
  BY DEF CloseConn, Forward
<1>5. c.established => c.our_seq = Plus(c.sid, wrote[c.sid] + 1)
  BY <1>1 DEF ConnInv, Established
<1> HIDE DEF s, g
<1>6. TypeOK'
  <2>1. conns' \in [Console -> [Slot -> VTcpConn]]
    BY <1>1, <1>4, FreeConnType DEF IInv, TypeOK
  <2>2. listenFd' \in [Console -> Int]
    BY <1>4 DEF IInv, TypeOK, NoFd
  <2>3. openFd' \in [Console -> SUBSET Int]
    BY <1>4 DEF IInv, TypeOK
  <2>4. net' \subseteq Segment /\ finned' \subseteq ISN
    BY <1>2, <1>3, <1>4 DEF IInv, TypeOK
  <2>5. forwarded' \subseteq Console \X Int
    BY <1>4 DEF IInv, TypeOK
  <2> QED BY <1>4, <2>1, <2>2, <2>3, <2>4, <2>5 DEF IInv, TypeOK
<1>7. \A o \in Console, t \in Slot :
         conns'[o][t] = IF o = n /\ t = s THEN FreeConn ELSE conns[o][t]
  BY <1>1, <1>4 DEF IInv, TypeOK
<1>8. ~FreeConn.used
  BY DEF FreeConn
<1>9. /\ \A o \in Console, t \in Slot :
            (conns[o][t].used /\ ~(o = n /\ t = s)) => conns[o][t].sid # c.sid
      /\ \A o \in Console, j \in PSlot : pending[o][j].used => pending[o][j].our_isn # c.sid
  BY <1>1 DEF IInv, OneWriter
<1>10. OneWriter'
  BY <1>4, <1>7, <1>8 DEF IInv, OneWriter
<1> HIDE DEF c
<1>11. finned \subseteq finned' /\ finned' \subseteq finned \cup {c.sid}
  BY <1>4
<1>12. ConnsInv'
  <2>1. ASSUME NEW o \in Console, NEW t \in Slot, conns'[o][t].used
        PROVE  ConnInv(conns'[o][t], wrote', isns', finned')
    <3>1. conns'[o][t] = conns[o][t] /\ ~(o = n /\ t = s)
      BY <1>7, <1>8, <2>1
    <3>2. /\ conns[o][t] \in VTcpConn /\ ConnInv(conns[o][t], wrote, isns, finned)
          /\ conns[o][t].used
      BY <2>1, <3>1 DEF IInv, TypeOK, ConnsInv
    <3>3. conns[o][t].sid \notin finned'
      BY <1>9, <1>11, <3>1, <3>2 DEF ConnInv
    <3>4. /\ wrote \in [ISN -> 0 .. MaxStream] /\ isns \in SUBSET ISN
          /\ finned \in SUBSET ISN /\ finned' \in SUBSET ISN
      BY <1>6 DEF IInv, TypeOK
    <3>5. \A i \in ISN : wrote[i] <= wrote[i]
      BY <3>4
    <3>6. ConnInv(conns[o][t], wrote, isns, finned')
      BY <1>11, <3>2, <3>3, <3>4, <3>5, ConnMonotone
    <3> QED BY <1>4, <3>1, <3>6
  <2> QED BY <2>1 DEF ConnsInv, ConnInv
<1>13. PendsInv'
  BY <1>4, <1>9, <1>11 DEF IInv, PendsInv, PendInv
<1>14. SegsInv'
  <2>1. ASSUME NEW m \in net PROVE SegInv(m, wrote, finned')
    BY <1>11 DEF IInv, SegsInv, SegInv
  <2>2. c.established => SegInv(g, wrote, finned')
    BY <1>3, <1>4, <1>5 DEF SegInv
  <2> QED BY <1>4, <2>1, <2>2 DEF SegsInv
<1>15. CallsInv' /\ FreshInv'
  BY <1>2, <1>4, <1>11 DEF IInv, CallsInv, FreshInv
<1> QED BY <1>6, <1>10, <1>12, <1>13, <1>14, <1>15 DEF IInv

\* SendTo writes the next stretch of a stream only this connection writes to.
LEMMA SendToIInv ==
    ASSUME IInv, NEW n \in Console, NEW fd \in openFd[n], NEW len \in SendSizes,
           SendTo(n, fd, len)
    PROVE  IInv'
<1> DEFINE s == First(ByFd(n, fd))
           c == conns[n][s]
           x == [j \in 1 .. len |-> <<c.sid, wrote[c.sid] + j>>]
           g == Seg("ACK", n, c.peer, c.our_seq, c.their_seq, x)
           d == [c EXCEPT !.unacked = x, !.unacked_seq = c.our_seq,
                          !.retransmits = 0, !.our_seq = Plus(c.our_seq, Len(x))]
<1>1. s \in Slot /\ c.used /\ c \in VTcpConn /\ ConnInv(c, wrote, isns, finned)
  BY LookupTypes DEF SendTo, IInv, TypeOK, ConnsInv
<1>2. c.established /\ wrote[c.sid] + len <= MaxStream
  BY DEF SendTo
<1>3. /\ c.sid \in isns /\ c.sid \in ISN /\ c.sid \notin finned /\ c.peer \in Console
      /\ Established(c, wrote, finned) /\ c.our_seq = Plus(c.sid, wrote[c.sid] + 1)
  BY <1>1, <1>2 DEF ConnInv, Established, IInv, TypeOK
<1>4. /\ wrote \in [ISN -> 0 .. MaxStream] /\ wrote[c.sid] \in 0 .. MaxStream
      /\ len \in Nat \ {0} /\ MaxStream \in Nat
  BY <1>3, SizesAssumption DEF IInv, TypeOK
<1>5. /\ net' = net \cup {g}
      /\ conns' = [conns EXCEPT ![n][s] = d]
      /\ wrote' = [wrote EXCEPT ![c.sid] = @ + len]
      /\ UNCHANGED <<owner, listenFd, nextFd, pending, call, openFd,
                     isns, delivered, acked, offered, paired, finned, forwarded>>
  BY DEF SendTo, Sent
<1>6. /\ x \in Seq(Byte) /\ Len(x) = len /\ x # << >>
      /\ \A j \in 1 .. Len(x) : x[j] = <<c.sid, wrote[c.sid] + j>>
  <2> HIDE DEF c
  <2>1. PICK i \in ISN, k \in 0 .. MaxStream : i = c.sid /\ k = wrote[c.sid]
    BY <1>3, <1>4, Zenon
  <2>2. k + len <= MaxStream
    BY <1>2, <2>1, Zenon
  <2>3. PICK y : y = [j \in 1 .. len |-> <<i, k + j>>]
    OBVIOUS
  <2>4. /\ y \in Seq(Byte) /\ Len(y) = len /\ y # << >>
        /\ \A j \in 1 .. Len(y) : y[j] = <<i, k + j>>
    <3>1. \A j \in 1 .. len : k + j \in 1 .. MaxStream
      BY <1>4, <2>2
    <3>2. \A j \in 1 .. len : <<i, k + j>> \in Byte
      BY <3>1 DEF Byte
    <3>3. y \in [1 .. len -> Byte]
      BY <2>3, <3>2
    <3>4. y \in Seq(Byte)
      BY <1>4, <3>3, SeqDef
    <3>5. Len(y) = len
      BY <1>4, <3>3, <3>4, LenProperties
    <3> QED BY <1>4, <2>3, <3>4, <3>5
  <2>5. x = y
    BY <2>1, <2>3, Zenon
  <2> HIDE DEF x
  <2> QED BY <2>1, <2>4, <2>5, Zenon
<1> HIDE DEF x
<1>7. c.our_seq \in SeqNo /\ Plus(c.our_seq, len) \in SeqNo
  BY <1>1, <1>4, PlusType, IsnType DEF VTcpConn
<1>8. d \in VTcpConn
  BY <1>1, <1>6, <1>7 DEF VTcpConn
<1>9. /\ d.used = c.used /\ d.established = c.established /\ d.syn_sent = c.syn_sent
      /\ d.peer = c.peer /\ d.our_seq = Plus(c.our_seq, len)
      /\ d.their_seq = c.their_seq /\ d.inbox = c.inbox /\ d.read = c.read
      /\ d.unacked = x /\ d.unacked_seq = c.our_seq /\ d.sid = c.sid /\ d.rid = c.rid
  BY <1>1, <1>6 DEF VTcpConn
<1>10. g \in Segment /\ g.kind = "ACK" /\ g.seq = c.our_seq /\ g.data = x
  BY <1>1, <1>3, <1>6 DEF Seg, Segment, Kind, VTcpConn
<1>11. /\ \A o \in Console, t \in Slot :
             (conns[o][t].used /\ ~(o = n /\ t = s)) => conns[o][t].sid # c.sid
       /\ \A o \in Console, j \in PSlot : pending[o][j].used => pending[o][j].our_isn # c.sid
  BY <1>1 DEF IInv, OneWriter
<1>12. \A o \in Console, t \in Slot :
         conns'[o][t] = IF o = n /\ t = s THEN d ELSE conns[o][t]
  BY <1>1, <1>5 DEF IInv, TypeOK
<1>13. OneWriter'
  BY <1>5, <1>9, <1>12 DEF IInv, OneWriter
<1> HIDE DEF s, c, d, g
<1>14. /\ wrote' \in [ISN -> 0 .. MaxStream]
       /\ wrote'[c.sid] = wrote[c.sid] + len
       /\ \A i \in ISN : i # c.sid => wrote'[i] = wrote[i]
       /\ \A i \in ISN : wrote[i] <= wrote'[i]
       /\ \A i \in finned : wrote'[i] = wrote[i]
  <2>1. wrote[c.sid] + len \in 0 .. MaxStream
    BY <1>2, <1>4
  <2>2. wrote' \in [ISN -> 0 .. MaxStream]
    BY <1>4, <1>5, <2>1
  <2>3. /\ wrote'[c.sid] = wrote[c.sid] + len
        /\ \A i \in ISN : i # c.sid => wrote'[i] = wrote[i]
    BY <1>3, <1>4, <1>5
  <2>4. \A i \in ISN : wrote[i] <= wrote'[i]
    BY <1>4, <2>2, <2>3
  <2>5. \A i \in finned : wrote'[i] = wrote[i]
    BY <1>3, <2>3 DEF IInv, TypeOK
  <2> QED BY <2>2, <2>3, <2>4, <2>5
<1>15. TypeOK'
  <2>1. conns' \in [Console -> [Slot -> VTcpConn]]
    BY <1>1, <1>5, <1>8 DEF IInv, TypeOK
  <2>2. net' \subseteq Segment
    BY <1>5, <1>10 DEF IInv, TypeOK
  <2> QED BY <1>5, <1>14, <2>1, <2>2 DEF IInv, TypeOK
<1>16. DataOf(wrote', c.sid, c.our_seq, x)
  <2>1. PICK k \in 0 .. MaxStream : k = wrote[c.sid]
    BY <1>4, Zenon
  <2>2. c.our_seq = Plus(c.sid, k + 1)
    BY <1>3, <2>1, Zenon
  <2>3. k + Len(x) <= wrote'[c.sid]
    <3>1. wrote'[c.sid] = k + Len(x)
      BY <1>6, <1>14, <2>1, Zenon
    <3>2. k + len \in Nat
      BY <1>4
    <3>3. k + len <= k + len
      BY <3>2
    <3> QED BY <1>6, <3>1, <3>3, Zenon
  <2>4. \A j \in 1 .. Len(x) : x[j] = <<c.sid, k + j>>
    BY <1>6, <2>1, Zenon
  <2> QED BY <2>2, <2>3, <2>4, Zenon DEF DataOf
<1>17. ConnInv(d, wrote', isns', finned')
  <2>1. d.our_seq = Plus(d.sid, wrote'[d.sid] + 1)
    <3>1. PICK k \in 0 .. MaxStream : k = wrote[c.sid]
      BY <1>4, Zenon
    <3>0. c.sid \in Nat
      BY <1>3, IsnType, Zenon
    <3>2. c.sid \in Nat /\ k + 1 \in Nat
      BY <3>0
    <3>3. Plus(Plus(c.sid, k + 1), len) = Plus(c.sid, (k + 1) + len)
      BY <1>4, <3>2, PlusPlus
    <3>4. (k + 1) + len = (k + len) + 1
      BY <1>4
    <3>5. wrote'[c.sid] = k + len
      BY <1>14, <3>1, Zenon
    <3>6. d.our_seq = Plus(Plus(c.sid, k + 1), len) /\ d.sid = c.sid
      BY <1>3, <1>9, <3>1, Zenon
    <3> QED BY <3>3, <3>4, <3>5, <3>6, Zenon
  <2>2. Received(d) = Received(c)
    BY <1>9 DEF Received
  <2>3. PrefixOf(wrote, c.rid, Received(c)) /\ c.rid \in ISN
    BY <1>3 DEF Established
  <2>4. PrefixOf(wrote', d.rid, Received(d))
    <3>1. Len(Received(c)) \in Nat
      <4>1. Received(c) \in Seq(Byte)
        BY <1>1, ConcatProperties DEF VTcpConn, Received
      <4> QED BY <4>1
    <3>2. Len(Received(c)) <= wrote[c.rid] /\ wrote[c.rid] <= wrote'[c.rid]
      BY <1>14, <2>3 DEF PrefixOf
    <3>3. wrote[c.rid] \in Nat /\ wrote'[c.rid] \in Nat
      BY <1>4, <1>14, <2>3
    <3>4. Len(Received(c)) <= wrote'[c.rid]
      BY <3>1, <3>2, <3>3
    <3> QED BY <1>9, <2>2, <2>3, <3>4 DEF PrefixOf
  <2>5. \/ d.their_seq = Plus(d.rid, Len(Received(d)) + 1)
        \/ \E i \in finned : d.their_seq = Plus(i, wrote'[i] + 2)
    BY <1>3, <1>9, <1>14, <2>2 DEF Established
  <2>6. ~d.syn_sent /\ DataOf(wrote', d.sid, d.unacked_seq, d.unacked) /\ d.rid \in ISN
    BY <1>3, <1>9, <1>16, <2>3 DEF Established
  <2>7. Len(d.inbox) <= VTcpInboxCap
    BY <1>3, <1>9 DEF Established
  <2>8. Established(d, wrote', finned)
    BY <2>1, <2>4, <2>5, <2>6, <2>7 DEF Established
  <2> QED BY <1>1, <1>2, <1>3, <1>5, <1>9, <2>8 DEF ConnInv
<1>18. ConnsInv'
  <2>1. ASSUME NEW o \in Console, NEW t \in Slot, ~(o = n /\ t = s)
        PROVE  ConnInv(conns'[o][t], wrote', isns', finned')
    <3>1. conns'[o][t] = conns[o][t]
      BY <1>12, <2>1
    <3>2. conns[o][t] \in VTcpConn /\ ConnInv(conns[o][t], wrote, isns, finned)
      BY DEF IInv, TypeOK, ConnsInv
    <3>3. conns[o][t].used =>
             conns[o][t].sid \notin finned /\ wrote'[conns[o][t].sid] = wrote[conns[o][t].sid]
      BY <1>11, <1>14, <2>1, <3>2 DEF ConnInv, IInv, TypeOK
    <3>4. isns \in SUBSET ISN /\ finned \in SUBSET ISN
      BY DEF IInv, TypeOK
    <3>5. ConnInv(conns[o][t], wrote', isns, finned)
      BY <1>4, <1>14, <3>2, <3>3, <3>4, ConnMonotone
    <3> QED BY <1>5, <3>1, <3>5
  <2>2. ASSUME NEW o \in Console, NEW t \in Slot
        PROVE  ConnInv(conns'[o][t], wrote', isns', finned')
    BY <1>12, <1>17, <2>1
  <2> QED BY <2>2 DEF ConnsInv
<1>19. PendsInv'
  BY <1>5, <1>11, <1>14 DEF IInv, TypeOK, PendsInv, PendInv
<1>20. SegsInv'
  <2>1. ASSUME NEW m \in net PROVE SegInv(m, wrote', finned)
    <3>1. m \in Segment /\ SegInv(m, wrote, finned) /\ finned \in SUBSET ISN
      BY DEF IInv, TypeOK, SegsInv
    <3> QED BY <1>4, <1>14, <3>1, SegMonotone
  <2>2. SegInv(g, wrote', finned)
    BY <1>3, <1>10, <1>16 DEF SegInv
  <2> QED BY <1>5, <2>1, <2>2 DEF SegsInv
<1>21. CallsInv' /\ FreshInv'
  BY <1>3, <1>5, <1>14 DEF IInv, CallsInv, FreshInv
<1> QED BY <1>13, <1>15, <1>18, <1>19, <1>20, <1>21 DEF IInv
-----------------------------------------------------------------------------
\* Every step of every thread, of the relay and of the peers keeps the invariant.
LEMMA NextIInv == IInv /\ [Next]_vars => IInv'
<1> SUFFICES ASSUME IInv, [Next]_vars PROVE IInv'
  OBVIOUS
<1>1. CASE UNCHANGED vars
  BY <1>1, QuietStep DEF vars, IInv, TypeOK, CallsInv
<1>2. ASSUME NEW n \in Console, Command(n) PROVE IInv'
  <2>1. CASE BindControl(n) \/ CloseControl(n) \/ ProcessExit(n)
    BY <2>1, BindControlIInv
  <2>2. CASE Accept(n)
    BY <2>2, AcceptIInv
  <2>3. CASE \E fd \in RealFd : Listen(n, fd)
    BY <2>3, ListenIInv
  <2>4. CASE \E fd \in RealFd, p \in Console : Connect(n, fd, p)
    BY <2>4, ConnectIInv
  <2>5. CASE \E fd \in openFd[n] :
          \/ \E len \in SendSizes : SendTo(n, fd, len)
          \/ \E size \in ReadSizes : RecvFrom(n, fd, size)
          \/ RecvEof(n, fd)
          \/ CloseConn(n, fd)
          \/ CloseOther(n, fd)
    BY <2>5, SendToIInv, RecvFromIInv, RecvEofIInv, CloseConnIInv, CloseOtherIInv
  <2> QED BY <1>2, <2>1, <2>2, <2>3, <2>4, <2>5 DEF Command
<1>3. ASSUME NEW n \in Console, ConnectStep(n) PROVE IInv'
  BY <1>3, ConnectPollIInv, ConnectRetriesIInv, ConnectTimesOutIInv DEF ConnectStep
<1>4. ASSUME NEW n \in Console, Drain(n) PROVE IInv'
  <2>1. ASSUME NEW m \in net, HandleTcpSegment(n, m) PROVE IInv'
    BY <2>1, HandleRstIInv, HandleSynIInv, HandleSynAckIInv, HandleFinIInv,
       HandleFinalAckIInv, HandleDataIInv DEF HandleTcpSegment
  <2>2. ASSUME NEW s \in Slot, CheckDataRetransmits(n, s) PROVE IInv'
    BY <2>2, CheckDataRetransmitsIInv
  <2> QED BY <1>4, <2>1, <2>2 DEF Drain
<1>5. CASE Environment
  BY <1>5, LoseIInv, PeerResetsIInv DEF Environment
<1> QED BY <1>1, <1>2, <1>3, <1>4, <1>5 DEF Next

\* In every state VTcp can reach, for any number of consoles and any table sizes, the
\* invariant holds: one writer per stream, streams and segments that agree.
THEOREM Invariance == Spec => []IInv
BY InitIInv, NextIInv, PTL DEF Spec

\* Type correctness: no operation stores a value outside its field's type; sequence
\* numbers stay in 32 bits and nothing is written past the bound of a stream.
THEOREM TypeCorrect == Spec => []TypeOK
<1>1. IInv => TypeOK
  BY DEF IInv
<1> QED BY <1>1, Invariance, PTL

\* What ldn_mitm reads from a virtual TCP descriptor is, in order and without a gap or
\* a repetition, what its peer wrote to the other end, whatever the relay loses,
\* duplicates or reorders, however many connections come and go between the consoles.
THEOREM StreamIntegrityHolds == Spec => []StreamIntegrity
<1>1. IInv => StreamIntegrity
  BY DEF IInv, ConnsInv, ConnInv, Established, PrefixOf, StreamIntegrity
<1> QED BY <1>1, Invariance, PTL

\* The memcpy of HandleTcpSegment into a connection's inbox never passes its end.
THEOREM InboxBoundedHolds == Spec => []InboxBounded
<1>1. IInv => InboxBounded
  <2>1. ASSUME IInv, NEW n \in Console, NEW s \in Slot, conns[n][s].used
        PROVE  Len(conns[n][s].inbox) <= VTcpInboxCap
    <3>1. ConnInv(conns[n][s], wrote, isns, finned)
      BY <2>1 DEF IInv, ConnsInv
    <3>2. CASE conns[n][s].established
      BY <2>1, <3>1, <3>2 DEF ConnInv, Established
    <3>3. CASE ~conns[n][s].established
      <4>1. conns[n][s].inbox = << >>
        BY <2>1, <3>1, <3>3 DEF ConnInv, Opening
      <4>2. Len(<< >>) = 0 /\ VTcpInboxCap \in Nat
        BY SizesAssumption
      <4>3. 0 <= VTcpInboxCap
        BY <4>2
      <4> QED BY <4>1, <4>2, <4>3, Zenon
    <3> QED BY <3>2, <3>3
  <2> QED BY <2>1 DEF InboxBounded
<1> QED BY <1>1, Invariance, PTL
=============================================================================
