--------------------------- MODULE RelayFragProofs ---------------------------
(***************************************************************************)
(* Theorems about RelayFrag, for any number of consoles, slots, cells and  *)
(* packets and any sizes, with any number of threads that send at once and *)
(* senders that restart: types and the bounds of the buffers, the slot of  *)
(* a group, and that the relay connection implements a datagram service.   *)
(***************************************************************************)
EXTENDS RelayFrag, SequenceTheorems, WellFoundedInduction, TLAPS

-----------------------------------------------------------------------------
(* Arithmetic.                                                             *)

LEMMA DivMod ==
    ASSUME NEW M \in Nat \ {0}, NEW x \in Int
    PROVE  x \div M \in Int /\ x % M \in 0 .. M - 1 /\ x = M * (x \div M) + (x % M)
OBVIOUS

LEMMA UniqueMod ==
    ASSUME NEW M \in Nat \ {0}, NEW q \in Int, NEW r \in 0 .. M - 1, NEW x \in Int,
           x = M * q + r
    PROVE  x % M = r
OBVIOUS

\* An index that runs past the end of a ring once.
LEMMA RingMod ==
    ASSUME NEW M \in Nat \ {0}, NEW x \in 0 .. 2 * M - 1
    PROVE  x % M = IF x < M THEN x ELSE x - M
<1>1. CASE x < M
    <2>1. x \in 0 .. M - 1 /\ x = M * 0 + x
        BY <1>1
    <2> QED
        BY <1>1, <2>1, UniqueMod
<1>2. CASE x >= M
    <2>1. x - M \in 0 .. M - 1 /\ x = M * 1 + (x - M)
        BY <1>2
    <2>2. x % M = x - M
        BY <2>1, UniqueMod
    <2> QED
        BY <1>2, <2>2
<1> QED
    BY <1>1, <1>2

\* Numbers less than M apart are different modulo M.
LEMMA DistinctMod ==
    ASSUME NEW M \in Nat \ {0}, NEW a \in Nat, NEW i \in Nat, NEW j \in Nat,
           i < j, j < M
    PROVE  (a + i) % M # (a + j) % M
<1> SUFFICES ASSUME (a + i) % M = (a + j) % M PROVE FALSE
    OBVIOUS
<1>1. PICK u \in Int, v \in Int, r \in Int : a + i = M * u + r /\ a + j = M * v + r
    <2>1. /\ a + i = M * ((a + i) \div M) + ((a + i) % M)
          /\ (a + i) \div M \in Int /\ (a + i) % M \in Int
        BY DivMod
    <2>2. /\ a + j = M * ((a + j) \div M) + ((a + j) % M)
          /\ (a + j) \div M \in Int
        BY DivMod
    <2> QED
        BY <2>1, <2>2
<1>2. j - i = M * (v - u) /\ v - u \in Int
    BY <1>1
<1>3. v - u >= 1
    BY <1>2
<1>4. M * (v - u) >= M
    BY <1>3
<1> QED
    BY <1>2, <1>4

\* The number of chunks that n bytes take, and where the last one begins.
LEMMA CeilDiv ==
    ASSUME NEW C \in Nat \ {0}, NEW n \in Nat \ {0}
    PROVE  /\ (n + C - 1) \div C \in Nat \ {0}
           /\ ((n + C - 1) \div C - 1) * C < n
           /\ n - ((n + C - 1) \div C - 1) * C <= C
<1> DEFINE d == (n + C - 1) \div C
           r == (n + C - 1) % C
<1>1. d \in Int /\ r \in 0 .. C - 1 /\ n + C - 1 = C * d + r
    <2>1. n + C - 1 \in Int
        OBVIOUS
    <2> QED
        BY <2>1, DivMod
<1> HIDE DEF d, r
<1>2. (d - 1) * C = C * d - C
    BY <1>1
<1>3. C * d = n + C - 1 - r
    BY <1>1
<1>4. C * d >= n
    BY <1>1, <1>3
<1>5. d >= 1
    BY <1>1, <1>4
<1>6. (d - 1) * C < n /\ n - (d - 1) * C <= C
    BY <1>1, <1>2, <1>3
<1> QED
    BY <1>1, <1>5, <1>6 DEF d

\* The first of a set of slots.
LEMMA FirstSlot ==
    ASSUME NEW S \in SUBSET FSlot, S # {}
    PROVE  First(S) \in S
<1>1. FSlot \subseteq Nat
    BY FragSizes DEF FSlot
<1>2. PICK k \in S : \A j \in S : ~(<<j, k>> \in OpToRel(<, Nat))
    BY <1>1, NatLessThanWellFounded, WFMin
<1>3. \A j \in S : ~(j < k)
    BY <1>1, <1>2 DEF OpToRel
<1>4. \A j \in S : k <= j
    BY <1>1, <1>3
<1> QED
    BY <1>4 DEF First
-----------------------------------------------------------------------------
(* Types.                                                                  *)

\* A slot's buffer, with the parts that part_mask says are in.
Buffers == UNION {[S -> Piece] : S \in SUBSET (0 .. 31)}

SlotSet ==
    [used : BOOLEAN, id : Id, src : Source \cup {Nothing}, buf : Buffers,
     total_len : 0 .. SlotBytes]

\* The frames of a fragmented packet carry an id and the number of a part.
NetInv ==
    \A f \in net :
        f.type = "Ipv4Frag" => /\ f.id \in Id /\ f.pkt.len > RelayMtu
                               /\ f.part \in 0 .. TotalPart(f.pkt) - 1

\* SendFragmented is at work on a packet of its own console, too long for a frame.
DraftInv ==
    \A s \in Source, t \in Thread :
        draft[s][t] # Nothing => /\ draft[s][t].pkt.src = s
                                 /\ draft[s][t].pkt.len > RelayMtu

TypeInv ==
    /\ TypeOK /\ NetInv /\ DraftInv
    /\ slots \in [FSlot -> SlotSet]
    /\ queue = [c \in Cell |-> queue[c]]

LEMMA Sizes ==
    /\ Chunk \in Nat \ {0} /\ RelayMtu \in Nat \ {0} /\ SlotBytes \in Nat
    /\ OutBytes \in Nat /\ PopBytes \in Nat /\ OutBytes <= PopBytes
    /\ QueueSize \in Nat \ {0} /\ MaxSends \in Nat /\ IdMod \in Nat \ {0}
    /\ Lens \subseteq Nat \ {0} /\ Chunk <= RelayMtu /\ OutBytes <= 2 * Chunk
    /\ Nothing \notin Id
BY FragSizes, IdAssumption

LEMMA BufferFacts ==
    ASSUME NEW b \in Buffers
    PROVE  DOMAIN b \subseteq 0 .. 31 /\ \A q \in DOMAIN b : b[q] \in Piece
BY DEF Buffers

LEMMA NoBuffer ==
    << >> \in Buffers /\ DOMAIN << >> = {}
<1>1. << >> \in [{} -> Piece] /\ DOMAIN << >> = {}
    OBVIOUS
<1>2. {} \in SUBSET (0 .. 31)
    OBVIOUS
<1> QED
    BY <1>1, <1>2 DEF Buffers

LEMMA BufferExtended ==
    ASSUME NEW b \in Buffers, NEW x \in 0 .. 31, NEW v \in Piece
    PROVE  [q \in DOMAIN b \cup {x} |-> IF q = x THEN v ELSE b[q]] \in Buffers
<1> DEFINE S == DOMAIN b \cup {x}
           c == [q \in S |-> IF q = x THEN v ELSE b[q]]
<1>1. S \in SUBSET (0 .. 31)
    BY BufferFacts
<1>2. c \in [S -> Piece]
    BY BufferFacts
<1> HIDE DEF S, c
<1>3. c \in Buffers
    BY <1>1, <1>2 DEF Buffers
<1> QED
    BY <1>3 DEF S, c

LEMMA FreeTyped ==
    FreeSlot \in SlotSet
<1>1. 0 \in Id /\ 0 \in 0 .. SlotBytes
    BY Sizes DEF Id
<1> QED
    BY <1>1, NoBuffer DEF FreeSlot, SlotSet

LEMMA PartsAreNat ==
    ASSUME NEW p \in Packet PROVE p.len \in Nat \ {0} /\ TotalPart(p) \in Nat \ {0}
<1>1. p.len \in Nat \ {0}
    BY Sizes DEF Packet
<1>2. (p.len + Chunk - 1) \div Chunk \in Nat \ {0}
    BY <1>1, Sizes, CeilDiv
<1> QED
    BY <1>1, <1>2 DEF TotalPart

\* The end of a part in the buffer.
LEMMA PartEnd ==
    ASSUME NEW p \in Packet, NEW q \in 0 .. TotalPart(p) - 1, p.len > RelayMtu
    PROVE  /\ q * Chunk + PartLen(p, q) \in Nat
           /\ q = TotalPart(p) - 1 => q * Chunk + PartLen(p, q) = p.len
<1>1. /\ p.len \in Nat \ {0} /\ TotalPart(p) \in Nat \ {0} /\ q \in Nat
      /\ Chunk \in Nat \ {0}
    BY PartsAreNat, Sizes
<1>2. PICK x \in Nat : x = q * Chunk
    BY <1>1
<1>3. q * Chunk + PartLen(p, q) = IF p.len - x < Chunk THEN p.len ELSE x + Chunk
    BY <1>1, <1>2 DEF PartLen
<1>4. ASSUME q = TotalPart(p) - 1 PROVE p.len - x <= Chunk
    <2>1. TotalPart(p) = (p.len + Chunk - 1) \div Chunk
        BY Sizes, <1>1 DEF TotalPart
    <2>2. p.len - ((p.len + Chunk - 1) \div Chunk - 1) * Chunk <= Chunk
        BY <1>1, CeilDiv
    <2> QED
        BY <1>2, <1>4, <2>1, <2>2
<1> QED
    BY <1>1, <1>2, <1>3, <1>4

LEMMA FrameSent ==
    ASSUME TypeInv, NEW f \in net, f.type = "Ipv4Frag"
    PROVE  [pkt |-> f.pkt, id |-> f.id] \in sent
BY DEF TypeInv, TypeOK, FrameId

LEMMA FrameFacts ==
    ASSUME TypeInv, NEW f \in net, f.type = "Ipv4Frag"
    PROVE  /\ f.pkt \in Packet /\ f.pkt.src \in Source /\ f.id \in Id
           /\ f.pkt.len \in Nat \ {0} /\ TotalPart(f.pkt) \in Nat \ {0}
           /\ f.pkt.len > RelayMtu /\ f.part \in 0 .. TotalPart(f.pkt) - 1
           /\ f.part * Chunk + PartLen(f.pkt, f.part) \in Nat
<1>4. [pkt |-> f.pkt, id |-> f.id] \in [pkt : Packet, id : Id \cup {Nothing}]
    BY FrameSent DEF TypeInv, TypeOK
<1>1. /\ f.pkt \in Packet /\ f.id \in Id /\ f.pkt.len > RelayMtu
      /\ f.part \in 0 .. TotalPart(f.pkt) - 1
    BY <1>4 DEF TypeInv, NetInv
<1>2. f.part * Chunk + PartLen(f.pkt, f.part) \in Nat
    BY <1>1, PartEnd
<1>3. f.pkt.src \in Source
    BY <1>1 DEF Packet
<1> QED
    BY <1>1, <1>2, <1>3, PartsAreNat

\* The frame of one packet that was not fragmented.
LEMMA DatagramFacts ==
    ASSUME TypeInv, NEW f \in net, f.type = "Ipv4"
    PROVE  /\ [pkt |-> f.pkt, id |-> Nothing] \in sent
           /\ f.pkt \in Packet /\ f.pkt.len \in Nat \ {0}
<1>1. [pkt |-> f.pkt, id |-> Nothing] \in sent
    BY DEF TypeInv, TypeOK, FrameId
<1>2. [pkt |-> f.pkt, id |-> Nothing] \in [pkt : Packet, id : Id \cup {Nothing}]
    BY <1>1 DEF TypeInv, TypeOK
<1>3. f.pkt \in Packet
    BY <1>2
<1> QED
    BY <1>1, <1>3, PartsAreNat

\* The slot that f's part goes into, and what it becomes.
LEMMA SlotChosen ==
    ASSUME TypeInv, NEW f \in net, f.type = "Ipv4Frag", Candidates(f) # {}
    PROVE  LET k == First(Candidates(f))
           IN  /\ k \in FSlot /\ k \in Candidates(f)
               /\ Claimed(k, f) \in SlotSet
               /\ Claimed(k, f).used /\ Claimed(k, f).id = f.id
               /\ Claimed(k, f).src = f.pkt.src
               /\ Matching(f) # {} => k \in Matching(f)
<1> DEFINE k == First(Candidates(f))
<1>1. Candidates(f) \in SUBSET FSlot
    BY DEF Candidates, Matching, Free, Stalest
<1>2. k \in Candidates(f) /\ k \in FSlot
    BY <1>1, FirstSlot
<1>3. Matching(f) # {} => k \in Matching(f)
    BY <1>2 DEF Candidates
<1> HIDE DEF k
<1>4. /\ Claimed(k, f) \in SlotSet
      /\ Claimed(k, f).used /\ Claimed(k, f).id = f.id
      /\ Claimed(k, f).src = f.pkt.src
    <2>1. CASE k \in Matching(f)
        BY <1>2, <2>1 DEF Claimed, Matching, TypeInv
    <2>2. CASE k \notin Matching(f)
        BY <2>2, FreeTyped, FrameFacts DEF Claimed, SlotSet
    <2> QED
        BY <2>1, <2>2
<1> QED
    BY <1>2, <1>3, <1>4 DEF k

LEMMA StoredTyped ==
    ASSUME TypeInv, NEW f \in net, f.type = "Ipv4Frag", NEW d \in SlotSet, Fits(f)
    PROVE  /\ Stored(d, f) \in SlotSet
           /\ Stored(d, f).used = d.used /\ Stored(d, f).id = d.id
           /\ Stored(d, f).src = d.src
           /\ Stored(d, f).buf = [q \in DOMAIN d.buf \cup {f.part} |->
                                     IF q = f.part THEN <<f.pkt, q>> ELSE d.buf[q]]
           /\ Stored(d, f).total_len =
                  IF f.part = TotalPart(f.pkt) - 1
                  THEN f.part * Chunk + PartLen(f.pkt, f.part) ELSE d.total_len
<1> DEFINE b == [q \in DOMAIN d.buf \cup {f.part} |->
                    IF q = f.part THEN <<f.pkt, f.part>> ELSE d.buf[q]]
           n == IF f.part = TotalPart(f.pkt) - 1
                THEN f.part * Chunk + PartLen(f.pkt, f.part) ELSE d.total_len
<1>1. f.part \in 0 .. 31 /\ <<f.pkt, f.part>> \in Piece
    BY FrameFacts DEF Fits, Piece
<1>2. b \in Buffers
    BY <1>1, BufferExtended DEF SlotSet
<1>3. n \in 0 .. SlotBytes
    BY FrameFacts, Sizes DEF Fits, SlotSet
<1>4. b = [q \in DOMAIN d.buf \cup {f.part} |->
              IF q = f.part THEN <<f.pkt, q>> ELSE d.buf[q]]
    OBVIOUS
<1> HIDE DEF b, n
<1>5. Stored(d, f) = [d EXCEPT !.buf = b, !.total_len = n]
    BY <1>4 DEF Stored, n
<1>6. /\ [d EXCEPT !.buf = b, !.total_len = n] \in SlotSet
      /\ [d EXCEPT !.buf = b, !.total_len = n].used = d.used
      /\ [d EXCEPT !.buf = b, !.total_len = n].id = d.id
      /\ [d EXCEPT !.buf = b, !.total_len = n].src = d.src
      /\ [d EXCEPT !.buf = b, !.total_len = n].buf = b
      /\ [d EXCEPT !.buf = b, !.total_len = n].total_len = n
    BY <1>2, <1>3 DEF SlotSet
<1> QED
    BY <1>4, <1>5, <1>6 DEF n
-----------------------------------------------------------------------------
(* The steps preserve the types, sender by sender ...                      *)

LEMMA PacketTyped ==
    ASSUME TypeInv, NEW s \in Source, NEW len \in Lens, made[s] < MaxSends
    PROVE  /\ NewPacket(s, len) \in Packet
           /\ NewPacket(s, len).src = s /\ NewPacket(s, len).len = len
           /\ [made EXCEPT ![s] = @ + 1] \in [Source -> 0 .. MaxSends]
<1>1. made[s] \in 0 .. MaxSends
    BY DEF TypeInv, TypeOK
<1>2. made[s] + 1 \in 1 .. MaxSends /\ made[s] + 1 \in 0 .. MaxSends
    BY <1>1, Sizes
<1> QED
    BY <1>2 DEF NewPacket, Packet, TypeInv, TypeOK

\* What a step that leaves the receiver alone has to preserve.
LEMMA SendersTyped ==
    ASSUME TypeInv, UNCHANGED <<receiver, popped, discarded>>,
           nextId' \in [Source -> Id],
           draft' \in [Source -> [Thread -> [pkt : Packet, id : Id] \cup {Nothing}]],
           made' \in [Source -> 0 .. MaxSends],
           sent' \subseteq [pkt : Packet, id : Id \cup {Nothing}],
           \A f \in net' : [pkt |-> f.pkt, id |-> FrameId(f)] \in sent', NetInv', DraftInv'
    PROVE  TypeInv'
<1>1. TypeOK'
    BY DEF TypeInv, TypeOK, receiver
<1> QED
    BY <1>1 DEF TypeInv, receiver

LEMMA SendIpv4Typed ==
    ASSUME TypeInv, NEW s \in Source, NEW t \in Thread, NEW len \in Lens,
           SendIpv4(s, t, len)
    PROVE  TypeInv'
<1> DEFINE p == NewPacket(s, len)
           g == [type |-> "Ipv4", pkt |-> p]
           o == [pkt |-> p, id |-> Nothing]
<1>1. p \in Packet /\ made' \in [Source -> 0 .. MaxSends]
    BY PacketTyped DEF SendIpv4
<1>2. /\ net' = net \cup {g} /\ sent' = sent \cup {o} /\ g.pkt = p /\ g.type = "Ipv4"
      /\ o \in [pkt : Packet, id : Id \cup {Nothing}]
      /\ [pkt |-> g.pkt, id |-> FrameId(g)] = o
    BY <1>1 DEF SendIpv4, FrameId
<1> HIDE DEF p, g, o
<1>3. \A f \in net' : [pkt |-> f.pkt, id |-> FrameId(f)] \in sent'
    BY <1>2 DEF TypeInv, TypeOK
<1>4. NetInv'
    BY <1>2 DEF TypeInv, NetInv
<1>5. DraftInv'
    BY DEF TypeInv, DraftInv, SendIpv4
<1> QED
    BY <1>1, <1>2, <1>3, <1>4, <1>5, SendersTyped DEF SendIpv4, TypeInv, TypeOK

LEMMA LoadTyped ==
    ASSUME TypeInv, NEW s \in Source, NEW t \in Thread, NEW len \in Lens,
           LoadFragId(s, t, len)
    PROVE  /\ TypeInv'
           /\ draft'[s][t] = [pkt |-> NewPacket(s, len), id |-> nextId[s]]
           /\ \A r \in Source, u \in Thread :
                  <<r, u>> # <<s, t>> => draft'[r][u] = draft[r][u]
<1> DEFINE p == NewPacket(s, len)
           e == [pkt |-> p, id |-> nextId[s]]
<1>1. /\ p \in Packet /\ made' \in [Source -> 0 .. MaxSends]
      /\ p.src = s /\ p.len = len
    BY PacketTyped DEF LoadFragId
<1> HIDE DEF p
<1>2. e \in [pkt : Packet, id : Id] /\ e.pkt = p
    BY <1>1 DEF TypeInv, TypeOK
<1>3. draft' = [draft EXCEPT ![s][t] = e]
    BY DEF LoadFragId, p
<1> HIDE DEF e
<1>4. draft' \in [Source -> [Thread -> [pkt : Packet, id : Id] \cup {Nothing}]]
    BY <1>2, <1>3 DEF TypeInv, TypeOK
<1>5. /\ draft'[s][t] = e
      /\ \A r \in Source, u \in Thread :
             <<r, u>> # <<s, t>> => draft'[r][u] = draft[r][u]
    BY <1>3 DEF TypeInv, TypeOK
<1>6. DraftInv'
    BY <1>1, <1>2, <1>5 DEF TypeInv, DraftInv, LoadFragId
<1>7. NetInv'
    BY DEF TypeInv, NetInv, LoadFragId
<1>8. TypeInv'
    BY <1>1, <1>4, <1>6, <1>7, SendersTyped DEF LoadFragId, TypeInv, TypeOK
<1> QED
    BY <1>5, <1>8 DEF e, p

LEMMA FragsFacts ==
    ASSUME NEW p, NEW i, NEW f \in Frags(p, i)
    PROVE  /\ f.type = "Ipv4Frag" /\ f.pkt = p /\ f.id = i
           /\ f.part \in 0 .. TotalPart(p) - 1
BY DEF Frags

LEMMA SendFragmentedTyped ==
    ASSUME TypeInv, NEW s \in Source, NEW t \in Thread, SendFragmented(s, t)
    PROVE  /\ TypeInv'
           /\ draft'[s][t] = Nothing
           /\ \A r \in Source, u \in Thread :
                  <<r, u>> # <<s, t>> => draft'[r][u] = draft[r][u]
<1> DEFINE p == draft[s][t].pkt
           i == draft[s][t].id
<1>1. /\ p \in Packet /\ i \in Id /\ p.len > RelayMtu
      /\ draft[s][t] = [pkt |-> p, id |-> i]
    BY DEF SendFragmented, TypeInv, TypeOK, DraftInv
<1>2. /\ net' = net \cup Frags(p, i) /\ sent' = sent \cup {[pkt |-> p, id |-> i]}
      /\ nextId' = [nextId EXCEPT ![s] = IncrementId(i)]
      /\ draft' = [draft EXCEPT ![s][t] = Nothing]
    BY <1>1 DEF SendFragmented
<1> HIDE DEF p, i
<1>3. nextId' \in [Source -> Id]
    <2>1. i + 1 \in Int
        BY <1>1 DEF Id
    <2>2. IncrementId(i) \in Id
        BY <2>1, Sizes, DivMod DEF IncrementId, Id
    <2> QED
        BY <1>2, <2>2 DEF TypeInv, TypeOK
<1>4. draft' \in [Source -> [Thread -> [pkt : Packet, id : Id] \cup {Nothing}]]
    BY <1>2 DEF TypeInv, TypeOK
<1>5. /\ draft'[s][t] = Nothing
      /\ \A r \in Source, u \in Thread :
             <<r, u>> # <<s, t>> => draft'[r][u] = draft[r][u]
    BY <1>2 DEF TypeInv, TypeOK
<1>6. DraftInv'
    BY <1>5 DEF TypeInv, DraftInv
<1>7. \A f \in net' : [pkt |-> f.pkt, id |-> FrameId(f)] \in sent'
    BY <1>2, FragsFacts DEF TypeInv, TypeOK, FrameId
<1>8. NetInv'
    BY <1>1, <1>2, FragsFacts DEF TypeInv, NetInv
<1>9. TypeInv'
    BY <1>1, <1>2, <1>3, <1>4, <1>6, <1>7, <1>8, SendersTyped
       DEF SendFragmented, TypeInv, TypeOK
<1> QED
    BY <1>5, <1>9

LEMMA RestartTyped ==
    ASSUME TypeInv, NEW s \in Source, Restart(s) PROVE TypeInv'
<1>1. nextId' \in [Source -> Id]
    BY Sizes DEF Restart, TypeInv, TypeOK, Id
<1>2. draft' = [draft EXCEPT ![s] = [t \in Thread |-> Nothing]]
    BY DEF Restart
<1>3. draft' \in [Source -> [Thread -> [pkt : Packet, id : Id] \cup {Nothing}]]
    BY <1>2 DEF TypeInv, TypeOK
<1>4. DraftInv'
    BY <1>2 DEF TypeInv, TypeOK, DraftInv
<1>5. NetInv'
    BY DEF TypeInv, NetInv, Restart
<1> QED
    BY <1>1, <1>3, <1>4, <1>5, SendersTyped DEF Restart, TypeInv, TypeOK

LEMMA LoseTyped ==
    ASSUME TypeInv, NEW f \in net, Lose(f) \/ DropFrag(f) PROVE TypeInv'
<1>1. net' \subseteq net /\ UNCHANGED <<nextId, draft, receiver, made, sent, popped, discarded>>
    BY DEF Lose, DropFrag, Take
<1>2. NetInv' /\ DraftInv'
    BY <1>1 DEF TypeInv, NetInv, DraftInv
<1> QED
    BY <1>1, <1>2, SendersTyped DEF TypeInv, TypeOK
-----------------------------------------------------------------------------
(* ... and at the receiver.                                                *)

\* What a step that leaves the senders alone has to preserve.
LEMMA ReceiverTyped ==
    ASSUME TypeInv, UNCHANGED <<nextId, draft, made, sent>>, net' \subseteq net,
           connected' \in BOOLEAN, slots' \in [FSlot -> SlotSet], most' \in Id,
           head' \in Cell, count' \in 0 .. QueueSize,
           queue' = [c \in Cell |-> queue'[c]],
           \A c \in Cell : queue'[c] = Nothing \/ queue'[c].len <= OutBytes,
           discarded' \subseteq Packet
    PROVE  TypeInv'
<1>1. NetInv' /\ DraftInv'
    BY DEF TypeInv, NetInv, DraftInv
<1>2. \A k \in FSlot : SlotRecord(slots[k])'
    <2>1. \A k \in FSlot : slots'[k] \in SlotSet
        OBVIOUS
    <2> QED
        BY <2>1, BufferFacts DEF SlotRecord, SlotSet
<1>3. TypeOK'
    BY <1>2 DEF TypeInv, TypeOK
<1> QED
    BY <1>1, <1>3 DEF TypeInv

LEMMA TailTyped ==
    ASSUME TypeInv PROVE TailCell \in Cell /\ head \in Nat /\ count \in Nat
<1>1. head \in Nat /\ count \in Nat
    BY DEF TypeInv, TypeOK, Cell
<1>2. head + count \in Int
    BY <1>1
<1> QED
    BY <1>1, <1>2, DivMod, Sizes DEF TailCell, Cell

LEMMA EnqueueTyped ==
    ASSUME TypeInv, NEW image, image.len <= OutBytes, Enqueue(image)
    PROVE  /\ count' \in 0 .. QueueSize
           /\ queue' = [c \in Cell |-> queue'[c]]
           /\ \A c \in Cell : queue'[c] = Nothing \/ queue'[c].len <= OutBytes
<1>1. CASE /\ count < QueueSize /\ count' = count + 1
           /\ queue' = [queue EXCEPT ![TailCell] = image]
    <2>1. DOMAIN queue = Cell
        BY DEF TypeInv
    <2>2. count' \in 0 .. QueueSize
        BY <1>1, Sizes DEF TypeInv, TypeOK
    <2>3. queue' = [c \in Cell |-> queue'[c]]
        BY <1>1, <2>1
    <2> QED
        BY <1>1, <2>1, <2>2, <2>3, TailTyped DEF TypeInv, TypeOK
<1>2. CASE UNCHANGED <<queue, count>>
    BY <1>2 DEF TypeInv, TypeOK
<1> QED
    BY <1>1, <1>2 DEF Enqueue

LEMMA RecvIpv4Typed ==
    ASSUME TypeInv, NEW f \in net, RecvIpv4(f) PROVE TypeInv'
<1>1. /\ net' \subseteq net
      /\ UNCHANGED <<nextId, draft, connected, slots, most, head, made, sent,
                     popped, discarded>>
    BY DEF RecvIpv4, Take
<1>2. f.pkt.len \in Nat
    BY DatagramFacts DEF RecvIpv4
<1>3. /\ count' \in 0 .. QueueSize
      /\ queue' = [c \in Cell |-> queue'[c]]
      /\ \A c \in Cell : queue'[c] = Nothing \/ queue'[c].len <= OutBytes
    <2>1. CASE UNCHANGED <<queue, count>>
        BY <2>1 DEF TypeInv, TypeOK
    <2>2. CASE f.pkt.len <= OutBytes /\ Enqueue(Whole(f.pkt))
        <3>1. Whole(f.pkt).len <= OutBytes
            BY <2>2 DEF Whole, Image
        <3> QED
            BY <2>2, <3>1, EnqueueTyped
    <2> QED
        BY <1>2, <2>1, <2>2, Sizes DEF RecvIpv4
<1> QED
    BY <1>1, <1>3, ReceiverTyped DEF TypeInv, TypeOK

LEMMA ReassembleTyped ==
    ASSUME TypeInv, NEW f \in net, ReassembleFrag(f) PROVE TypeInv'
<1> DEFINE k == First(Candidates(f))
           c == Claimed(k, f)
           d == Stored(c, f)
<1>1. f.type = "Ipv4Frag" /\ Candidates(f) # {}
    BY DEF ReassembleFrag
<1>2. k \in FSlot /\ c \in SlotSet
    BY <1>1, SlotChosen
<1>3. Fits(f) => d \in SlotSet
    BY <1>1, <1>2, StoredTyped
<1>4. f.pkt \in Packet /\ f.id \in Id
    BY <1>1, FrameFacts
<1>5. /\ net' \subseteq net
      /\ UNCHANGED <<nextId, draft, connected, head, made, sent, popped>>
    BY DEF ReassembleFrag, Take
<1>6. \/ /\ slots' = [slots EXCEPT ![k] = FreeSlot]
         /\ UNCHANGED <<queue, count, most>> /\ discarded' \in {discarded, discarded \cup {f.pkt}}
      \/ /\ Fits(f) /\ slots' = [slots EXCEPT ![k] = d]
         /\ UNCHANGED <<queue, count, most, discarded>>
      \/ /\ Fits(f) /\ slots' = [slots EXCEPT ![k] = FreeSlot]
         /\ most' = f.id /\ Enqueue(Copied(d)) /\ ~(d.total_len > OutBytes)
         /\ UNCHANGED discarded
    BY DEF ReassembleFrag
<1> HIDE DEF k, c, d
<1>7. slots' \in [FSlot -> SlotSet]
    BY <1>2, <1>3, <1>6, FreeTyped DEF TypeInv
<1>8. most' \in Id /\ discarded' \subseteq Packet
    BY <1>4, <1>6 DEF TypeInv, TypeOK
<1>9. /\ count' \in 0 .. QueueSize
      /\ queue' = [x \in Cell |-> queue'[x]]
      /\ \A x \in Cell : queue'[x] = Nothing \/ queue'[x].len <= OutBytes
    <2>1. CASE UNCHANGED <<queue, count>>
        BY <2>1 DEF TypeInv, TypeOK
    <2>2. CASE Fits(f) /\ Enqueue(Copied(d)) /\ ~(d.total_len > OutBytes)
        <3>1. Copied(d).len <= OutBytes
            BY <1>3, <2>2, Sizes DEF Copied, Image, SlotSet
        <3> QED
            BY <2>2, <3>1, EnqueueTyped
    <2> QED
        BY <1>6, <2>1, <2>2
<1> QED
    BY <1>5, <1>7, <1>8, <1>9, ReceiverTyped DEF TypeInv, TypeOK

LEMMA PopTyped ==
    ASSUME TypeInv, PopIpv4 PROVE TypeInv'
<1>1. head' \in Cell
    <2>1. head + 1 \in Int
        BY TailTyped
    <2> QED
        BY <2>1, DivMod, Sizes DEF PopIpv4, Cell
<1>2. count' \in 0 .. QueueSize
    <2>1. count \in 0 .. QueueSize /\ count > 0 /\ count' = count - 1
        BY DEF PopIpv4, TypeInv, TypeOK
    <2> QED
        BY <2>1, Sizes
<1> QED
    BY <1>1, <1>2, ReceiverTyped DEF PopIpv4, TypeInv, TypeOK

LEMMA ConnectionTyped ==
    ASSUME TypeInv, Close \/ Connect PROVE TypeInv'
<1>1. head' \in {head, 0} /\ count' \in {count, 0} /\ connected' \in BOOLEAN
    BY DEF Close, Connect
<1>3. head' \in Cell /\ count' \in 0 .. QueueSize
    BY <1>1, Sizes DEF Cell, TypeInv, TypeOK
<1>2. UNCHANGED <<nextId, draft, net, slots, most, queue, made, sent, popped, discarded>>
    BY DEF Close, Connect
<1> QED
    BY <1>1, <1>2, <1>3, ReceiverTyped DEF TypeInv, TypeOK

LEMMA IdleTyped ==
    ASSUME TypeInv, UNCHANGED vars PROVE TypeInv'
BY ReceiverTyped DEF vars, TypeInv, TypeOK

LEMMA NextTyped ==
    TypeInv /\ [Next]_vars => TypeInv'
<1> SUFFICES ASSUME TypeInv, [Next]_vars PROVE TypeInv'
    OBVIOUS
<1>1. ASSUME NEW s \in Source, Sender(s) PROVE TypeInv'
    BY <1>1, SendIpv4Typed, LoadTyped, SendFragmentedTyped, RestartTyped DEF Sender
<1>2. CASE Receive
    BY <1>2, RecvIpv4Typed, LoseTyped, ReassembleTyped DEF Receive
<1> QED
    BY <1>1, <1>2, LoseTyped, PopTyped, ConnectionTyped, IdleTyped DEF Next

LEMMA InitTyped ==
    Init => TypeInv
<1> SUFFICES ASSUME Init PROVE TypeInv
    OBVIOUS
<1>1. 0 \in Id /\ 0 \in Cell /\ 0 \in 0 .. QueueSize /\ 0 \in 0 .. MaxSends
    BY Sizes DEF Id, Cell
<1>2. NetInv /\ DraftInv
    BY DEF Init, NetInv, DraftInv
<1>3. slots \in [FSlot -> SlotSet] /\ queue = [c \in Cell |-> queue[c]]
    BY FreeTyped DEF Init
<1>4. \A k \in FSlot : SlotRecord(slots[k])
    BY <1>3, BufferFacts DEF SlotRecord, SlotSet
<1>5. /\ nextId \in [Source -> Id] /\ made \in [Source -> 0 .. MaxSends]
      /\ draft \in [Source -> [Thread -> [pkt : Packet, id : Id] \cup {Nothing}]]
    BY <1>1, IdAssumption DEF Init
<1>6. /\ connected \in BOOLEAN /\ discarded \subseteq Packet
      /\ sent \subseteq [pkt : Packet, id : Id \cup {Nothing}]
      /\ \A f \in net : [pkt |-> f.pkt, id |-> FrameId(f)] \in sent
      /\ \A c \in Cell : queue[c] = Nothing \/ queue[c].len <= OutBytes
    BY DEF Init
<1>7. TypeOK
    BY <1>1, <1>4, <1>5, <1>6 DEF Init, TypeOK
<1> QED
    BY <1>2, <1>3, <1>7 DEF TypeInv

LEMMA TypedAlways ==
    Spec => []TypeInv
BY InitTyped, NextTyped, PTL DEF Spec

\* No part is copied past the end of a slot's buffer or shifted out of part_mask, no
\* image exceeds the cell it is queued in, and m_queue_count stays within the ring,
\* whatever the senders send and however the relay delivers it.
THEOREM FragTyped ==
    Spec => []TypeOK
<1>1. TypeInv => TypeOK
    BY DEF TypeInv
<1> QED
    BY <1>1, TypedAlways, PTL
-----------------------------------------------------------------------------
(* The slot of a group.                                                    *)

\* ReassembleFrag: f's slot becomes free, or it holds f's group, which no other
\* slot does.
LEMMA ReassembleOneSlot ==
    ASSUME TypeInv, OneSlotPerGroup, NEW f \in net, ReassembleFrag(f)
    PROVE  OneSlotPerGroup'
<1> DEFINE k == First(Candidates(f))
           d == Stored(Claimed(k, f), f)
<1>1. f.type = "Ipv4Frag" /\ Candidates(f) # {}
    BY DEF ReassembleFrag
<1>2. /\ k \in FSlot /\ Claimed(k, f) \in SlotSet
      /\ Claimed(k, f).id = f.id /\ Claimed(k, f).src = f.pkt.src
      /\ Matching(f) # {} => k \in Matching(f)
    BY <1>1, SlotChosen
<1>3. Fits(f) => d.id = f.id /\ d.src = f.pkt.src
    BY <1>1, <1>2, StoredTyped
<1>4. \/ slots' = [slots EXCEPT ![k] = FreeSlot]
      \/ Fits(f) /\ slots' = [slots EXCEPT ![k] = d]
    BY DEF ReassembleFrag
<1> HIDE DEF k, d
<1>5. \A j \in FSlot : j # k => slots'[j] = slots[j]
    BY <1>2, <1>4 DEF TypeInv
<1>6. slots'[k].used => slots'[k].id = f.id /\ slots'[k].src = f.pkt.src
    BY <1>2, <1>3, <1>4 DEF TypeInv, FreeSlot
<1>7. \A j \in FSlot : j # k => ~(/\ slots[j].used /\ slots[j].id = f.id
                                  /\ slots[j].src = f.pkt.src)
    <2>1. CASE Matching(f) = {}
        BY <2>1 DEF Matching
    <2>2. CASE k \in Matching(f)
        BY <1>2, <2>2 DEF Matching, OneSlotPerGroup
    <2> QED
        BY <1>2, <2>1, <2>2
<1> QED
    BY <1>5, <1>6, <1>7 DEF OneSlotPerGroup

\* Two slots never accumulate the same group, whatever the senders do with their
\* ids: the first-match loop of ReassembleFrag finds all that has arrived.
THEOREM GroupHasOneSlot ==
    Spec => []OneSlotPerGroup
<1>1. Init => OneSlotPerGroup
    BY DEF Init, OneSlotPerGroup, FreeSlot
<1>2. TypeInv /\ OneSlotPerGroup /\ [Next]_vars => OneSlotPerGroup'
    <2> SUFFICES ASSUME TypeInv, OneSlotPerGroup, [Next]_vars PROVE OneSlotPerGroup'
        OBVIOUS
    <2>1. ASSUME NEW f \in net, ReassembleFrag(f) PROVE OneSlotPerGroup'
        BY <2>1, ReassembleOneSlot
    <2>2. CASE UNCHANGED slots
        BY <2>2 DEF OneSlotPerGroup
    <2>3. ASSUME NEW s \in Source, Sender(s) PROVE UNCHANGED slots
        BY <2>3 DEF Sender, Restart, SendFragmented, SendIpv4, LoadFragId, receiver
    <2>4. ASSUME NEW f \in net, RecvIpv4(f) \/ DropFrag(f) \/ Lose(f)
          PROVE  UNCHANGED slots
        BY <2>4 DEF RecvIpv4, DropFrag, Lose, receiver
    <2>5. ASSUME PopIpv4 \/ Close \/ Connect \/ UNCHANGED vars
          PROVE  UNCHANGED slots
        BY <2>5 DEF PopIpv4, Close, Connect, vars
    <2> QED
        BY <2>1, <2>2, <2>3, <2>4, <2>5 DEF Next, Receive
<1> QED
    BY <1>1, <1>2, TypedAlways, PTL DEF Spec
-----------------------------------------------------------------------------
(* What the packets of a set may arrive as.                                *)

\* A packet sent arrives as it is.
LEMMA WholeArrives ==
    ASSUME NEW S, NEW o \in S, o.pkt \in Packet PROVE Whole(o.pkt) \in Arrivals(S)
<1> DEFINE p == o.pkt
           P == Together(S, o)
           c == [i \in 1 .. TotalPart(p) |-> p]
<1>1. p \in P
    BY DEF Together
<1>2. c \in [1 .. TotalPart(p) -> P]
    BY <1>1
<1>3. \A i \in 1 .. TotalPart(p) : Covers(c[i], i - 1, p)
    <2> SUFFICES ASSUME NEW i \in 1 .. TotalPart(p) PROVE Covers(p, i - 1, p)
        OBVIOUS
    <2>1. i - 1 < TotalPart(p)
        BY PartsAreNat
    <2>2. PartLen(p, i - 1) \in Int
        BY PartsAreNat, Sizes DEF PartLen
    <2> QED
        BY <2>1, <2>2 DEF Covers
<1>4. Whole(p) = Image([i \in 1 .. TotalPart(p) |-> <<c[i], i - 1>>], p.len)
    BY DEF Whole
<1> HIDE DEF p, P, c
<1>5. Whole(p) \in Blends(P, p)
    BY <1>2, <1>3, <1>4 DEF Blends
<1> QED
    BY <1>5 DEF Arrivals, p, P

LEMMA BlendsGrow ==
    ASSUME NEW P, NEW Q, P \subseteq Q, NEW p PROVE Blends(P, p) \subseteq Blends(Q, p)
BY DEF Blends

\* More packets sent may arrive as more.
LEMMA ArrivalsGrow ==
    ASSUME NEW S, NEW R, S \subseteq R PROVE Arrivals(S) \subseteq Arrivals(R)
<1> SUFFICES ASSUME NEW o \in S
             PROVE  Blends(Together(S, o), o.pkt) \subseteq Blends(Together(R, o), o.pkt)
    BY DEF Arrivals
<1>1. Together(S, o) \subseteq Together(R, o)
    BY DEF Together
<1> QED
    BY <1>1, BlendsGrow
-----------------------------------------------------------------------------
(* The invariant of the datagram service.                                  *)

\* Packet p may be in slot record r: it was sent under the slot's source and id.
InGroup(p, r) ==
    /\ [pkt |-> p, id |-> r.id] \in sent /\ p.src = r.src /\ p.len > RelayMtu

\* The buffer of slot record r has parts of packets of its group at their places; and
\* total_len is the length of one of them, whose last part is in, or has been
\* overwritten by one that is not shorter.
Holds(r) ==
    /\ \A q \in DOMAIN r.buf : \E p \in Packet : /\ InGroup(p, r) /\ q < TotalPart(p)
                                                 /\ r.buf[q] = <<p, q>>
    /\ \/ r.total_len = 0
       \/ \E p \in Packet : /\ InGroup(p, r) /\ r.total_len = p.len
                            /\ TotalPart(p) - 1 \in DOMAIN r.buf
                            /\ Covers(r.buf[TotalPart(p) - 1][1], TotalPart(p) - 1, p)

SlotsInv == \A k \in FSlot : slots[k].used => Holds(slots[k])

\* Image m is one that the packets of S may arrive as, and fits the pump's buffer.
Arrived(m, S) == m \in Arrivals(S) /\ m.len \in 0 .. OutBytes

\* What waits in the ring buffer, and what has left it, has arrived.
QueueInv == \A i \in 0 .. count - 1 : Arrived(queue[(head + i) % QueueSize], sent)
PoppedInv == popped \subseteq Arrivals(sent)

ServiceInv == SlotsInv /\ QueueInv /\ PoppedInv
-----------------------------------------------------------------------------
(* What later steps leave of a group, and of what waits in the ring.       *)

LEMMA HoldsKept ==
    ASSUME NEW CONSTANT r, Holds(r), sent \subseteq sent' PROVE Holds(r)'
<1>1. \A p \in Packet : InGroup(p, r) => InGroup(p, r)'
    BY DEF InGroup
<1>2. \A q \in DOMAIN r.buf : \E p \in Packet : /\ InGroup(p, r)' /\ q < TotalPart(p)
                                                /\ r.buf[q] = <<p, q>>
    BY <1>1 DEF Holds
<1>3. \/ r.total_len = 0
      \/ \E p \in Packet : /\ InGroup(p, r)' /\ r.total_len = p.len
                           /\ TotalPart(p) - 1 \in DOMAIN r.buf
                           /\ Covers(r.buf[TotalPart(p) - 1][1], TotalPart(p) - 1, p)
    BY <1>1 DEF Holds
<1> QED
    BY <1>2, <1>3 DEF Holds

LEMMA SlotsKept ==
    ASSUME SlotsInv, UNCHANGED slots, sent \subseteq sent' PROVE SlotsInv'
<1> SUFFICES ASSUME NEW k \in FSlot, slots'[k].used PROVE Holds(slots[k])'
    BY DEF SlotsInv
<1>1. PICK r : r = slots[k]
    OBVIOUS
<1>2. Holds(r)
    BY <1>1 DEF SlotsInv
<1>3. Holds(r)'
    BY <1>2, HoldsKept
<1> QED
    BY <1>1, <1>3 DEF Holds, InGroup

LEMMA QueueKept ==
    ASSUME QueueInv, UNCHANGED <<queue, head, count>>, sent \subseteq sent'
    PROVE  QueueInv'
BY ArrivalsGrow DEF QueueInv, Arrived

LEMMA PoppedKept ==
    ASSUME PoppedInv, UNCHANGED popped, sent \subseteq sent' PROVE PoppedInv'
BY ArrivalsGrow DEF PoppedInv

LEMMA SenderServes ==
    ASSUME ServiceInv, NEW s \in Source, Sender(s) PROVE ServiceInv'
<1>1. UNCHANGED <<slots, queue, head, count, popped>> /\ sent \subseteq sent'
    BY DEF Sender, Restart, SendFragmented, SendIpv4, LoadFragId, receiver
<1> QED
    BY <1>1, SlotsKept, QueueKept, PoppedKept DEF ServiceInv

LEMMA LoseServes ==
    ASSUME ServiceInv, NEW f \in net, Lose(f) \/ DropFrag(f) PROVE ServiceInv'
<1>1. UNCHANGED <<slots, queue, head, count, sent, popped>>
    BY DEF Lose, DropFrag, receiver
<1> QED
    BY <1>1, SlotsKept, QueueKept, PoppedKept DEF ServiceInv
-----------------------------------------------------------------------------
(* The receiver.                                                           *)

\* The parts of a fragmented packet: there are two at least, and all but the last
\* are full.
LEMMA FullParts ==
    ASSUME NEW p \in Packet, p.len > RelayMtu
    PROVE  /\ TotalPart(p) >= 2 /\ PartLen(p, 0) = Chunk
           /\ p.len <= 2 * Chunk => TotalPart(p) = 2
           /\ \A q \in Nat : q < TotalPart(p) - 1 => PartLen(p, q) = Chunk
           /\ \A q \in Nat : PartLen(p, q) \in Int /\ PartLen(p, q) <= Chunk
<1>1. /\ p.len \in Nat \ {0} /\ Chunk \in Nat \ {0} /\ RelayMtu \in Nat
      /\ Chunk <= RelayMtu /\ TotalPart(p) \in Nat \ {0}
    BY PartsAreNat, Sizes
<1>2. TotalPart(p) = (p.len + Chunk - 1) \div Chunk
    BY <1>1 DEF TotalPart
<1>3. PICK T \in Nat \ {0} : T = TotalPart(p)
    BY <1>1
<1>4. (T - 1) * Chunk < p.len /\ p.len - (T - 1) * Chunk <= Chunk
    BY <1>1, <1>2, <1>3, CeilDiv
<1>5. T >= 2
    <2> SUFFICES ASSUME T = 1 PROVE FALSE
        BY <1>3
    <2>1. (T - 1) * Chunk = 0
        BY <1>1
    <2> QED
        BY <1>1, <1>4, <2>1
<1>6. ASSUME p.len <= 2 * Chunk PROVE T = 2
    <2> SUFFICES ASSUME T >= 3 PROVE FALSE
        BY <1>3, <1>5
    <2>1. (T - 1) * Chunk >= 2 * Chunk
        BY <1>1, <1>3
    <2> QED
        BY <1>1, <1>4, <1>6, <2>1
<1>7. ASSUME NEW q \in Nat, q < T - 1 PROVE PartLen(p, q) = Chunk
    <2>1. (q + 1) * Chunk <= (T - 1) * Chunk
        BY <1>1, <1>3, <1>7
    <2>2. (q + 1) * Chunk = q * Chunk + Chunk /\ q * Chunk \in Nat
        BY <1>1
    <2>3. ~(p.len - q * Chunk < Chunk)
        BY <1>1, <1>3, <1>4, <2>1, <2>2
    <2> QED
        BY <2>3 DEF PartLen
<1>8. ASSUME NEW q \in Nat PROVE PartLen(p, q) \in Int /\ PartLen(p, q) <= Chunk
    <2>1. PICK x \in Nat : x = q * Chunk
        BY <1>1
    <2> QED
        BY <1>1, <2>1 DEF PartLen
<1> QED
    BY <1>3, <1>5, <1>6, <1>7, <1>8

\* The slot that f goes to holds parts of its group after f's part is copied.
LEMMA GroupGrows ==
    ASSUME TypeInv, ServiceInv, NEW f \in net, f.type = "Ipv4Frag",
           NEW k \in FSlot, NEW c \in SlotSet, c = Claimed(k, f),
           c.id = f.id, c.src = f.pkt.src, Fits(f)
    PROVE  Holds(Stored(c, f))
<1>1. PICK p \in Packet : /\ p = f.pkt /\ p.len > RelayMtu
                          /\ [pkt |-> p, id |-> f.id] \in sent
    BY FrameFacts, FrameSent
<1>2. Holds(c)
    <2>1. CASE k \in Matching(f)
        BY <2>1 DEF Claimed, Matching, ServiceInv, SlotsInv
    <2>2. CASE k \notin Matching(f)
        <3>1. c.buf = << >> /\ c.total_len = 0
            BY <2>2 DEF Claimed, FreeSlot
        <3> QED
            BY <3>1, NoBuffer DEF Holds
    <2> QED
        BY <2>1, <2>2
<1>3. PICK e \in SlotSet :
          /\ e = Stored(c, f) /\ e.id = c.id /\ e.src = c.src
          /\ e.buf = [q \in DOMAIN c.buf \cup {f.part} |->
                         IF q = f.part THEN <<f.pkt, q>> ELSE c.buf[q]]
          /\ e.total_len = IF f.part = TotalPart(f.pkt) - 1
                           THEN f.part * Chunk + PartLen(f.pkt, f.part)
                           ELSE c.total_len
    BY StoredTyped
<1>4. /\ f.part \in 0 .. TotalPart(p) - 1 /\ TotalPart(p) \in Nat \ {0}
      /\ f.part \in Nat /\ f.part < TotalPart(p)
    BY <1>1, FrameFacts
<1>5. InGroup(p, e) /\ \A a \in Packet : InGroup(a, c) => InGroup(a, e)
    BY <1>1, <1>3 DEF InGroup
<1>6. /\ DOMAIN e.buf = DOMAIN c.buf \cup {f.part} /\ e.buf[f.part] = <<p, f.part>>
      /\ \A q \in DOMAIN c.buf : q # f.part => e.buf[q] = c.buf[q]
    BY <1>1, <1>3
<1>7. \A q \in DOMAIN e.buf : \E a \in Packet : /\ InGroup(a, e) /\ q < TotalPart(a)
                                                /\ e.buf[q] = <<a, q>>
    <2> SUFFICES ASSUME NEW q \in DOMAIN e.buf
                 PROVE  \E a \in Packet : /\ InGroup(a, e) /\ q < TotalPart(a)
                                          /\ e.buf[q] = <<a, q>>
        OBVIOUS
    <2>1. CASE q = f.part
        BY <1>4, <1>5, <1>6, <2>1
    <2>2. CASE q # f.part
        BY <1>2, <1>5, <1>6, <2>2 DEF Holds
    <2> QED
        BY <2>1, <2>2
<1>8. CASE f.part = TotalPart(p) - 1
    <2>1. e.total_len = p.len
        BY <1>1, <1>3, <1>4, <1>8, PartEnd
    <2>2. e.buf[TotalPart(p) - 1][1] = p
        BY <1>6, <1>8
    <2>3. PartLen(p, f.part) \in Int
        BY <1>1, <1>4, FullParts
    <2>4. Covers(p, f.part, p)
        BY <1>4, <2>3 DEF Covers
    <2> QED
        BY <1>3, <1>5, <1>6, <1>7, <1>8, <2>1, <2>2, <2>4 DEF Holds
<1>9. CASE f.part # TotalPart(p) - 1
    <2>1. e.total_len = c.total_len
        BY <1>1, <1>3, <1>9
    <2>2. CASE c.total_len = 0
        BY <1>3, <1>7, <2>1, <2>2 DEF Holds
    <2>3. CASE c.total_len # 0
        <3>1. PICK a \in Packet :
                  /\ InGroup(a, c) /\ c.total_len = a.len
                  /\ TotalPart(a) - 1 \in DOMAIN c.buf
                  /\ Covers(c.buf[TotalPart(a) - 1][1], TotalPart(a) - 1, a)
            BY <1>2, <2>3 DEF Holds
        <3>2. PICK l \in Nat : l = TotalPart(a) - 1
            BY PartsAreNat
        <3>3. Covers(e.buf[l][1], l, a)
            <4>1. CASE l = f.part
                <5>1. PartLen(p, l) = Chunk
                    BY <1>1, <1>4, <1>9, <4>1, FullParts
                <5>2. PartLen(a, l) \in Int /\ PartLen(a, l) <= Chunk
                    BY <3>1, FullParts DEF InGroup
                <5>3. Chunk \in Nat
                    BY Sizes
                <5>4. Covers(p, l, a)
                    BY <1>4, <4>1, <5>1, <5>2, <5>3 DEF Covers
                <5> QED
                    BY <1>6, <4>1, <5>4
            <4>2. CASE l # f.part
                BY <1>6, <3>1, <3>2, <4>2
            <4> QED
                BY <4>1, <4>2
        <3> QED
            BY <1>3, <1>5, <1>6, <1>7, <2>1, <3>1, <3>2, <3>3 DEF Holds
    <2> QED
        BY <2>2, <2>3
<1> QED
    BY <1>8, <1>9

\* What is copied out of a complete group has arrived.  It has two parts, since the
\* pump's buffer has no room for a third.
LEMMA CompleteArrives ==
    ASSUME NEW f, TotalPart(f.pkt) \in Nat, NEW d \in SlotSet, Holds(d), Complete(d, f),
           ~(d.total_len > OutBytes)
    PROVE  Arrived(Copied(d), sent)
<1>1. d.total_len \in Nat /\ d.total_len > 0 /\ d.total_len <= OutBytes
    BY Sizes DEF SlotSet, Complete
<1>2. PICK p \in Packet : /\ InGroup(p, d) /\ d.total_len = p.len
                          /\ TotalPart(p) - 1 \in DOMAIN d.buf
                          /\ Covers(d.buf[TotalPart(p) - 1][1], TotalPart(p) - 1, p)
    BY <1>1 DEF Holds
<1>3. /\ p.len \in Nat \ {0} /\ p.len > RelayMtu /\ p.len <= 2 * Chunk
      /\ TotalPart(p) = 2
    BY <1>1, <1>2, PartsAreNat, FullParts, Sizes DEF InGroup
<1>4. (p.len + Chunk - 1) \div Chunk = 2
    BY <1>3, Sizes DEF TotalPart
<1>5. 0 \in DOMAIN d.buf /\ 1 \in DOMAIN d.buf
    <2>1. 1 \in DOMAIN d.buf
        BY <1>2, <1>3
    <2>2. PICK n \in Int : DOMAIN d.buf = 0 .. n
        BY DEF Complete
    <2> QED
        BY <2>1, <2>2
<1>6. PICK a \in Packet : InGroup(a, d) /\ d.buf[0] = <<a, 0>>
    BY <1>5 DEF Holds
<1>7. PICK b \in Packet : InGroup(b, d) /\ d.buf[1] = <<b, 1>>
    BY <1>5 DEF Holds
<1>8. Covers(a, 0, p) /\ Covers(b, 1, p)
    <2>1. Covers(b, 1, p)
        BY <1>2, <1>3, <1>7
    <2>2. PartLen(a, 0) = Chunk /\ PartLen(p, 0) = Chunk /\ TotalPart(a) >= 2
        BY <1>3, <1>6, FullParts DEF InGroup
    <2>3. TotalPart(a) \in Nat /\ Chunk \in Nat
        BY PartsAreNat, Sizes
    <2> QED
        BY <2>1, <2>2, <2>3 DEF Covers
<1> DEFINE o == [pkt |-> p, id |-> d.id]
           P == Together(sent, o)
           c == [i \in 1 .. 2 |-> IF i = 1 THEN a ELSE b]
<1>9. o \in sent /\ o.pkt = p
    BY <1>2 DEF InGroup
<1>10. a \in P /\ b \in P
    <2>1. o.id # Nothing
        BY Sizes DEF SlotSet
    <2>2. P = {u.pkt : u \in {v \in sent : v.id = o.id /\ v.pkt.src = o.pkt.src}}
        BY <2>1 DEF Together
    <2>3. ASSUME NEW x \in Packet, InGroup(x, d) PROVE x \in P
        <3>1. PICK v \in sent : v = [pkt |-> x, id |-> d.id]
            BY <2>3 DEF InGroup
        <3>2. v.pkt = x /\ v.id = o.id /\ v.pkt.src = o.pkt.src
            BY <1>2, <2>3, <3>1 DEF InGroup
        <3> QED
            BY <2>2, <3>2
    <2> QED
        BY <1>6, <1>7, <2>3
<1>11. c \in [1 .. TotalPart(p) -> P]
    BY <1>3, <1>10
<1>12. \A i \in 1 .. TotalPart(p) : Covers(c[i], i - 1, p)
    <2>1. \A i \in 1 .. 2 : i = 1 \/ i = 2
        OBVIOUS
    <2> QED
        BY <1>3, <1>8, <2>1
<1>13. Copied(d) = Image([i \in 1 .. TotalPart(p) |-> <<c[i], i - 1>>], p.len)
    <2>1. \A i \in 1 .. 2 : i = 1 \/ i = 2
        OBVIOUS
    <2>2. \A i \in 1 .. 2 : (IF i - 1 \in DOMAIN d.buf THEN d.buf[i - 1] ELSE Nothing)
                            = <<c[i], i - 1>>
        BY <1>5, <1>6, <1>7, <2>1
    <2>3. Copied(d) = Image([i \in 1 .. 2 |->
                                IF i - 1 \in DOMAIN d.buf THEN d.buf[i - 1] ELSE Nothing],
                            p.len)
        BY <1>2, <1>4 DEF Copied
    <2> QED
        BY <1>3, <2>2, <2>3
<1>14. Copied(d).len \in 0 .. OutBytes
    BY <1>1, Sizes DEF Copied, Image
<1> HIDE DEF o, P, c
<1>15. Copied(d) \in Blends(P, p)
    BY <1>11, <1>12, <1>13 DEF Blends
<1>16. Copied(d) \in Arrivals(sent)
    BY <1>9, <1>15 DEF Arrivals, P
<1> QED
    BY <1>14, <1>16 DEF Arrived

\* A new image at the end of the ring.
LEMMA EnqueueServes ==
    ASSUME TypeInv, QueueInv, NEW m, Arrived(m, sent), Enqueue(m),
           UNCHANGED <<head, sent>>
    PROVE  QueueInv'
<1>1. CASE UNCHANGED <<queue, count>>
    BY <1>1, QueueKept
<1>2. CASE /\ count < QueueSize /\ count' = count + 1
           /\ queue' = [queue EXCEPT ![TailCell] = m]
    <2>1. TailCell \in Cell /\ head \in Nat /\ count \in Nat /\ DOMAIN queue = Cell
        BY TailTyped DEF TypeInv
    <2>2. /\ queue'[TailCell] = m
          /\ \A x \in Cell : x # TailCell => queue'[x] = queue[x]
        BY <1>2, <2>1
    <2> SUFFICES ASSUME NEW i \in 0 .. count' - 1
                 PROVE  Arrived(queue'[(head' + i) % QueueSize], sent)
        BY DEF QueueInv
    <2>3. CASE i = count
        BY <2>2, <2>3 DEF TailCell
    <2>4. CASE i \in 0 .. count - 1
        <3>1. i \in Nat /\ i < count /\ QueueSize \in Nat \ {0}
            BY <2>1, <2>4, Sizes
        <3>2. (head + i) % QueueSize # TailCell
            BY <1>2, <2>1, <3>1, DistinctMod DEF TailCell
        <3>4. head + i \in Int
            BY <2>1, <3>1
        <3>5. (head + i) % QueueSize \in Cell
            BY <3>1, <3>4, DivMod DEF Cell
        <3>3. queue'[(head' + i) % QueueSize] = queue[(head + i) % QueueSize]
            BY <2>2, <3>2, <3>5
        <3> QED
            BY <2>4, <3>3 DEF QueueInv
    <2> QED
        BY <1>2, <2>1, <2>3, <2>4
<1> QED
    BY <1>1, <1>2 DEF Enqueue

LEMMA RecvIpv4Serves ==
    ASSUME TypeInv, ServiceInv, NEW f \in net, RecvIpv4(f)
    PROVE  ServiceInv'
<1>1. UNCHANGED <<slots, head, sent, popped>> /\ f.type = "Ipv4"
    BY DEF RecvIpv4
<1>2. SlotsInv' /\ PoppedInv'
    BY <1>1, SlotsKept, PoppedKept DEF ServiceInv
<1>3. Whole(f.pkt) \in Arrivals(sent) /\ f.pkt.len \in Nat
    <2>1. PICK o \in sent : o.pkt = f.pkt
        BY <1>1, DatagramFacts
    <2>2. f.pkt \in Packet /\ f.pkt.len \in Nat
        BY <1>1, DatagramFacts
    <2> QED
        BY <2>1, <2>2, WholeArrives
<1>4. QueueInv'
    <2>1. CASE UNCHANGED <<queue, count>>
        BY <1>1, <2>1, QueueKept DEF ServiceInv
    <2>2. CASE f.pkt.len <= OutBytes /\ Enqueue(Whole(f.pkt))
        <3>1. Arrived(Whole(f.pkt), sent)
            BY <1>3, <2>2, Sizes DEF Arrived, Whole, Image
        <3> QED
            BY <1>1, <2>2, <3>1, EnqueueServes DEF ServiceInv
    <2> QED
        BY <1>3, <2>1, <2>2, Sizes DEF RecvIpv4
<1> QED
    BY <1>2, <1>4 DEF ServiceInv

LEMMA ReassembleServes ==
    ASSUME TypeInv, ServiceInv, NEW f \in net, ReassembleFrag(f)
    PROVE  /\ ServiceInv'
           /\ \/ UNCHANGED <<queue, count>>
              \/ \E m \in Arrivals(sent) : Enqueue(m)
<1>1. f.type = "Ipv4Frag" /\ Candidates(f) # {}
    BY DEF ReassembleFrag
<1>2. PICK k \in FSlot, c \in SlotSet :
          /\ k = First(Candidates(f)) /\ c = Claimed(k, f)
          /\ c.used /\ c.id = f.id /\ c.src = f.pkt.src
    BY <1>1, SlotChosen
<1>3. PICK d : d = Stored(c, f)
    OBVIOUS
<1>4. Fits(f) => d \in SlotSet /\ Holds(d)
    BY <1>1, <1>2, <1>3, StoredTyped, GroupGrows
<1>5. TotalPart(f.pkt) \in Nat
    BY <1>1, FrameFacts
<1>6. UNCHANGED <<head, sent, popped>>
    BY DEF ReassembleFrag
<1>7. \/ /\ slots' = [slots EXCEPT ![k] = FreeSlot]
         /\ UNCHANGED <<queue, count>>
      \/ /\ Fits(f) /\ slots' = [slots EXCEPT ![k] = d]
         /\ UNCHANGED <<queue, count>>
      \/ /\ Fits(f) /\ slots' = [slots EXCEPT ![k] = FreeSlot]
         /\ Complete(d, f) /\ Enqueue(Copied(d)) /\ ~(d.total_len > OutBytes)
    BY <1>2, <1>3 DEF ReassembleFrag
<1>8. /\ \A j \in FSlot : j # k => slots'[j] = slots[j]
      /\ slots'[k] = FreeSlot \/ (Fits(f) /\ slots'[k] = d)
    BY <1>7 DEF TypeInv
<1>9. SlotsInv'
    <2> SUFFICES ASSUME NEW j \in FSlot, slots'[j].used PROVE Holds(slots[j])'
        BY DEF SlotsInv
    <2>1. PICK r : r = slots'[j]
        OBVIOUS
    <2>2. Holds(r)
        <3>1. CASE j = k
            BY <1>4, <1>8, <2>1, <3>1 DEF FreeSlot
        <3>2. CASE j # k
            BY <1>8, <2>1, <3>2 DEF ServiceInv, SlotsInv
        <3> QED
            BY <3>1, <3>2
    <2>3. Holds(r)'
        BY <1>6, <2>2, HoldsKept
    <2> QED
        BY <2>1, <2>3 DEF Holds, InGroup
<1>10. ASSUME Fits(f), Complete(d, f), Enqueue(Copied(d)), ~(d.total_len > OutBytes)
       PROVE  QueueInv' /\ Copied(d) \in Arrivals(sent)
    <2>1. Arrived(Copied(d), sent)
        BY <1>4, <1>5, <1>10, CompleteArrives
    <2> QED
        BY <1>6, <1>10, <2>1, EnqueueServes DEF ServiceInv, Arrived
<1>11. UNCHANGED <<queue, count>> => QueueInv'
    BY <1>6, QueueKept DEF ServiceInv
<1>12. PoppedInv'
    BY <1>6, PoppedKept DEF ServiceInv
<1> QED
    BY <1>7, <1>9, <1>10, <1>11, <1>12 DEF ServiceInv

\* The packet that PopIpv4 takes.
LEMMA OldestArrived ==
    ASSUME TypeInv, QueueInv, count > 0 PROVE Arrived(queue[head], sent)
<1>1. count \in Nat /\ head \in 0 .. QueueSize - 1 /\ QueueSize \in Nat \ {0}
    BY TailTyped, Sizes DEF TypeInv, TypeOK, Cell
<1>2. 0 \in 0 .. count - 1 /\ head + 0 = head /\ head \in 0 .. 2 * QueueSize - 1
      /\ head < QueueSize
    BY <1>1
<1>3. head % QueueSize = head
    BY <1>1, <1>2, RingMod
<1> QED
    BY <1>2, <1>3 DEF QueueInv

\* The ring after the oldest packet has left it.
LEMMA NextCell ==
    ASSUME TypeInv, count > 0, NEW i \in 0 .. count - 1
    PROVE  (((head + 1) % QueueSize) + i) % QueueSize = (head + (i + 1)) % QueueSize
<1>1. /\ QueueSize \in Nat \ {0} /\ head \in 0 .. QueueSize - 1
      /\ i \in 0 .. QueueSize - 1
    BY Sizes DEF TypeInv, TypeOK, Cell
<1>2. CASE head + 1 < QueueSize
    <2>1. head + 1 \in 0 .. 2 * QueueSize - 1
        BY <1>1, <1>2
    <2>2. (head + 1) % QueueSize = head + 1
        BY <1>1, <1>2, <2>1, RingMod
    <2>3. (head + 1) + i = head + (i + 1)
        BY <1>1
    <2> QED
        BY <2>2, <2>3
<1>3. CASE head + 1 = QueueSize
    <2>1. head + 1 \in 0 .. 2 * QueueSize - 1
        BY <1>1, <1>3
    <2>2. (head + 1) % QueueSize = 0
        BY <1>1, <1>3, <2>1, RingMod
    <2>3. i \in 0 .. 2 * QueueSize - 1 /\ i < QueueSize /\ 0 + i = i
        BY <1>1
    <2>4. i % QueueSize = i
        BY <1>1, <2>3, RingMod
    <2>5. PICK y \in 0 .. 2 * QueueSize - 1 : y = head + (i + 1)
        BY <1>1, <1>3
    <2>6. ~(y < QueueSize) /\ y - QueueSize = i
        BY <1>1, <1>3, <2>5
    <2>7. y % QueueSize = i
        BY <1>1, <2>6, RingMod
    <2> QED
        BY <2>2, <2>3, <2>4, <2>5, <2>7
<1> QED
    BY <1>1, <1>2, <1>3

LEMMA PopServes ==
    ASSUME TypeInv, ServiceInv, PopIpv4
    PROVE  ServiceInv'
<1>1. /\ UNCHANGED <<slots, queue, sent>>
      /\ head' = (head + 1) % QueueSize /\ count' = count - 1 /\ count > 0
      /\ popped' \in {popped, popped \cup {queue[head]}}
    BY DEF PopIpv4
<1>2. SlotsInv'
    BY <1>1, SlotsKept DEF ServiceInv
<1>3. PoppedInv'
    <2>1. queue[head] \in Arrivals(sent)
        BY <1>1, OldestArrived DEF ServiceInv, Arrived
    <2> QED
        BY <1>1, <2>1 DEF ServiceInv, PoppedInv
<1>4. QueueInv'
    <2> SUFFICES ASSUME NEW i \in 0 .. count' - 1
                 PROVE  Arrived(queue'[(head' + i) % QueueSize], sent)
        BY <1>1 DEF QueueInv
    <2>1. count \in Nat
        BY TailTyped
    <2>2. i \in 0 .. count - 1 /\ i + 1 \in 0 .. count - 1
        BY <1>1, <2>1
    <2>3. (head' + i) % QueueSize = (head + (i + 1)) % QueueSize
        BY <1>1, <2>2, NextCell
    <2> QED
        BY <1>1, <2>2, <2>3 DEF ServiceInv, QueueInv
<1> QED
    BY <1>2, <1>3, <1>4 DEF ServiceInv

LEMMA ConnectionServes ==
    ASSUME TypeInv, ServiceInv, Close \/ Connect \/ UNCHANGED vars
    PROVE  ServiceInv'
<1>1. /\ UNCHANGED <<slots, queue, sent, popped>>
      /\ UNCHANGED <<head, count>> \/ count' = 0
    BY DEF Close, Connect, vars
<1>2. SlotsInv'
    BY <1>1, SlotsKept DEF ServiceInv
<1>3. PoppedInv'
    BY <1>1, PoppedKept DEF ServiceInv
<1>4. QueueInv'
    <2>1. CASE UNCHANGED <<head, count>>
        BY <1>1, <2>1, QueueKept DEF ServiceInv
    <2>2. CASE count' = 0
        BY <2>2 DEF QueueInv
    <2> QED
        BY <1>1, <2>1, <2>2
<1> QED
    BY <1>2, <1>3, <1>4 DEF ServiceInv

LEMMA NextServes ==
    TypeInv /\ ServiceInv /\ [Next]_vars => ServiceInv'
<1> SUFFICES ASSUME TypeInv, ServiceInv, [Next]_vars PROVE ServiceInv'
    OBVIOUS
<1>1. ASSUME NEW s \in Source, Sender(s) PROVE ServiceInv'
    BY <1>1, SenderServes
<1>2. CASE Receive
    BY <1>2, RecvIpv4Serves, LoseServes, ReassembleServes DEF Receive
<1> QED
    BY <1>1, <1>2, LoseServes, PopServes, ConnectionServes DEF Next

LEMMA InitServes ==
    Init => ServiceInv
<1> SUFFICES ASSUME Init PROVE ServiceInv
    OBVIOUS
<1>1. SlotsInv /\ QueueInv /\ PoppedInv
    BY DEF Init, SlotsInv, QueueInv, PoppedInv, FreeSlot
<1> QED
    BY <1>1 DEF ServiceInv
-----------------------------------------------------------------------------
(* The steps of the datagram service.                                      *)

LEMMA FifoFacts ==
    ASSUME TypeInv
    PROVE  /\ count \in Nat /\ Fifo \in Seq({queue[c] : c \in Cell})
           /\ Len(Fifo) = count
           /\ \A i \in 1 .. count : Fifo[i] = queue[(head + i - 1) % QueueSize]
<1>1. count \in Nat /\ head \in Nat
    BY TailTyped
<1>2. \A i \in 1 .. count : (head + i - 1) % QueueSize \in Cell
    <2> SUFFICES ASSUME NEW i \in 1 .. count
                 PROVE  (head + i - 1) % QueueSize \in Cell
        OBVIOUS
    <2>1. head + i - 1 \in Int
        BY <1>1
    <2> QED
        BY <2>1, DivMod, Sizes DEF Cell
<1> DEFINE S == {queue[c] : c \in Cell}
<1>3. \A i \in 1 .. count : queue[(head + i - 1) % QueueSize] \in S
    BY <1>2
<1> HIDE DEF S
<1>4. Fifo \in [1 .. count -> S]
    BY <1>3 DEF Fifo
<1>5. Fifo \in Seq(S) /\ Len(Fifo) = count
    BY <1>1, <1>4
<1> QED
    BY <1>1, <1>5 DEF Fifo, S

LEMMA Appended ==
    ASSUME NEW S, NEW q \in Seq(S), NEW x
    PROVE  Append(q, x) = [i \in 1 .. Len(q) + 1 |-> IF i = Len(q) + 1 THEN x ELSE q[i]]
<1> DEFINE T == S \cup {x}
           a == Append(q, x)
<1>1. q \in Seq(T) /\ x \in T
    OBVIOUS
<1>2. /\ a \in Seq(T) /\ Len(a) = Len(q) + 1
      /\ \A i \in 1 .. Len(q) : a[i] = q[i]
      /\ a[Len(q) + 1] = x
    BY <1>1, AppendProperties
<1>3. Len(q) \in Nat
    BY LenProperties
<1> HIDE DEF a
<1>4. a = [i \in 1 .. Len(q) + 1 |-> a[i]]
    BY <1>2, LenProperties
<1>5. \A i \in 1 .. Len(q) + 1 : a[i] = IF i = Len(q) + 1 THEN x ELSE q[i]
    BY <1>2, <1>3
<1> QED
    BY <1>4, <1>5 DEF a

LEMMA Shortened ==
    ASSUME NEW S, NEW q \in Seq(S), Len(q) > 0
    PROVE  /\ Head(q) = q[1] /\ q # << >>
           /\ Tail(q) = [i \in 1 .. Len(q) - 1 |-> q[i + 1]]
<1>1. q # << >>
    OBVIOUS
<1>2. /\ Tail(q) \in Seq(S) /\ Len(Tail(q)) = Len(q) - 1
      /\ \A i \in 1 .. Len(Tail(q)) : Tail(q)[i] = q[i + 1]
    BY <1>1, HeadTailProperties
<1>3. Tail(q) = [i \in 1 .. Len(q) - 1 |-> Tail(q)[i]]
    BY <1>2, LenProperties
<1>4. Head(q) = q[1]
    OBVIOUS
<1> QED
    BY <1>1, <1>2, <1>3, <1>4

LEMMA FifoSame ==
    ASSUME UNCHANGED <<queue, head, count>> PROVE Fifo' = Fifo
BY DEF Fifo

LEMMA EnqueueArrives ==
    ASSUME TypeInv, TypeInv', NEW x \in Arrivals(sent), Enqueue(x),
           UNCHANGED <<head, sent, popped>>
    PROVE  [D!Next]_<<sent, Fifo, popped>>
<1>1. CASE UNCHANGED <<queue, count>>
    BY <1>1, FifoSame
<1>2. CASE /\ count < QueueSize /\ count' = count + 1
           /\ queue' = [queue EXCEPT ![TailCell] = x]
    <2>1. /\ TailCell \in Cell /\ head \in Nat /\ count \in Nat
          /\ DOMAIN queue = Cell /\ QueueSize \in Nat \ {0}
        BY TailTyped, Sizes DEF TypeInv
    <2>2. /\ Fifo \in Seq({queue[c] : c \in Cell}) /\ Len(Fifo) = count
          /\ \A i \in 1 .. count : Fifo[i] = queue[(head + i - 1) % QueueSize]
        BY FifoFacts
    <2>3. ASSUME NEW i \in 1 .. count
          PROVE  queue'[(head + i - 1) % QueueSize] = queue[(head + i - 1) % QueueSize]
        <3>1. PICK j \in Nat : j = i - 1 /\ j < count
            BY <2>1
        <3>2. head + j \in Int /\ head + i - 1 = head + j
            BY <2>1, <3>1
        <3>3. (head + j) % QueueSize \in Cell
            BY <2>1, <3>2, DivMod DEF Cell
        <3>4. (head + j) % QueueSize # TailCell
            BY <1>2, <2>1, <3>1, DistinctMod DEF TailCell
        <3> QED
            BY <1>2, <2>1, <3>2, <3>3, <3>4
    <2>4. queue'[(head + (count + 1) - 1) % QueueSize] = x
        <3>1. head + (count + 1) - 1 = head + count
            BY <2>1
        <3> QED
            BY <1>2, <2>1, <3>1 DEF TailCell
    <2>5. Fifo' = [i \in 1 .. count + 1 |-> queue'[(head + i - 1) % QueueSize]]
        BY <1>2 DEF Fifo
    <2>6. \A i \in 1 .. count + 1 : i \in 1 .. count \/ i = count + 1
        BY <2>1
    <2>7. Fifo' = [i \in 1 .. count + 1 |-> IF i = count + 1 THEN x ELSE Fifo[i]]
        BY <2>1, <2>2, <2>3, <2>4, <2>5, <2>6
    <2>8. Fifo' = Append(Fifo, x)
        BY <2>2, <2>7, Appended
    <2>9. D!Arrive
        BY <1>2, <2>2, <2>8 DEF D!Arrive
    <2> QED
        BY <2>9 DEF D!Next
<1> QED
    BY <1>1, <1>2 DEF Enqueue
LEMMA PopPops ==
    ASSUME TypeInv, TypeInv', ServiceInv, PopIpv4
    PROVE  D!Pop
<1>1. /\ UNCHANGED <<queue, sent>> /\ count > 0 /\ count' = count - 1
      /\ head' = (head + 1) % QueueSize
      /\ popped' = IF queue[head].len > PopBytes THEN popped
                   ELSE popped \cup {queue[head]}
    BY DEF PopIpv4
<1>2. /\ count \in Nat /\ head \in 0 .. QueueSize - 1 /\ QueueSize \in Nat \ {0}
    BY TailTyped, Sizes DEF TypeInv, TypeOK, Cell
<1>3. /\ Fifo \in Seq({queue[c] : c \in Cell}) /\ Len(Fifo) = count
      /\ \A i \in 1 .. count : Fifo[i] = queue[(head + i - 1) % QueueSize]
    BY FifoFacts
<1>4. /\ Head(Fifo) = Fifo[1] /\ Fifo # << >>
      /\ Tail(Fifo) = [i \in 1 .. count - 1 |-> Fifo[i + 1]]
    BY <1>1, <1>3, Shortened
<1>5. head % QueueSize = head
    <2>1. head \in 0 .. 2 * QueueSize - 1 /\ head < QueueSize
        BY <1>2
    <2> QED
        BY <1>2, <2>1, RingMod
<1>6. Head(Fifo) = queue[head]
    <2>1. head + 1 - 1 = head /\ 1 \in 1 .. count
        BY <1>1, <1>2
    <2> QED
        BY <1>3, <1>4, <1>5, <2>1
<1>7. popped' = popped \cup {queue[head]}
    <2>1. queue[head].len \in 0 .. OutBytes
        BY <1>1, OldestArrived DEF ServiceInv, Arrived
    <2>2. ~(queue[head].len > PopBytes)
        BY <2>1, Sizes
    <2> QED
        BY <1>1, <2>2
<1>8. Fifo' = Tail(Fifo)
    <2>1. Fifo' = [i \in 1 .. count - 1 |-> queue[(head' + i - 1) % QueueSize]]
        BY <1>1 DEF Fifo
    <2>2. ASSUME NEW i \in 1 .. count - 1
          PROVE  queue[(head' + i - 1) % QueueSize] = Fifo[i + 1]
        <3>1. PICK j \in 0 .. count - 1 : j = i - 1
            BY <1>2
        <3>2. (head' + j) % QueueSize = (head + (j + 1)) % QueueSize
            BY <1>1, NextCell
        <3>3. head' \in Int
            BY DEF TypeInv, TypeOK, Cell
        <3>4. /\ head' + i - 1 = head' + j /\ head + (j + 1) = head + (i + 1) - 1
              /\ i + 1 \in 1 .. count
            BY <1>2, <3>1, <3>3
        <3> QED
            BY <1>3, <3>2, <3>4
    <2> QED
        BY <1>4, <2>1, <2>2
<1> QED
    BY <1>1, <1>4, <1>6, <1>7, <1>8 DEF D!Pop

LEMMA SendSends ==
    ASSUME NEW p, sent' = sent \cup {p}, UNCHANGED <<queue, head, count, popped>>
    PROVE  D!Send
<1>1. Fifo' = Fifo
    BY FifoSame
<1> QED
    BY <1>1 DEF D!Send

LEMMA CloseResets ==
    ASSUME Close PROVE D!Reset
<1>1. Fifo' = << >>
    BY DEF Close, Fifo
<1> QED
    BY <1>1 DEF Close, D!Reset

LEMMA StepRefines ==
    ASSUME TypeInv, TypeInv', ServiceInv, [Next]_vars
    PROVE  [D!Next]_<<sent, Fifo, popped>>
<1> USE DEF D!Next
<1>1. ASSUME NEW s \in Source, Sender(s) PROVE [D!Next]_<<sent, Fifo, popped>>
    <2>1. ASSUME NEW t \in Thread, SendFragmented(s, t) PROVE D!Send
        BY <2>1, SendSends DEF SendFragmented, receiver
    <2>2. ASSUME NEW t \in Thread, NEW len \in Lens, SendIpv4(s, t, len) PROVE D!Send
        BY <2>2, SendSends DEF SendIpv4, receiver
    <2>3. ASSUME Restart(s) \/ \E t \in Thread, len \in Lens : LoadFragId(s, t, len)
          PROVE  UNCHANGED <<sent, Fifo, popped>>
        BY <2>3, FifoSame DEF Restart, LoadFragId, receiver
    <2> QED
        BY <1>1, <2>1, <2>2, <2>3 DEF Sender
<1>2. ASSUME NEW f \in net, RecvIpv4(f) PROVE [D!Next]_<<sent, Fifo, popped>>
    <2>1. UNCHANGED <<head, sent, popped>>
        BY <1>2 DEF RecvIpv4
    <2>2. Whole(f.pkt) \in Arrivals(sent)
        BY <1>2, DatagramFacts, WholeArrives DEF RecvIpv4
    <2>3. CASE UNCHANGED <<queue, count>>
        BY <2>1, <2>3, FifoSame
    <2>4. CASE Enqueue(Whole(f.pkt))
        BY <2>1, <2>2, <2>4, EnqueueArrives
    <2> QED
        BY <1>2, <2>3, <2>4 DEF RecvIpv4
<1>3. ASSUME NEW f \in net, ReassembleFrag(f) PROVE [D!Next]_<<sent, Fifo, popped>>
    <2>1. UNCHANGED <<head, sent, popped>>
        BY <1>3 DEF ReassembleFrag
    <2>2. UNCHANGED <<queue, count>> \/ \E m \in Arrivals(sent) : Enqueue(m)
        BY <1>3, ReassembleServes
    <2>3. CASE UNCHANGED <<queue, count>>
        BY <2>1, <2>3, FifoSame
    <2>4. ASSUME NEW m \in Arrivals(sent), Enqueue(m)
          PROVE  [D!Next]_<<sent, Fifo, popped>>
        BY <2>1, <2>4, EnqueueArrives
    <2> QED
        BY <2>2, <2>3, <2>4
<1>4. ASSUME NEW f \in net, DropFrag(f) \/ Lose(f)
      PROVE  UNCHANGED <<sent, Fifo, popped>>
    BY <1>4, FifoSame DEF DropFrag, Lose, receiver
<1>5. ASSUME Connect \/ UNCHANGED vars PROVE UNCHANGED <<sent, Fifo, popped>>
    BY <1>5, FifoSame DEF Connect, vars
<1> QED
    BY <1>1, <1>2, <1>3, <1>4, <1>5, PopPops, CloseResets DEF Next, Receive

\* The relay connection is a datagram service, for any number of consoles, threads,
\* slots and cells, restarts included, and whatever the relay loses, repeats and
\* reorders: what PopIpv4 hands out, first in, first out, is one packet as it was
\* sent, or has its parts from packets that their sender sent under the same id.
THEOREM RelayIsDatagramService ==
    Spec => IsDatagramService
<1>1. Init => D!Init
    <2> SUFFICES ASSUME Init PROVE D!Init
        OBVIOUS
    <2>1. Fifo = << >>
        BY DEF Init, Fifo
    <2> QED
        BY <2>1 DEF Init, D!Init
<1>2. TypeInv /\ TypeInv' /\ ServiceInv /\ [Next]_vars
      => [D!Next]_<<sent, Fifo, popped>>
    BY StepRefines
<1>3. TypeInv /\ ServiceInv /\ [Next]_vars => ServiceInv'
    BY NextServes
<1> QED
    BY <1>1, <1>2, <1>3, InitServes, TypedAlways, PTL DEF Spec, IsDatagramService, D!Spec
-----------------------------------------------------------------------------
(* Which packets are not mixed.                                            *)

\* The sender of o has sent another packet under o's fragment id.
SharesId(o) ==
    \E u \in sent : /\ u.pkt # o.pkt /\ u.pkt.src = o.pkt.src
                    /\ u.id = o.id /\ o.id # Nothing

\* What arrives of a packet that has its id to itself is the packet.
LEMMA UnsharedIsWhole ==
    ASSUME TypeInv, NEW o \in sent, ~SharesId(o),
           NEW m \in Blends(Together(sent, o), o.pkt)
    PROVE  m = Whole(o.pkt)
<1>1. \A p \in Together(sent, o) : p = o.pkt
    BY DEF Together, SharesId
<1>2. PICK c \in [1 .. TotalPart(o.pkt) -> Together(sent, o)] :
          m = Image([i \in 1 .. TotalPart(o.pkt) |-> <<c[i], i - 1>>], o.pkt.len)
    BY DEF Blends
<1>3. [i \in 1 .. TotalPart(o.pkt) |-> <<c[i], i - 1>>]
      = [i \in 1 .. TotalPart(o.pkt) |-> <<o.pkt, i - 1>>]
    BY <1>1, <1>2
<1> QED
    BY <1>2, <1>3 DEF Whole

\* Whatever PopIpv4 has handed out is made from one packet that was sent, and from
\* those its sender sent under the same id; and if there are none of these, it is the
\* packet as it was sent.
MixedUnderOneId ==
    \A m \in popped :
        \E o \in sent : /\ m \in Blends(Together(sent, o), o.pkt)
                        /\ ~SharesId(o) => m = Whole(o.pkt)

\* A packet that PopIpv4 hands out was altered only if its sender sent another under
\* its fragment id, which two threads in SendFragmented, a restart or the wrap of
\* m_next_frag_id can bring about, and nothing at the receiver or the relay can.
THEOREM MixedOnlyUnderOneId ==
    Spec => []MixedUnderOneId
<1>1. TypeInv /\ ServiceInv => MixedUnderOneId
    <2> SUFFICES ASSUME TypeInv, ServiceInv, NEW m \in popped
                 PROVE  \E o \in sent : /\ m \in Blends(Together(sent, o), o.pkt)
                                        /\ ~SharesId(o) => m = Whole(o.pkt)
        BY DEF MixedUnderOneId
    <2>1. PICK o \in sent : m \in Blends(Together(sent, o), o.pkt)
        BY DEF ServiceInv, PoppedInv, Arrivals
    <2> QED
        BY <2>1, UnsharedIsWhole
<1>2. TypeInv /\ ServiceInv /\ [Next]_vars => ServiceInv'
    BY NextServes
<1> QED
    BY <1>1, <1>2, InitServes, TypedAlways, PTL DEF Spec
=============================================================================
