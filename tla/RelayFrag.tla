------------------------------ MODULE RelayFrag -----------------------------
(***************************************************************************)
(* The packet path of src/source/relay_bridge.hpp: SendIpv4 and            *)
(* SendFragmented at the consoles that send, RecvIpv4 and ReassembleFrag   *)
(* at one console that receives, and the ring buffer between its pump      *)
(* thread and PopIpv4.  The slots belong to the pump thread alone, so      *)
(* handling one frame, and queueing what it completes, is one step.        *)
(*                                                                         *)
(* Contents are not bytes: a piece <<p, i>> is part i of packet p.  Sizes  *)
(* are the code's sizes in bytes.                                          *)
(***************************************************************************)
EXTENDS Integers, Sequences, FiniteSets

CONSTANTS
    Source,        \* the consoles that send, named by their IP address
    Thread,        \* the threads of a console that call SendIpv4
    Nothing,       \* no packet
    RelayMtu,      \* RELAY_MTU
    Chunk,         \* bytes of a part: RELAY_MTU - sizeof(FragHeader), sent as pmtu
    OutBytes,      \* sizeof(pkt) in PumpLoop
    PopBytes,      \* sizeof(pkt) in PopIpv4's caller
    SlotBytes,     \* sizeof(ReassemblySlot::buffer)
    NumSlots,      \* NUM_SLOTS
    MaxDist,       \* the drift up to which a slot is not evicted (10)
    QueueSize,     \* QueueSize
    IdMod,         \* fragment ids are 0 .. IdMod-1 (2^16 in the code)
    FirstId,       \* FirstId[s]: m_next_frag_id of s when a behaviour begins
    Lens,          \* bound: lengths of the packets sent
    MaxSends,      \* bound: packets a source sends
    Lossy,         \* whether the relay may lose a frame
    Dup,           \* whether it may deliver one more than once
    Closes,        \* whether the receiver may close and reconnect
    Restarts       \* the sources that may restart

Id == 0 .. IdMod - 1

ASSUME FragSizes ==
    /\ RelayMtu \in Nat \ {0} /\ Chunk \in Nat \ {0}
    /\ Chunk <= RelayMtu /\ OutBytes <= 2 * Chunk
    /\ OutBytes \in Nat /\ PopBytes \in Nat /\ OutBytes <= PopBytes
    /\ SlotBytes \in Nat
    /\ NumSlots \in Nat \ {0} /\ QueueSize \in Nat \ {0} /\ MaxDist \in Nat
    /\ Lens \subseteq Nat \ {0} /\ MaxSends \in Nat
    /\ Lossy \in BOOLEAN /\ Dup \in BOOLEAN /\ Closes \in BOOLEAN
    /\ Restarts \subseteq Source
    /\ \A len \in Lens : (len + Chunk - 1) \div Chunk <= 255

ASSUME IdAssumption ==
    /\ IdMod \in Nat \ {0} /\ Nothing \notin Id
    /\ FirstId \in [Source -> Id]

FSlot == 1 .. NumSlots
Cell == 0 .. QueueSize - 1

Packet == [src : Source, no : 1 .. MaxSends, len : Lens]

\* The parts SendIpv4 sends a packet in.
TotalPart(p) == IF p.len <= RelayMtu THEN 1 ELSE (p.len + Chunk - 1) \div Chunk

\* part_len of part i.
PartLen(p, i) == IF p.len - i * Chunk < Chunk THEN p.len - i * Chunk ELSE Chunk

\* What is in a receiver's buffer: pieces, and a length in bytes.
Image(pieces, len) == [pieces |-> pieces, len |-> len]

\* The image of packet p as it was sent.
Whole(p) == Image([i \in 1 .. TotalPart(p) |-> <<p, i - 1>>], p.len)

FreeSlot == [used |-> FALSE, id |-> 0, src |-> Nothing, buf |-> << >>, total_len |-> 0]

VARIABLES
    nextId,      \* nextId[s]: m_next_frag_id
    draft,       \* draft[s][t]: the packet thread t is in SendFragmented with, and its id
    net,         \* the frames in flight
    connected,   \* m_connected, and the pump thread runs
    slots,       \* m_slots; part_mask is DOMAIN buf
    most,        \* m_most_success_frag_id
    queue,       \* m_queue
    head,        \* m_queue_head
    count,       \* m_queue_count
    made,        \* history: packets source s has made
    sent,        \* history: packets sent, and the fragment ids they were sent with
    popped,      \* history: images PopIpv4 has handed out
    discarded    \* history: complete packets ReassembleFrag has thrown away

receiver == <<connected, slots, most, queue, head, count>>
vars == <<nextId, draft, net, connected, slots, most, queue, head, count,
          made, sent, popped, discarded>>

First(S) == CHOOSE k \in S : \A j \in S : k <= j

Init ==
    /\ nextId = FirstId
    /\ draft = [s \in Source |-> [t \in Thread |-> Nothing]]
    /\ net = {}
    /\ connected = TRUE
    /\ slots = [k \in FSlot |-> FreeSlot]
    /\ most = 0
    /\ queue = [c \in Cell |-> Nothing]
    /\ head = 0
    /\ count = 0
    /\ made = [s \in Source |-> 0]
    /\ sent = {}
    /\ popped = {}
    /\ discarded = {}
-----------------------------------------------------------------------------
(* Senders.  A part whose SendRaw fails is a part the relay loses.         *)

NewPacket(s, len) == [src |-> s, no |-> made[s] + 1, len |-> len]

\* SendIpv4 of a packet that fits one frame.
SendIpv4(s, t, len) ==
    /\ draft[s][t] = Nothing
    /\ made[s] < MaxSends
    /\ len <= RelayMtu
    /\ net' = net \cup {[type |-> "Ipv4", pkt |-> NewPacket(s, len)]}
    /\ made' = [made EXCEPT ![s] = @ + 1]
    /\ sent' = sent \cup {[pkt |-> NewPacket(s, len), id |-> Nothing]}
    /\ UNCHANGED <<nextId, draft, receiver, popped, discarded>>

\* SendFragmented reads m_next_frag_id ...
LoadFragId(s, t, len) ==
    /\ draft[s][t] = Nothing
    /\ made[s] < MaxSends
    /\ len > RelayMtu
    /\ draft' = [draft EXCEPT ![s][t] = [pkt |-> NewPacket(s, len), id |-> nextId[s]]]
    /\ made' = [made EXCEPT ![s] = @ + 1]
    /\ UNCHANGED <<nextId, net, receiver, sent, popped, discarded>>

\* The frames of packet p sent with fragment id i.
Frags(p, i) ==
    {[type |-> "Ipv4Frag", pkt |-> p, id |-> i, part |-> q] : q \in 0 .. TotalPart(p) - 1}

IncrementId(i) == (i + 1) % IdMod

\* ... and writes it back, incremented, and sends the parts.  No lock is held.
SendFragmented(s, t) ==
    /\ draft[s][t] # Nothing
    /\ nextId' = [nextId EXCEPT ![s] = IncrementId(draft[s][t].id)]
    /\ net' = net \cup Frags(draft[s][t].pkt, draft[s][t].id)
    /\ sent' = sent \cup {draft[s][t]}
    /\ draft' = [draft EXCEPT ![s][t] = Nothing]
    /\ UNCHANGED <<receiver, made, popped, discarded>>

\* A sender's console restarts: its counter begins at 0 again.
Restart(s) ==
    /\ s \in Restarts
    /\ nextId[s] # 0
    /\ nextId' = [nextId EXCEPT ![s] = 0]
    /\ draft' = [draft EXCEPT ![s] = [t \in Thread |-> Nothing]]
    /\ UNCHANGED <<net, receiver, made, sent, popped, discarded>>
-----------------------------------------------------------------------------
(* The receiver's pump thread.                                             *)

\* The cell the next packet goes to.
TailCell == (head + count) % QueueSize

\* PumpLoop queues an image, or drops it when the queue is full.
Enqueue(image) ==
    IF count < QueueSize
    THEN /\ queue' = [queue EXCEPT ![TailCell] = image]
         /\ count' = count + 1
    ELSE UNCHANGED <<queue, count>>

\* A frame is taken from the socket; the relay may hold another copy of it.
Take(f) == net' = net \ {f} \/ (Dup /\ UNCHANGED net)

\* RecvIpv4 of an unfragmented packet.
RecvIpv4(f) ==
    /\ f.type = "Ipv4"
    /\ connected
    /\ Take(f)
    /\ IF f.pkt.len > OutBytes THEN UNCHANGED <<queue, count>> ELSE Enqueue(Whole(f.pkt))
    /\ UNCHANGED <<nextId, draft, connected, slots, most, head, made, sent, popped, discarded>>

\* Mutant: the sender is not compared.
MatchingId(f) == {k \in FSlot : slots[k].used /\ slots[k].id = f.id}

\* Mutant: the id is not compared.
MatchingSource(f) == {k \in FSlot : slots[k].used /\ slots[k].src = f.pkt.src}

\* The slot that already accumulates f's group.
Matching(f) ==
    {k \in FSlot : slots[k].used /\ slots[k].id = f.id /\ slots[k].src = f.pkt.src}

Free == {k \in FSlot : ~slots[k].used}

Dist(k) == IF slots[k].id >= most THEN slots[k].id - most ELSE most - slots[k].id

\* The most stale slots, if they are stale enough to be evicted.
Stalest ==
    {k \in FSlot : /\ slots[k].used
                   /\ Dist(k) > MaxDist
                   /\ \A j \in FSlot : slots[j].used => Dist(j) <= Dist(k)}

\* Mutant: a free slot is preferred to the one that accumulates f's group.
CandidatesFreeFirst(f) ==
    IF Free # {} THEN Free
    ELSE IF Matching(f) # {} THEN Matching(f)
    ELSE Stalest

\* The slots f may go to: the first of the first of these sets that is not empty.
Candidates(f) ==
    IF Matching(f) # {} THEN Matching(f)
    ELSE IF Free # {} THEN Free
    ELSE Stalest

\* Mutant: every fragment begins its group anew.
ClaimedAnew(k, f) == [FreeSlot EXCEPT !.used = TRUE, !.id = f.id, !.src = f.pkt.src]

\* Slot k when f's part is about to be stored in it.
Claimed(k, f) ==
    IF k \in Matching(f) THEN slots[k]
    ELSE [FreeSlot EXCEPT !.used = TRUE, !.id = f.id, !.src = f.pkt.src]

\* Mutant: the end of the buffer is not checked.
FitsMask(f) == f.part < 32

\* The bounds of part_mask and of the buffer.
Fits(f) == f.part < 32 /\ f.part * Chunk + PartLen(f.pkt, f.part) <= SlotBytes

\* Slot record d with f's part copied into it.
Stored(d, f) ==
    [d EXCEPT
        !.buf = [q \in DOMAIN @ \cup {f.part} |->
                    IF q = f.part THEN <<f.pkt, q>> ELSE d.buf[q]],
        !.total_len = IF f.part = TotalPart(f.pkt) - 1
                      THEN f.part * Chunk + PartLen(f.pkt, f.part) ELSE @]

\* part_mask is expected_mask and the last part is in.
Complete(d, f) ==
    /\ DOMAIN d.buf = 0 .. (IF TotalPart(f.pkt) >= 32 THEN 31 ELSE TotalPart(f.pkt) - 1)
    /\ d.total_len > 0

\* The total_len bytes at the front of d's buffer; Nothing is what was there before.
Copied(d) ==
    Image([i \in 1 .. (d.total_len + Chunk - 1) \div Chunk |->
              IF i - 1 \in DOMAIN d.buf THEN d.buf[i - 1] ELSE Nothing], d.total_len)

\* Every slot is busy and none is stale enough: the fragment is dropped.
DropFrag(f) ==
    /\ f.type = "Ipv4Frag"
    /\ connected
    /\ Candidates(f) = {}
    /\ Take(f)
    /\ UNCHANGED <<nextId, draft, receiver, made, sent, popped, discarded>>

\* ReassembleFrag with a slot.  The fields of a slot that is not used are never
\* read before it is claimed again.
ReassembleFrag(f) ==
    /\ f.type = "Ipv4Frag"
    /\ connected
    /\ Candidates(f) # {}
    /\ Take(f)
    /\ LET k == First(Candidates(f))
           d == Stored(Claimed(k, f), f)
           large == d.total_len > OutBytes
       IN  \/ /\ ~Fits(f)
              /\ slots' = [slots EXCEPT ![k] = FreeSlot]
              /\ UNCHANGED <<queue, count, most, discarded>>
           \/ /\ Fits(f) /\ ~Complete(d, f)
              /\ slots' = [slots EXCEPT ![k] = d]
              /\ UNCHANGED <<queue, count, most, discarded>>
           \/ /\ Fits(f) /\ Complete(d, f) /\ large
              /\ slots' = [slots EXCEPT ![k] = FreeSlot]
              /\ discarded' = discarded \cup {f.pkt}
              /\ UNCHANGED <<queue, count, most>>
           \/ /\ Fits(f) /\ Complete(d, f) /\ ~large
              /\ slots' = [slots EXCEPT ![k] = FreeSlot]
              /\ most' = f.id
              /\ Enqueue(Copied(d))
              /\ UNCHANGED discarded
    /\ UNCHANGED <<nextId, draft, connected, head, made, sent, popped>>
-----------------------------------------------------------------------------
(* The receiver's other threads, and the relay.                            *)

\* PopIpv4 with the buffer of DrainRawRelayQueue.
PopIpv4 ==
    /\ count > 0
    /\ popped' = IF queue[head].len > PopBytes THEN popped ELSE popped \cup {queue[head]}
    /\ head' = (head + 1) % QueueSize
    /\ count' = count - 1
    /\ UNCHANGED <<nextId, draft, net, connected, slots, most, queue, made, sent, discarded>>

\* Close joins the pump thread and empties the queue; the slots stay as they are.
Close ==
    /\ Closes
    /\ connected
    /\ connected' = FALSE
    /\ head' = 0
    /\ count' = 0
    /\ UNCHANGED <<nextId, draft, net, slots, most, queue, made, sent, popped, discarded>>

Connect ==
    /\ ~connected
    /\ connected' = TRUE
    /\ UNCHANGED <<nextId, draft, net, slots, most, queue, head, count,
                   made, sent, popped, discarded>>

Lose(f) ==
    /\ Lossy
    /\ net' = net \ {f}
    /\ UNCHANGED <<nextId, draft, receiver, made, sent, popped, discarded>>

Sender(s) ==
    \/ Restart(s)
    \/ \E t \in Thread :
          \/ SendFragmented(s, t)
          \/ \E len \in Lens : SendIpv4(s, t, len) \/ LoadFragId(s, t, len)

Receive == \E f \in net : RecvIpv4(f) \/ DropFrag(f) \/ ReassembleFrag(f)

Next ==
    \/ \E s \in Source : Sender(s)
    \/ Receive
    \/ PopIpv4
    \/ Close
    \/ Connect
    \/ \E f \in net : Lose(f)

Spec == Init /\ [][Next]_vars

\* The pump thread wakes every 2 ms and takes all the socket holds; the drain
\* thread pops every 5 ms.
FairSpec == Spec /\ WF_vars(Receive) /\ WF_vars(PopIpv4)
-----------------------------------------------------------------------------
Piece == Packet \X Nat

SlotRecord(r) ==
    /\ r.used \in BOOLEAN /\ r.id \in Id /\ r.src \in Source \cup {Nothing}
    /\ r.total_len \in 0 .. SlotBytes
    /\ DOMAIN r.buf \subseteq 0 .. 31
    /\ \A q \in DOMAIN r.buf : r.buf[q] \in Piece

\* The fragment id that a frame bears.
FrameId(f) == IF f.type = "Ipv4Frag" THEN f.id ELSE Nothing

\* Types; and no part is ever copied past the end of a slot's buffer (total_len) or
\* shifted out of part_mask, and no image exceeds the cell it is queued in.
TypeOK ==
    /\ nextId \in [Source -> Id]
    /\ draft \in [Source -> [Thread -> [pkt : Packet, id : Id] \cup {Nothing}]]
    /\ \A f \in net : [pkt |-> f.pkt, id |-> FrameId(f)] \in sent
    /\ connected \in BOOLEAN
    /\ \A k \in FSlot : SlotRecord(slots[k])
    /\ most \in Id
    /\ head \in Cell
    /\ count \in 0 .. QueueSize
    /\ \A c \in Cell : queue[c] = Nothing \/ queue[c].len <= OutBytes
    /\ made \in [Source -> 0 .. MaxSends]
    /\ sent \subseteq [pkt : Packet, id : Id \cup {Nothing}]
    /\ discarded \subseteq Packet

\* The images in the ring buffer, oldest first.
Fifo == [i \in 1 .. count |-> queue[(head + i - 1) % QueueSize]]

\* The packets among those of S that the receiver cannot tell from o's by their
\* headers: it reads only the source and the id of a fragment.
Together(S, o) ==
    IF o.id = Nothing THEN {o.pkt}
    ELSE {u.pkt : u \in {v \in S : v.id = o.id /\ v.pkt.src = o.pkt.src}}

\* Packet q has a part i, and it is no shorter than p's.
Covers(q, i, p) == i < TotalPart(q) /\ PartLen(q, i) >= PartLen(p, i)

\* The images as long as p that are made of p's parts, each of them taken from a
\* packet of P that covers it.
Blends(P, p) ==
    {Image([i \in 1 .. TotalPart(p) |-> <<c[i], i - 1>>], p.len) :
        c \in {b \in [1 .. TotalPart(p) -> P] :
                  \A i \in 1 .. TotalPart(p) : Covers(b[i], i - 1, p)}}

\* What the packets of S may arrive as: as they were sent, unless their sender has
\* sent two under one id.
Arrivals(S) == UNION {Blends(Together(S, o), o.pkt) : o \in S}

D == INSTANCE Datagram WITH Capacity <- QueueSize, fifo <- Fifo

\* The relay connection is a datagram service: what PopIpv4 hands out is one packet as
\* it was sent, never a part of one, bytes that an earlier group left in the slot, or
\* a stale cell of the ring buffer, and in the order in which the pump thread
\* completed them.  Packets are mixed only if their sender, with two threads in
\* SendFragmented or after a restart, sent them under the same id; and then every
\* part is still at its place and as long as the packet it stands in needs it.
IsDatagramService == D!Spec

\* Two slots never accumulate the same group: the first-match loop of
\* ReassembleFrag finds all the parts of a group that have arrived.
OneSlotPerGroup ==
    \A j, k \in FSlot :
        (/\ slots[j].used /\ slots[k].used
         /\ slots[j].id = slots[k].id /\ slots[j].src = slots[k].src) => j = k

\* The packet a slot accumulates, and the frames of it that the slot still lacks.
GroupPacket(r) == r.buf[CHOOSE q \in DOMAIN r.buf : TRUE][1]
Missing(r) == {f \in Frags(GroupPacket(r), r.id) : f.part \notin DOMAIN r.buf}

\* A group in progress all of whose missing frames are still on their way.
Live(r) == r.used /\ Missing(r) \subseteq net

\* When a new group would be dropped because every slot is busy and none is stale,
\* then every slot's group is indeed still in flight.
DropsOnlyForLiveGroups ==
    (Free = {} /\ Stalest = {}) => \A k \in FSlot : Live(slots[k])

\* A packet that was received completely, and is no longer than what a bridged
\* socket may send (MaxBridgedPayload), is not thrown away.
NoCompletePacketDiscarded == discarded = {}

\* Without losses, and with slots and cells enough, every packet that fits PumpLoop's
\* buffer is handed out in the end, in whatever order its parts arrive.
EveryPacketArrives ==
    \A p \in Packet :
        ((\E o \in sent : o.pkt = p) /\ p.len <= OutBytes) ~> Whole(p) \in popped
=============================================================================
