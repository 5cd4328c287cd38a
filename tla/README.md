# Verification of switch-lan-play-nx

TLA+ models of the LAN-play bridge for the Nintendo Switch, the TLC runs that
check them on small instances, and TLAPS proofs, for every value of the constants, of
all invariants those runs check and of one of the two refinements.  `PROJECT.json`
holds the machine-readable side: which definition models which lines, which run checks
which property, the findings and the hazards.

## 1. The system

A sysmodule intercepts the `bsd:u` socket commands of ldn_mitm and of games and
carries their local-network traffic as IPv4 packets over one UDP socket to a
relay server.  The relay forwards packets between consoles; it may lose,
duplicate and reorder them.

| component | state | operations | what makes it correct |
|---|---|---|---|
| virtual TCP tunnel (`bsd_bridge_service.cpp`) | `g_vtcp_conns`, `g_pending_accepts`, `g_tcp_listen_fd`, `g_next_synthetic_fd` | Listen, Accept, Connect, SendTo, RecvFrom, Close; `HandleTcpSegment`, `CheckDataRetransmits` | what is read is a prefix of what was written; both ends agree on the handshake; the per-IP lookup is unambiguous; Connect returns |
| relay framing (`relay_bridge.hpp`) | `m_next_frag_id`, `m_slots`, `m_most_success_frag_id`, the ring `m_queue` | `SendIpv4`, `SendFragmented`, `RecvIpv4`, `ReassembleFrag`, `PopIpv4` | every packet that comes out was sent, whole; first in, first out |
| relay life cycle (`bsd_bridge_service.cpp`, `relay_bridge.hpp`, `cfg_service.cpp`) | `g_relay`, `g_relay_enabled`, `g_relay_connect_attempted`, `g_bridged_socket_count`, `g_active_ldn_instance`, `m_bridged_fd` | Bind, Close, SendTo, destructor; Start, Stop, Reconnect; the watchdog; the pump and drain threads | the count is exact; only the last Close closes the relay; Stop means off; no closed socket or dead instance is used |
| control queue (`bsd_bridge_service.cpp`) | `g_control_queue`, 32 entries | file, `PopControlPacketForPort` | first in, first out for every port; nobody's packet is taken by another |
| dummy-session skip (`bsd_bridge_service.cpp`) | `g_dummy_skip`, 8 entries | `ShouldMitm`, the destructor | the first session of each burst is forwarded, the others are intercepted |
| command routing (`bsd_bridge_service.cpp`) | `m_bridged_fd`, tracked descriptors | Poll, Select, RecvFrom, Bind, Close and plain forwards | data is reported, what is reported can be read, the count is right; a virtual descriptor is never forwarded |
| parsing and checksums (`bsd_bridge_service.cpp`) | none | `ParseIpv4Udp`, `ParseIpv4Tcp`, `IpChecksum`, `TcpChecksum` | parse inverts build; the checksum is the RFC's |
| runtime configuration (`runtime_cfg.cpp`, `servers.c`) | the server list, the selected index, `selected.cfg` | Reload, SelectServer, GetSelectedHostPort | the selection survives a restart and is in range |
| configuration service (`cfg_service.cpp`) | none of its own | GetState, SelectServer, Reload, Reconnect, Start, Stop | reports and changes the state above |
| overlay (`overlay/source/`) | its own copy of the list, the selected row | open, refresh, the server page, the buttons | shows what the sysmodule has; a click takes the relay to the row clicked |
| start-up (`main.cpp`) | - | the order of Main(), `OnNeedsToAccept` | no session and no selection is lost |
| DNS resolver, logging, PC tools | - | - | not modelled, see section 8 |

**Interaction.** Six threads share this state.  One *dispatch* thread executes
the bsd:u commands of every process and destroys their sessions; the *cfg* thread
executes the overlay's commands; the *pump* thread of `RelayBridge` reads the
socket every 2 ms, reassembles and queues; the *drain* thread pops the queue
every 5 ms, files UDP packets in the control queue, hands TCP segments to
`HandleTcpSegment` and runs the retransmission timers; the *watchdog* closes a
relay that has been idle for ten minutes; the *query* thread of the mitm
framework asks `ShouldMitm` for every new session.  `g_relay_mutex` protects the relay's
life cycle, `g_vtcp_mutex` the virtual TCP tables, `m_queue_mutex` the ring,
`g_control_queue_mutex` the control queue, `g_dummy_skip_mutex` the table of the
dummy skip and `RuntimeCfg::m_mutex` the selection.

**Hard behaviours.** Loss, duplication and reordering on the relay; segments of
one connection arriving in the next one; wrapping sequence numbers and fragment
ids; a SYN-ACK that crosses the timeout of its Connect; a process that exits
without closing; pointers and descriptors used after the lock that protected
them was released; two threads sending or filing at once; Poll, which looks, waits
and looks again; a session whose destructor runs after its process has started
again; power lost between the three file-system calls that save the selection; a
server list that two programs read at two moments.  `PROJECT.json` lists them as
hazards, each at its line with the properties that would catch it.

## 2. Modules

| module | models |
|---|---|
| `VTcp` | the virtual TCP tunnel on every console, and the relay between them |
| `VTcpInv` | the inductive invariant of `VTcp` |
| `VTcpProofs` | the theorems about one stream of `VTcp` |
| `VTcpPeerProofs` | the theorems about the two ends of a connection, its peers and its descriptors |
| `Datagram` | abstract: a lossy first-in-first-out datagram service |
| `RelayFrag` | fragmentation, reassembly and the ring buffer, shown to implement `Datagram` |
| `RelayFragProofs` | the theorems about `RelayFrag`, the refinement included |
| `RelayLife` | the life cycle of the shared relay, with its threads and mutexes |
| `RelayLifeProofs` | the theorems about `RelayLife` |
| `RuntimeCfg` | the SD card, the server list and the selection, slpnx:cfg, the overlay, and the connection that follows the choice |
| `RuntimeCfgProofs` | the theorems about `RuntimeCfg` |
| `DummySkip` | which sessions are intercepted |
| `AppBridge` | the UDP side of the sessions of `DummySkip`: filing, the control queue, Bind, Poll, Select, RecvFrom, Close |
| `PortChannels` | abstract: a first-in first-out channel for every port, implemented by the queue of `AppBridge` |
| `AppBridgeProofs` | the theorems about `DummySkip`, carried over to `AppBridge` |
| `AppQueueProofs` | the theorems about the queue of `AppBridge` and what Poll and Select say of it |
| `MCVTcp`, `MCRelayFrag`, `MCRelayLife`, `MCRuntimeCfg`, `MCAppBridge` | instances for TLC |

Definitions called *Mutant* in a comment are deliberately wrong versions of a
neighbouring definition.  `PROJECT.json` pairs each property with one that breaks
it; no specification uses them.

### 2.1 VTcp

A step of the dispatch thread and a step of the drain thread hold `g_vtcp_mutex`
from beginning to end, so each is one action; the exception is Connect, which
releases the mutex between its polls and is therefore a record `call[n]` with
phases.  `conns[n]` and `pending[n]` are the two tables with the fields of the
structs, `owner[n]` says whether `g_active_ldn_instance` is ldn_mitm's instance
(the condition under which `FindVTcpConnByFd` and `FindVTcpConnByPeer` look at
the tables at all), and `net` is the set of segments in flight.  Delivering a
segment leaves it in `net`, so a segment may arrive any number of times and in
any order; `Lose` removes one.

Abstractions:

* A byte is the pair of its stream and its position; a stream is named by the
  initial sequence number of its sender.  Sequence numbers keep their modulus
  (`SeqMod`, 2^32 in the code).  `WindowAssumption` says that the numbers
  `GenerateRandomBytes` draws for different streams do not lead to overlapping
  windows: with 32-bit random numbers this is likely, not certain, and every
  result about `VTcp` rests on it.
* Timers fire at any moment.  `CheckDataRetransmits` handles one connection per
  step; the code's loop handles them one after the other.
* `SendTcpSegment` may fail; a failed send is a segment the relay loses.
* Copying `g_active_ldn_instance` and using it is one step here.  The window in
  between is in `RelayLife` (`DrainCopies`, `DrainUses`).
* `DrainRelay` is called by both threads; this only reorders segments, which
  `net` allows anyway.
* ldn_mitm: a console listens, or connects, when it holds no other TCP socket.
  Whether it closes its control socket last is `ControlLast`; whether it may exit
  without closing is `Exits`.  Sends of zero bytes are not modelled.
* `sid`, `rid`, `read`, `eof` and the variables from `isns` on are history; no
  guard of the code's actions reads them, except that bounds are stated with
  them.

### 2.2 RelayFrag and Datagram

The senders (with one or two threads in `SendIpv4`) and one receiver.
`m_next_frag_id++` is a read (`LoadFragId`) and a write (`SendFragmented`),
because the code takes no lock around it.  The receiver's slots belong to the pump
thread alone, so handling one frame and queueing what it completes is one step.
Sizes are the code's: 1400, 1384, 1428, 2088 and 5600 bytes.  A packet's content is
its sequence of parts, so an image put together from parts of two packets, or with
a hole, is distinguishable from every packet that was sent.

`IsDatagramService` is `Datagram!Spec` with `fifo` mapped to the cells of the ring buffer
from `head` on.  `sent` records each packet with the fragment id it was sent under, and
`Arrivals` says what packets may arrive as.  The receiver knows a fragment only by its
source and id, so a packet that has its id to itself arrives exactly as it was sent, and
nothing else is allowed to (`Whole`).  Two packets of one sender under one id can be mixed:
the code lets that happen when two threads read `m_next_frag_id` at once, or after a
restart.  For them `Arrivals` has the images with the length of one of the packets, every
part of which is at its place, comes from one of the packets of that id and is at least as
long as there is room for it (`Covers`), so that no byte is left over from an earlier
group or uninitialized.  Mixtures across senders or ids, holes and truncated packets
stay forbidden.

Abstractions: frames shorter than their header or with a length beyond the data are
not generated (every sender runs this code); keepalive and ping frames carry
nothing to reassemble; a pump thread that cannot be created is a failed Connect; a
failed `SendRaw` is a lost frame; the fields of a free slot are reset although the
code leaves them, because they are not read before the slot is claimed again.
`FragSizes` keeps two facts about the code's sizes that the mixtures depend on: a packet
is fragmented only if it exceeds one part (1384 <= 1400), and the pump's buffer has no
room for three parts (1428 <= 2 * 1384).

### 2.3 RelayLife

`pc[t]` is where thread `t` stands.  A critical section of `g_relay_mutex` is one
step unless the thread waits inside it or code without the mutex can see what it
has done so far; `RelayBridge::Close` waits for the pump, so it is the four steps
`StopPump`, `JoinPump`, `CloseFd`, `EndClose`, and `SendRaw`, which runs without
the mutex, is the two steps `SendLoads`, `SendUses`.  Sockets are numbered in the
order of their creation, so a closed socket is distinguishable from its successor.

Abstractions: `Connect` succeeds or fails as a whole, under the mutex it is called
with; the local IP a Bind learns is the console's, hence only whether it is known
matters; RecvFrom and SendTo count as activity and what they carry belongs to the
other modules; the watchdog fires whenever the relay is connected and some activity
was recorded, that is, after an idle time of any length.

### 2.4 RuntimeCfg

The overlay waits for each of its commands and slpnx:cfg has one thread, so `pc` is
the program counter of both.  Beside it run the dispatch thread, whose
`EnsureRelayConnected` copies the selected host and connects some time later
(`BeginConnect`, `EndConnect`), whoever edits `servers.conf` (`EditConf`), and the
power (`PowerLoss`, which leaves only the card).  `PersistSelection` is one action
per call of the file system, each of which may fail (`FsFails`) or be the last before
the power goes.  `RegisterMitm` and `LoadAtBoot` are the order of Main(): the dispatch
thread is at work before the list has been read.

A text of `servers.conf` is a sequence of lines; a line is what `sscanf` and the
handling of `:port` can tell apart (the number of words, the two numbers, whether
there is a colon), and its size in bytes, because the sysmodule refuses a file of
`SysBytes` or more while the overlay reads the first `OverlayBytes` of it and may cut a
line anywhere, between words or inside the host or a number (`CutLines`).  `choice` is the set of indices that the card may hold after the writes
so far; `clicked` is the list and the row of the last completed click, forgotten when
another list is loaded; `early` marks a connection made before the list was read.

Abstractions: the version, the addresses and the flags of GetState are display; the
overlay's own list is forgotten when its process ends; a write of `selected.cfg` is
whole or absent, which for one to two digits it is; the texts of the status line are
left out.

### 2.5 DummySkip, AppBridge, PortChannels

`DummySkip` has the table `g_dummy_skip` and, for every session, its role: forwarded
(`direct`), granted by the query thread (`asked`), with its `BsdBridgeService`
constructed (`bridged`).  `client` says whether the client still has its end: closing it
and the destructor are two steps.  That a game opens a dummy first and starts again
with one when its working sessions are closed is how `ShouldMitm`'s comment describes
the clients; `Hasty` names games that start again before the destructors have run.

`AppBridge` EXTENDS it: the dispatch thread accepts, destroys and serves one command
at a time (`call`).  `PopIpv4` and `FilePacket` are two steps because they lock
different mutexes.  Poll and Select are drain, look (`LookForData`), wait in the real
service, and answer (`AnswerPoll`, `AnswerSelect`), with packets arriving at any point.
`RealEvents` is what the real service may report of a bridged socket besides; on the
control port errors are swallowed.  The plain forwards (Ioctl, Fcntl, GetSockOpt, Read,
Write and the like) are the one action `Forward`, which keeps the dispatch thread.

`IsPortChannels` is `PortChannels!Spec` with `chan[port]` mapped to the packets of the
queue for that port.

Abstractions: a session has at most one bridged socket and one other descriptor, and a
Poll or Select asks about both; `match` in Bind stands for the comparison of addresses,
which `RelayLife` has; a packet is its number and its port; TCP descriptors are in
`VTcp`; the table of tracked descriptors is not modelled, a Bind knows what it binds.

## 3. Runs

### Virtual TCP

| run | shows | instance |
|---|---|---|
| `vtcp_stream` | TypeOK, StreamIntegrity, AckedWasDelivered, InboxBounded, IInv | one stream of three bytes in segments of one and two, an inbox of two, one retransmission, two slots; the stream's sequence numbers wrap; an RST; ldn_mitm may exit or close its control socket first |
| `vtcp_stations` | HandshakeAgreement, OneConnPerPeer, SyntheticNeverForwarded | a host with two stations, each may connect again; stations are symmetric |
| `vtcp_live` | ConnectTerminates, RetransmissionEnds | a relay that loses segments, two attempts, two retransmissions |
| `vtcp_eof` | violation of EofIsComplete | a FIN overtakes data |

Losing a segment and never delivering it are the same to a safety property, so
`Lossy` is TRUE only where liveness is checked.  Three or four streams (members of
`ISN`) are enough for a connection, its reverse direction and a segment of another
connection that meets them; two slots for two peers or for a connection left behind
beside a new one; one retransmission for a duplicate that is sent after later data.

### Relay framing

| run | shows | instance |
|---|---|---|
| `frag_service` | IsDatagramService | three senders with the same id, two slots, duplicates, reconnects, a ring of two; senders are symmetric |
| `frag_senders` | IsDatagramService, OneSlotPerGroup, TypeOK | packets of 1400, 1428, 2076 and 5700 bytes at the wrap of the id, two sending threads that race, restarts, losses |
| `frag_live` | EveryPacketArrives | no losses, four slots and cells |

The ring of the code has 64 cells; one of two wraps and overflows after as many
packets.  In `frag_service` three groups compete for two slots, and their id is as
far from the initial `m_most_success_frag_id` as ids can be, so slots are evicted
while duplicates of their parts still arrive.  A packet of two parts is the smallest
that can be mixed, and one of 5700 bytes has one part more than a slot holds.  In
`frag_senders` the two threads do send packets under one id, and a restarted sender uses
an id again, so mixtures are delivered in that run: of two packets of 1428 bytes, and of
one of them with the full second part of a packet of 5700.
Where the bounded number of sends leaves nothing to do at the end, the
configuration says `CHECK_DEADLOCK FALSE`.

### Relay life cycle

| run | shows | instance |
|---|---|---|
| `life` | CountIsExact, OnlyTheLastCloses, CommandsReturn | ldn_mitm and a game that close in order; Start, Stop, Reconnect at any moment; both mutexes and the join |
| `life_disorderly` | TypeOK, PumpHasItsSocket, OffMeansOff | exits, two sockets per process, the watchdog |
| `life_send` | violation of SendsUseOpenSocket | SendRaw outside the mutex |

Two sockets (`MaxGen = 2`) are the least that tell a closed socket from its
successor; `MaxCount = 2` is one socket of each process.

### Sessions, control queue and configuration

| run | shows | instance |
|---|---|---|
| `apps` | TypeOK, TableIsExact, DummyNeverIntercepted, WorkIsIntercepted, PollInIsHonest, DataIsReported, IsPortChannels | ldn_mitm with a session on the control port, a game with two session names and a gameplay port, which may exit; one entry, a queue of two, three packets |
| `cfg` | TypeOK, SelectedInRange, SelectionSurvives, RelayIsTheChosenOne, OverlayShowsTheTruth | four texts of `servers.conf`: two servers with a comment, one entry too many with a bad port before it, one server, one that the overlay cuts; failing file-system calls, two edits, a loss of power |

A queue of two overflows and is emptied from the middle with three packets; the game
needs two names to hold its dummy or a second session beside the first, and uses each
again and again, so there is no bound on bursts.  With one entry for one game the table
overflows only by more games; the theorems cover that.  A list of two servers is cut by
a third and shrinks to one under a selection of 1; one loss of power may fall between
any two calls, and a second edit between the two readings of the file.

### Where the guarantees end

The two violation runs each check what a comment of the repository says against
what the code does; `findings` in `PROJECT.json` quotes the lines.

The passing runs also depend on conditions that the constants name.  Each of these
was tried with TLC and violates the property; the theorems of section 5 have the
corresponding conditions as hypotheses, and none can be dropped:

* `OneConnPerPeer` with `Exits` not empty and two slots: the destructor leaves
  `g_vtcp_conns` as it is, and the next session's Connect takes a second slot for the
  same peer.  The same with `ControlLast = FALSE`, where Close no longer finds the slot,
  and with a console in both `Host` and `Joiner`: it once listened, `g_tcp_listen_fd` still
  holds a number that its next socket gets, and while it connects to a console that
  console's own SYN is answered and accepted into a second slot.
* `SyntheticNeverForwarded` with `ControlLast = FALSE`: once the control socket is
  closed, `FindVTcpConnByFd` finds nothing and Close forwards the synthetic
  descriptor.
* `IsDatagramService` with only the packets as they were sent for `Arrivals`, and with two
  members of `Thread` or with `Restarts` not empty: two packets of a sender carry one
  fragment id, and a mixture is delivered.
* `CountIsExact` with `Exits` not empty: the destructor does not decrement
  `g_bridged_socket_count`.  The same with two sockets per process (`MaxBound = 2`): the
  second Bind overwrites `m_bridged_fd` and counts again.
* `CountIsExact` and `OnlyTheLastCloses` with `WatchdogOn = TRUE`: the watchdog sets the count to 0
  under sockets that are used again later.
* `NoCompletePacketDiscarded` of `RelayFrag`, with a packet of 2076 bytes: a bridged socket
  may send it, the slot holds it, and `ReassembleFrag` throws it away complete because
  the buffer of `PumpLoop` has 1428 bytes.
* `DropsOnlyForLiveGroups` of `RelayFrag`: four groups that lost a part keep the slots as
  long as ids stay within 10 of the last success, and every new group is dropped,
  although the comment there calls them "plausibly still in flight".
* `DummyNeverIntercepted` with `Hasty = {racer}`: a game closes its sessions and opens the
  next dummy while the dispatch thread is busy; the old entry still counts a session
  and the dummy is intercepted.
* `PollInIsHonest` with `"in"` among `RealEvents`: data of the real network on a bridged
  socket is reported, and `RecvFrom` never reads the real socket.  The same with two
  sessions bound to one port, of which one takes the other's packet: Bind ignores
  that the real bind failed.
* `DataIsReported` with `"out"` among `RealEvents`: a descriptor that is writable and gets
  an injected POLLIN is counted twice.
* `RelayIsTheChosenOne` without its exception for `early`: a command served before Main()
  has read `servers.conf` connects to the default relay and stays there.
* `OverlayShowsTheTruth` with an edit between the two readings, or with a file longer
  than the overlay's buffer: the rows of one list are indices of another.

Other limits that the models show or leave aside.  Packets for a port that nobody reads
any more stay in `g_control_queue` for ever, and 32 of them leave no room for anyone.  A
game that opens its dummy and exits keeps its entry of the eight.  After a power loss
within PersistSelection both the new and the old selection may be lost (then the first
server is selected), since the old file is deleted first.  A failed reload keeps the old
list, where `runtime_cfg.hpp:27-29` speaks of a fallback to the default.  Select adds the
bridged socket to the answer even when the caller did not ask about it.  Descriptors
are tracked per session, so a Bind by another session of the process does not know the
type.  GetState shows the first 15 characters of a host.

Three more behaviours of the model are not the subject of a run: a FIN that is lost
is never sent again (Close frees the slot), a group whose id is far from the last
success of *another* sender is evicted although its parts are still arriving, and
the destructor may run between `DrainCopies` and `DrainUses`, after which the drain
thread works with a destroyed instance.

## 4. Fairness

* `VTcp`: weak fairness of the steps of a Connect (the dispatch thread runs a
  command it has begun) and of `CheckDataRetransmits` on each slot (the drain thread
  wakes every 5 ms and runs the timers).  `Lose` has
  no fairness, nor has it the duty to spare anything.
* `RelayFrag`: weak fairness of receiving and of `PopIpv4`: both threads wake
  periodically and empty what they read from.
* `RelayLife`: weak fairness of every step a thread can take on its own, strong
  fairness of those that wait for a mutex other threads take again and again
  (`CommandStep`, `DrainUses`).  The strong part assumes that the kernel's mutex,
  which hands itself to a waiting thread on unlock, does not starve a waiter.

`RuntimeCfg` and `AppBridge` state no fairness: their properties are about safety, and
nothing there promises that a user clicks or a client reads.

## 5. What is proved

Each theorem is for every value of the constants that satisfies the named assumptions
of its module.  Where a theorem needs more, the condition is a definition of its own
(`Orderly`, `Tidy`, `OwnPorts`) or a hypothesis about one constant, and
section 3 says what happens without it.

### The virtual TCP tunnel

`VTcpProofs` proves, for every value of the constants that satisfies the
assumptions (any number of consoles, slots, streams and bytes; any relay, exits and
closing order included):

* `Invariance`: `Spec => []IInv`;
* `TypeCorrect`: `Spec => []TypeOK`;
* `StreamIntegrityHolds`: `Spec => []StreamIntegrity`;
* `InboxBoundedHolds`: `Spec => []InboxBounded`.

The argument.  `StreamIntegrity` is not inductive: that the next segment appended
is the next stretch of the right stream depends on what is in flight, on what a
sender keeps for retransmission and on who may write to a stream.  `IInv` says:

* *OneWriter*: no two slots of the tables of any consoles send on the same stream,
  so `wrote[i]` and the writer's `our_seq` move together;
* *ConnsInv*: an opening connection has written and received nothing; an established
  one has `our_seq` at the end of what it wrote, keeps a stretch of its own stream
  for retransmission, and has received a prefix of the stream it reads; `their_seq`
  follows that prefix, *or* a FIN has moved it past the end of a closed stream.
  The second case is needed because a FIN is applied whatever its number and
  whichever connection it belonged to; it is harmless because nothing is ever written
  to a closed stream, so no payload begins there;
* *SegsInv*: every payload in flight is a stretch of one stream that begins at its
  sequence number, and every FIN stands at the end of a closed stream;
* *PendsInv*, *CallsInv*, *FreshInv*: pending accepts, blocked Connects and numbers
  not drawn yet own streams nobody has written to.

The key lemma is `AppendedIsNext`: by `WindowAssumption` a payload whose sequence
number is `their_seq` belongs to the stream the connection reads and continues
what was received.  The rest is one lemma per action, and the arithmetic of `Plus`.
The assumptions used are `SizesAssumption`, `ConsoleAssumption` and
`WindowAssumption`.

`VTcpPeerProofs` builds on `IInv`:

* `EndsAgree`: `Spec => []HandshakeAgreement`;
* `AcksAreTrue`: `Spec => []AckedWasDelivered`;
* `SyntheticStays`: `ControlLast` implies `Spec => []SyntheticNeverForwarded`;
* `PeerIsUnique`: `Tidy` implies `Spec => []OneConnPerPeer`.

The first two hold whatever is lost, repeated or reordered, with exits and any closing
order.  Their inductive invariant `PairInv` adds to `IInv` who has been paired with whom.
An answer belongs to one SYN, a SYN gets into one pair, and no stream is both
(*PairsInv*); an established connection is one end of its pair and has received all that
was delivered of its stream (*ConnPairs*); a pending accept was offered, and completed only
by the joiner that took the offer (*PendPairs*); a Connect under way has a stream no
host drew (*CallPairs*); and an acknowledgement number in flight `Confirms` something: a
position of a paired stream that has been received, or the FIN of a closed stream
(*SegPairs*).  That last part is what `AcksAreTrue` needs: the code compares an
acknowledgement with the end of the kept segment and does not look at which connection
sent it, so its truth rests on `WindowAssumption` again (`AcknowledgedIsReceived`) and on a
stream having one receiver (`OneReceiver`).

`SyntheticStays` rests on *SynthInv*: as long as a descriptor that Accept made up is open,
the instance is the owner and a connection has that descriptor, so Close finds it.
`PeerIsUnique` rests on *TablesInv*: the descriptors in use are below the next synthetic
one (*FdsInv*), a connection has an owner that holds its descriptor (*OwnedInv*), no two
connections share a descriptor or a peer (*DistinctInv*), and on a console that does not
join a peer is in one of the two tables at most (*WaitingInv*).  `Tidy` excludes a control
socket that is closed before the others, a console that exits with sockets open and one
that both hosts and joins.  `FdAssumption` is used besides.

### Framing and reassembly

`RelayFragProofs`, for any number of consoles, threads, slots and cells:

* `FragTyped`: `Spec => []TypeOK`: parts stay inside the slot's buffer and `part_mask`,
  images inside their cell, `m_queue_count` inside the ring;
* `GroupHasOneSlot`: `Spec => []OneSlotPerGroup`;
* `RelayIsDatagramService`: `Spec => IsDatagramService`;
* `MixedOnlyUnderOneId`: `Spec => []MixedUnderOneId`: what PopIpv4 hands out is exactly a
  packet that was sent, unless its sender sent another one under the same id.

All of them hold for racing threads and restarted senders, with no condition on the
constants but the named assumptions.  `TypeOK` becomes inductive with the form of the frames in flight (*NetInv*) and of the packet a thread is
about to send (*DraftInv*).  For the refinement `ServiceInv` says:

* *SlotsInv*: a slot in use holds, at every place of its buffer that is filled, the part
  for that place of some packet sent under the slot's source and id; and `total_len` is 0
  or the length of such a packet, whose last place is filled with a part that is long
  enough;
* *QueueInv*, *PoppedInv*: every cell of the ring from `head` on, and everything that was
  handed out, is in `Arrivals(sent)`.

The second half of *SlotsInv* is the point of the argument: a last part sets `total_len`
together with its own place, and the only part that can overwrite that place without
setting `total_len` is not the last of its packet, hence full.  A group that completes and fits the
pump's buffer has two parts; the first is full, because only packets longer than
`RelayMtu` are fragmented, so what is copied out is in `Arrivals(sent)`, which only grows.
Every step of `RelayFrag` is then a Send, an Arrive, a Pop, a Reset or a stutter of
`Datagram`, one lemma for each; and where no id is shared the only arrival is the packet
itself.

### The life cycle of the relay

`RelayLifeProofs`, for any number of processes and sockets:

* `LifeTyped`: `Spec => []TypeOK`;
* `PumpSafe`: `Spec => []PumpHasItsSocket`;
* `StopIsFinal`: `Spec => []OffMeansOff`;
* `CountExact`: `Orderly` implies `Spec => []CountIsExact`;
* `LastCloses`: `Orderly` implies `Spec => []OnlyTheLastCloses`.

The inductive invariant says that between steps exactly a thread within
`RelayBridge::Close` holds `g_relay_mutex` (*LockInv*), what a command has in hand between
its steps (*CommandInv*), how `m_connected`, the pump and the open socket go together, as
a whole and in each of the four steps of Close (*RelayInv*), and that a relay connected
while it is disabled is one Stop is about to close (*SwitchInv*).  The count needs
*CountInv*: it is one ahead between Close's removal of the socket and its critical section,
and exact everywhere else.  `Orderly` means no exits with sockets open, one bridged socket
per process and a silent watchdog; each of the three breaks the count in the code.  The
assumption used is `LifeAssumption`.

### The choice of the server

`RuntimeCfgProofs`, for any set of texts, any number of servers, edits and losses of
power, and with failing file-system calls:

* `SelectionInRange`: `Spec => []SelectedInRange`;
* `SelectionIsDurable`: `Spec => []SelectionSurvives`;
* `ClickReachesTheServer`: `Spec => []RelayIsTheChosenOne`;
* `OverlayIsTrue`: `Spec => []OverlayShowsTheTruth`;
* `CfgTyped`: `Spec => []TypeOK`.

The first two need, beside themselves, that an index on the card is in `choice`, and
that 0 is when the card has none (*CardExplained*), that a save writes the index that is
selected (*SavesTheSelection*), and where in its life each program can be (*Phases*):
a reload never falls between the steps of a save because both are calls of the one
overlay.  The third adds that a valid click is the current selection in the current
list (*ClickIsSelected*), what holds between the selection and the end of the click
(*ClickInProgress*), and that a relay that is connected or being connected is at the row
clicked as long as the click is remembered (*Targets*).  A click is remembered from the
end of its Reconnect on; that this Reconnect waits for `g_relay_mutex`, which the connecting thread holds, is what makes
the old host harmless.  The fourth is not about two readings of a file but about one
text: if nothing disturbed it, the sysmodule's list is `Parse` of the present text from the
overlay's Reload on, the overlay's is when it fits the buffer (one lemma about cutting a
text that fits), and the marked row, or on the server page the row about to be marked, is the
selection (*TruthInv*).  The assumptions used are `ConfAssumption`, `SizesAssumption` and
`NamesAssumption`.

### The interception of sessions

`AppBridgeProofs`, for any number of games, sessions, entries, ports and packets:

* `BridgeKeepsTheSkip`: `Spec => SkipSpec`, so what holds of `DummySkip` holds of the whole;
* `TheTableIsExact`: `Spec => []TableIsExact`, overflow, exits and hasty games included;
* `NoDummyIsIntercepted`: `Spec /\ Hasty = {} => []DummyNeverIntercepted`;
* `AllWorkIsIntercepted`: `Spec /\ Hasty = {} => []WorkIsIntercepted`.

`TableIsExact` is inductive with the type, the fact that an entry that is taken has
skipped its dummy and that a closed session has no client.  The cardinality of the
intercepted sessions changes by one with ShouldMitm and the destructor.  The other two
need *BurstsAreKept*: while a game is in a burst it has an entry, or the table has
overflowed; when it is not, and its sessions are destroyed, it has none; and in a burst
with intercepted sessions it works with one of them, so the last destructor cannot
come while the burst goes on.  The assumptions used are `TableAssumption` and
`ExitsAssumption`.

### Poll, Select and the control queue

`AppQueueProofs`, for any number of sessions, ports, packets and any limit of the queue:

* `AppTyped`: `Spec => []TypeOK`, with the table of `DummySkip` included;
* `PollReportsData`: `RealEvents \subseteq {"in", "err"}` implies `Spec => []DataIsReported`;
* `PollKeepsItsWord`: `OwnPorts` implies `Spec => []PollInIsHonest`.

For the second, what Poll found before it asked the real service still waits when it
answers, because only the dispatch thread, which is in that Poll, takes packets out
(*ReportInv*); a descriptor that is writable as well is counted twice, hence the
condition.  For the third, a session that was told of data keeps its socket until it reads
(*HonestInv*), and no other session takes packets for its port; the drain thread only
adds.  `QueueAssumption` is used besides.

## 6. What is only model-checked

* Liveness: `ConnectTerminates`, `RetransmissionEnds`, `EveryPacketArrives` and
  `CommandsReturn`.  The prover has no rules for fairness and ENABLED.
* `IsPortChannels`, the refinement of `PortChannels` by `AppBridge`.  Its mapping filters the
  queue by port (`SelectSeq`) and its capacity is a sum over the ports; both are recursive
  definitions, and that filtering commutes with removing one packet, or that the sum
  falls by one, is an induction over the sequence that the prover cannot do.
* The two violation runs, whose counterexamples are the result.

Every invariant of a passing run is also a theorem of section 5.

## 7. Plan

Done: `VTcp`, `RelayFrag` over `Datagram`, `RelayLife`, `RuntimeCfg` with the
overlay, `DummySkip`, `AppBridge` over `PortChannels`, and the theorems of section 5.
Next, in this order:

1. An abstract reliable-prefix stream that `VTcp` implements, with the proof from `IInv`.
2. The table of tracked descriptors and Socket, in place of the known types in Bind.
3. Operators for parsing and checksums, checked against reference definitions over
   bounded inputs.
4. `LdnNode` of `tools/slp_ldn.py`, the peer of `VTcp` in the repository's own tests.

## 8. Not modelled

* The DNS resolver: one query and one answer, byte by byte; its outcome is the success
  or failure of `Connect`.
* Heaps, mounting and log files: platform code without protocol state.
* The drawing of the overlay and the text of its status lines.
* Socket and the table of tracked descriptors (`TrackFd`, `GetTrackedType`): the models
  take the type of a descriptor as known.
* Parsing and checksums: a model of a packet has fields, not bytes.
* The PC tools' codecs and encryption: outside what TLC can explore.
* The relay server is external; what it may do to a frame is `Lose`, `Take` and
  the set `net`.
