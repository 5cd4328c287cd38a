---------------------------- MODULE PortChannels ----------------------------
(***************************************************************************)
(* What g_control_queue promises the bridged sockets: a first-in first-out *)
(* channel for every UDP port, independent of the others but for the room  *)
(* they share.                                                             *)
(***************************************************************************)
EXTENDS Naturals, Sequences, FiniteSetsExt

CONSTANTS Port, Packet, Capacity

VARIABLES chan          \* the packets that wait at each port

Init == chan = [port \in Port |-> << >>]

Waiting == MapThenSumSet(LAMBDA port : Len(chan[port]), Port)

File ==
    /\ Waiting < Capacity
    /\ \E port \in Port, packet \in Packet :
          chan' = [chan EXCEPT ![port] = Append(@, packet)]

Take ==
    \E port \in Port :
        /\ chan[port] # << >>
        /\ chan' = [chan EXCEPT ![port] = Tail(@)]

Next == File \/ Take

Spec == Init /\ [][Next]_chan
=============================================================================
