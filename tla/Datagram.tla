------------------------------ MODULE Datagram ------------------------------
(***************************************************************************)
(* What RelayBridge promises its callers: a datagram service.  Packets may *)
(* be lost, repeated and reordered on the way, but what arrives is what    *)
(* some of the packets sent may arrive as, and nothing else; and what has  *)
(* arrived is handed out first in, first out.                              *)
(***************************************************************************)
EXTENDS Naturals, Sequences

CONSTANTS
    Capacity,           \* packets that may wait to be handed out
    Arrivals(_)         \* what the packets of a set may arrive as

VARIABLES
    sent,               \* the packets sent so far
    fifo,               \* what waits to be handed out
    popped              \* what has been handed out so far

Init == sent = {} /\ fifo = << >> /\ popped = {}

\* Some sender sends one packet.
Send ==
    /\ \E p \in sent' : sent' = sent \cup {p}
    /\ UNCHANGED <<fifo, popped>>

Arrive ==
    /\ Len(fifo) < Capacity
    /\ \E m \in Arrivals(sent) : fifo' = Append(fifo, m)
    /\ UNCHANGED <<sent, popped>>

Pop ==
    /\ fifo # << >>
    /\ popped' = popped \cup {Head(fifo)}
    /\ fifo' = Tail(fifo)
    /\ UNCHANGED sent

\* The connection is closed: what waits is forgotten.
Reset ==
    /\ fifo' = << >>
    /\ UNCHANGED <<sent, popped>>

Next == Send \/ Arrive \/ Pop \/ Reset

Spec == Init /\ [][Next]_<<sent, fifo, popped>>
=============================================================================
