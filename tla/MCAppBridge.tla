----------------------------- MODULE MCAppBridge -----------------------------
(* An instance of AppBridge: ldn_mitm with one session, and a game that    *)
(* uses two names for sessions, one of which binds a socket.               *)
EXTENDS AppBridge

CONSTANTS ldn, racer, l1, r1, r2

OwnerOf == [s \in Session |-> IF s = l1 THEN ldn ELSE racer]

PortsOf ==
    [s \in Session |-> CASE s = l1 -> {LdnControlPort}
                         [] s = r1 -> {49152}
                         [] s = r2 -> {}]
=============================================================================
