------------------------------- MODULE VTcpInv -------------------------------
(***************************************************************************)
(* The inductive invariant behind the stream integrity of VTcp.  A stream  *)
(* is named by the initial sequence number of its sender; its bytes occupy *)
(* the sequence numbers Plus(i, 1), Plus(i, 2), ...                        *)
(*                                                                         *)
(* The parts about one connection, one pending accept and one segment are  *)
(* operators of the values they depend on: w is wrote, I is isns, F is     *)
(* finned.                                                                 *)
(***************************************************************************)
EXTENDS VTcp

\* d is the stretch of stream i that begins at sequence number q.
DataOf(w, i, q, d) ==
    \E k \in 0 .. MaxStream :
        /\ q = Plus(i, k + 1)
        /\ k + Len(d) <= w[i]
        /\ \A j \in 1 .. Len(d) : d[j] = <<i, k + j>>

\* The first bytes of stream i.
PrefixOf(w, i, d) ==
    /\ Len(d) <= w[i]
    /\ \A j \in 1 .. Len(d) : d[j] = <<i, j>>

\* A connection that sent its SYN: nothing is written, read or kept yet.
Opening(c, w) ==
    /\ w[c.sid] = 0
    /\ c.our_isn = c.sid
    /\ c.inbox = << >> /\ c.read = << >> /\ c.unacked = << >>

\* An established connection: our_seq follows the bytes written and the bytes
\* received are a prefix of the peer's stream.  their_seq follows the bytes
\* received, or a FIN has moved it past the end of a closed stream, where no byte
\* of any stream lies.
Established(c, w, F) ==
    /\ ~c.syn_sent
    /\ c.our_seq = Plus(c.sid, w[c.sid] + 1)
    /\ c.unacked # << >> => DataOf(w, c.sid, c.unacked_seq, c.unacked)
    /\ c.rid \in ISN
    /\ Len(c.inbox) <= VTcpInboxCap
    /\ PrefixOf(w, c.rid, Received(c))
    /\ \/ c.their_seq = Plus(c.rid, Len(Received(c)) + 1)
       \/ \E i \in F : c.their_seq = Plus(i, w[i] + 2)

\* A connection in use writes to a stream it has drawn and not closed.
ConnInv(c, w, I, F) ==
    c.used =>
        /\ c.sid \in I /\ c.sid \notin F
        /\ c.peer \in Console
        /\ ~c.established => Opening(c, w)
        /\ c.established => Established(c, w, F)

\* A pending accept has drawn its stream, and nothing is written to it yet.
PendInv(p, w, I, F) ==
    p.used =>
        /\ p.our_isn \in I /\ p.our_isn \notin F
        /\ w[p.our_isn] = 0
        /\ p.their_isn \in ISN
        /\ p.peer \in Console

\* A segment in flight: a SYN names a stream, a payload is a stretch of one, and a
\* FIN stands at the end of a closed one.
SegInv(m, w, F) ==
    /\ m.kind \in {"SYN", "SYNACK"} => m.seq \in ISN
    /\ m.data # << >> => \E i \in ISN : DataOf(w, i, m.seq, m.data)
    /\ m.kind = "FIN" => \E i \in F : m.seq = Plus(i, w[i] + 1)

CallInv(k) == k.phase # "idle" => k.isn \in ISN /\ k.dst \in Console

\* A stream has one writer: no two slots of any two tables send on the same one.
OneWriter ==
    /\ \A n1, n2 \in Console : \A s1, s2 \in Slot :
          (/\ conns[n1][s1].used /\ conns[n2][s2].used
           /\ conns[n1][s1].sid = conns[n2][s2].sid) => n1 = n2 /\ s1 = s2
    /\ \A n1, n2 \in Console : \A k1, k2 \in PSlot :
          (/\ pending[n1][k1].used /\ pending[n2][k2].used
           /\ pending[n1][k1].our_isn = pending[n2][k2].our_isn) => n1 = n2 /\ k1 = k2
    /\ \A n1, n2 \in Console : \A s \in Slot, k \in PSlot :
          (conns[n1][s].used /\ pending[n2][k].used)
              => conns[n1][s].sid # pending[n2][k].our_isn

ConnsInv == \A n \in Console, s \in Slot : ConnInv(conns[n][s], wrote, isns, finned)
PendsInv == \A n \in Console, k \in PSlot : PendInv(pending[n][k], wrote, isns, finned)
SegsInv == \A m \in net : SegInv(m, wrote, finned)
CallsInv == \A n \in Console : CallInv(call[n])

\* What is not drawn is not written to.
FreshInv == finned \subseteq isns /\ \A i \in ISN \ isns : wrote[i] = 0

\* The inductive invariant: every stream has one writer, what a connection keeps,
\* what a pending accept promises and what is in flight all agree with what was
\* written, and the locals of a blocked Connect name a real stream.
IInv ==
    /\ TypeOK
    /\ OneWriter
    /\ ConnsInv
    /\ PendsInv
    /\ SegsInv
    /\ CallsInv
    /\ FreshInv
=============================================================================
