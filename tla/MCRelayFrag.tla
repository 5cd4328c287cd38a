----------------------------- MODULE MCRelayFrag ----------------------------
EXTENDS RelayFrag, TLC

\* Senders are interchangeable where they begin with the same id.
SourceSymmetry == Permutations(Source)

\* Every sender's ids wrap to 0 after its first fragmented packet.
AtWrap == [s \in Source |-> IdMod - 1]

\* Consoles that have been up for different times.
FarApart ==
    LET young == CHOOSE s \in Source : TRUE
    IN  [s \in Source |-> IF s = young THEN 0 ELSE IdMod \div 2]
=============================================================================
