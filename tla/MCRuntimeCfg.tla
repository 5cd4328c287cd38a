---------------------------- MODULE MCRuntimeCfg ----------------------------
(* An instance of RuntimeCfg with short texts for servers.conf.            *)
EXTENDS RuntimeCfg

CONSTANTS north, south, west

\* "name host", "name host:port", "name host:port port" and "name host port".
Plain(h)        == [words |-> 2, host |-> h, third |-> 0, colon |-> FALSE,
                    colonPort |-> 0, bytes |-> 10]
WithColon(h, n) == [Plain(h) EXCEPT !.colon = TRUE, !.colonPort = n]
WithThird(h, n) == [Plain(h) EXCEPT !.words = 3, !.third = n]
Comment(h)      == [Plain(h) EXCEPT !.words = 0]

\* Two servers with a comment between them; the same and one server too many,
\* with a bad port before it; the second alone; and a text the overlay cuts.
SomeConfs ==
    {<<Plain(north), Comment(west), WithColon(south, 7)>>,
     <<WithThird(north, 65536), WithColon(south, 7), Plain(north),
       Plain(west)>>,
     <<WithThird(south, 7)>>,
     <<[Plain(north) EXCEPT !.bytes = 40], WithThird(south, 7)>>}

TheDefault == [host |-> west, tail |-> FALSE, port |-> 11451]
=============================================================================
