------------------------------ MODULE DummySkip ------------------------------
(***************************************************************************)
(* Which bsd:u sessions are intercepted.  An application opens a dummy     *)
(* session first, which must be forwarded untouched, and then the sessions *)
(* it works with, which must be intercepted; when all of those are closed  *)
(* it starts again with a dummy.  ShouldMitm tells them apart by a table   *)
(* of process ids, g_dummy_skip.                                           *)
(*                                                                         *)
(* ShouldMitm runs in the mitm query thread, OnNeedsToAccept and the       *)
(* destructor of BsdBridgeService in the dispatch thread, and a client may *)
(* close its end long before the destructor runs.  All accesses to the     *)
(* table hold g_dummy_skip_mutex.                                          *)
(***************************************************************************)
EXTENDS Naturals, FiniteSets

CONSTANTS
    Game,          \* the processes of applications
    LdnMitm,       \* the processes of ldn_mitm
    System,        \* all other processes
    NoPid,         \* pid 0: the entry is free
    Session,       \* names for sessions
    Owner,         \* the process that may use such a name
    MaxEntries,    \* MaxDummySkipEntries
    Hasty          \* the games that start again before the destructors ran

Proc  == Game \cup LdnMitm \cup System
Entry == 1..MaxEntries

ASSUME TableAssumption ==
    /\ NoPid \notin Proc
    /\ MaxEntries \in Nat \ {0}
    /\ Owner \in [Session -> Proc]
    /\ IsFiniteSet(Session)
    /\ Game \cap (LdnMitm \cup System) = {}

VARIABLES
    table,         \* g_dummy_skip
    sess,          \* what became of each session
    burst,         \* the games that have opened their dummy and go on
    gone,          \* the processes that have exited
    overflow       \* history: a session found the table full

skipVars == <<table, sess, burst, gone, overflow>>

Free   == [pid |-> NoPid, live |-> 0, skipped |-> FALSE]
Closed == [role |-> "closed", client |-> FALSE, dummy |-> FALSE]

\* The sessions that have, or are about to have, a BsdBridgeService.
Intercepted(p) ==
    {s \in Session : Owner[s] = p /\ sess[s].role \in {"asked", "bridged"}}

\* The sessions a process works with, as it sees them.
Working(p) ==
    {s \in Session : Owner[s] = p /\ sess[s].client /\ ~sess[s].dummy}

SkipInit ==
    /\ table = [e \in Entry |-> Free]
    /\ sess = [s \in Session |-> Closed]
    /\ burst = {} /\ gone = {} /\ overflow = FALSE

-----------------------------------------------------------------------------
(* ShouldMitm.                                                             *)

\* The entry the loop ends with: the process's own, or else the first free one.
EntryFor(p) ==
    LET own == {e \in Entry : table[e].pid = p}
        free == {e \in Entry : table[e] = Free}
        pick == IF own # {} THEN own ELSE free
    IN  {e \in pick : \A f \in pick : e <= f}

\* The answer for a session of process p, and the table that it leaves.
Answer(p, yes) ==
    CASE p \in LdnMitm -> yes /\ UNCHANGED <<table, overflow>>
      [] p \in System -> ~yes /\ UNCHANGED <<table, overflow>>
      [] p \in Game /\ EntryFor(p) = {} ->
             ~yes /\ overflow' = TRUE /\ UNCHANGED table
      [] p \in Game /\ EntryFor(p) # {} ->
             \E e \in EntryFor(p) :
                /\ yes = table[e].skipped
                /\ table' = [table EXCEPT
                      ![e] = [pid |-> p, skipped |-> TRUE,
                              live |-> @.live + (IF yes THEN 1 ELSE 0)]]
                /\ UNCHANGED overflow

ShouldMitm(s, dummy) ==
    /\ sess[s] = Closed
    /\ \E yes \in BOOLEAN :
          /\ Answer(Owner[s], yes)
          /\ sess' = [sess EXCEPT ![s] =
                [role |-> IF yes THEN "asked" ELSE "direct", client |-> TRUE,
                 dummy |-> dummy]]

\* A process opens a session; a game begins with a dummy.
OpenSession(s) ==
    LET p == Owner[s]
    IN  /\ p \notin gone
        /\ p \in Game \ (burst \cup Hasty) => Intercepted(p) = {}
        /\ ShouldMitm(s, p \in Game \ burst)
        /\ burst' = IF p \in Game THEN burst \cup {p} ELSE burst
        /\ UNCHANGED gone

-----------------------------------------------------------------------------
\* A session that was forwarded is none of ours, also when it ends.
WithoutClient(r) ==
    IF r.role \in {"direct", "closed"} THEN Closed
    ELSE [r EXCEPT !.client = FALSE]

\* The client closes its end; the last one it works with ends its burst.
CloseSession(s) ==
    LET p == Owner[s]
    IN  /\ sess[s].client
        /\ sess' = [sess EXCEPT ![s] = WithoutClient(@)]
        /\ burst' = IF Working(p) = {s} THEN burst \ {p} ELSE burst
        /\ UNCHANGED <<table, gone, overflow>>

\* A process ends, and with it all its sessions.
ExitProcess(p) ==
    /\ p \notin gone /\ gone' = gone \cup {p}
    /\ sess' = [s \in Session |->
                   IF Owner[s] = p THEN WithoutClient(sess[s]) ELSE sess[s]]
    /\ burst' = burst \ {p}
    /\ UNCHANGED <<table, overflow>>

\* OnNeedsToAccept constructs the BsdBridgeService.
OnNeedsToAccept(s) ==
    /\ sess[s].role = "asked"
    /\ sess' = [sess EXCEPT ![s].role = "bridged"]
    /\ UNCHANGED <<table, burst, gone, overflow>>

\* Mutant: the entry is forgotten with the first session that ends.
ForgetAtOnce(p) ==
    LET mine == {e \in Entry : table[e].pid = p /\ table[e].live > 0}
    IN  table' = [e \in Entry |-> IF e \in mine THEN Free ELSE table[e]]

\* Mutant: the entry of a process without sessions is kept.
NeverForget(p) ==
    LET mine == {e \in Entry : table[e].pid = p /\ table[e].live > 0}
    IN  table' = [e \in Entry |->
                     IF e \in mine THEN [table[e] EXCEPT !.live = @ - 1]
                     ELSE table[e]]

\* Mutant: the dummy skip is armed again while other sessions are live.
RearmEarly(p) ==
    LET mine == {e \in Entry : table[e].pid = p /\ table[e].live > 0}
    IN  table' = [e \in Entry |->
                     IF e \notin mine THEN table[e]
                     ELSE IF table[e].live = 1 THEN Free
                     ELSE [table[e] EXCEPT !.live = @ - 1, !.skipped = FALSE]]

\* The part of ~BsdBridgeService that keeps the table: the first entry of the
\* process that counts a session counts one less, and is free at zero.
Release(p) ==
    LET mine == {e \in Entry : table[e].pid = p /\ table[e].live > 0}
        first == {e \in mine : \A f \in mine : e <= f}
    IN  table' = [e \in Entry |->
                     IF e \notin first THEN table[e]
                     ELSE IF table[e].live = 1 THEN Free
                     ELSE [table[e] EXCEPT !.live = @ - 1]]

Destroy(s) ==
    /\ sess[s].role = "bridged" /\ ~sess[s].client
    /\ Release(Owner[s])
    /\ sess' = [sess EXCEPT ![s] = Closed]
    /\ UNCHANGED <<burst, gone, overflow>>

SkipNext ==
    \/ \E s \in Session :
          OpenSession(s) \/ CloseSession(s) \/ OnNeedsToAccept(s) \/ Destroy(s)
    \/ \E p \in Proc : ExitProcess(p)

SkipSpec == SkipInit /\ [][SkipNext]_skipVars

-----------------------------------------------------------------------------
(* Properties.                                                             *)

SkipTypeOK ==
    /\ table \in [Entry -> [pid : Game \cup {NoPid}, live : Nat,
                            skipped : BOOLEAN]]
    /\ sess \in [Session -> [role : {"closed", "direct", "asked", "bridged"},
                             client : BOOLEAN, dummy : BOOLEAN]]
    /\ burst \subseteq Game /\ gone \subseteq Proc /\ overflow \in BOOLEAN

OneEntryEach ==
    \A e, f \in Entry :
        table[e].pid = table[f].pid /\ table[e].pid # NoPid => e = f

LiveIsExact ==
    \A e \in Entry :
        /\ table[e].pid = NoPid => table[e] = Free
        /\ \A p \in Game : table[e].pid = p =>
              table[e].live = Cardinality(Intercepted(p))

AllAreCounted ==
    \A p \in Game : Intercepted(p) # {} => \E e \in Entry : table[e].pid = p

\* The table is the count of the intercepted sessions (bsd_bridge_service.cpp:
\* 77-90): a game has at most one entry, its live count is the number of its
\* sessions that were granted and not yet destroyed, whatever order the query
\* thread and the dispatch thread take, and no session goes uncounted.
TableIsExact == OneEntryEach /\ LiveIsExact /\ AllAreCounted

\* "the very first session of each burst of bsd:u activity must be forwarded
\* transparently" (bsd_bridge_service.cpp:74-78): no dummy session ever gets a
\* BsdBridgeService, over any number of bursts, as long as no session has found
\* the table full.
DummyNeverIntercepted ==
    ~overflow =>
        \A s \in Session : sess[s].dummy =>
            sess[s].role \notin {"asked", "bridged"}

\* "and only session #2+ intercepted" (bsd_bridge_service.cpp:78-79): a session
\* that a game works with is always intercepted, as long as no session has
\* found the table full.
WorkIsIntercepted ==
    ~overflow =>
        \A s \in Session : Owner[s] \in Game /\ sess[s].role = "direct" =>
            sess[s].dummy
=============================================================================
