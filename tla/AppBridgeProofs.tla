--------------------------- MODULE AppBridgeProofs ---------------------------
(***************************************************************************)
(* The dummy skip for every number of games, sessions and table entries,   *)
(* in every interleaving of the query thread, the dispatch thread and the  *)
(* clients, with processes that exit at any moment.  The properties are    *)
(* proved of DummySkip's specification, which AppBridge's implements.      *)
(***************************************************************************)
EXTENDS AppBridge, FiniteSetTheorems, TLAPS

Own(p) == {e \in Entry : table[e].pid = p}

SessTyped ==
    sess \in [Session -> [role : {"closed", "direct", "asked", "bridged"},
                          client : BOOLEAN, dummy : BOOLEAN]]

\* An entry in use belongs to a game, whose dummy was forwarded.
EntriesAreArmed ==
    \A e \in Entry :
        table[e].pid # NoPid => table[e].pid \in Game /\ table[e].skipped

ClosedIsEmpty == \A s \in Session : sess[s].role = "closed" => sess[s] = Closed

\* What a game may expect while no session has found the table full: during a
\* burst it has an entry, and without a burst and without sessions it has none;
\* as long as its burst lasts it has a session that it works with, or nothing
\* of it is intercepted yet.
BurstsAreKept ==
    ~overflow =>
        \A p \in Game :
            /\ p \in burst /\ Intercepted(p) # {} => Working(p) # {}
            /\ p \notin gone /\ p \in burst => Own(p) # {}
            /\ p \notin gone /\ p \notin burst /\ Intercepted(p) = {} =>
                  Own(p) = {}

\* The inductive invariant of TableIsExact.
TableInv == SkipTypeOK /\ TableIsExact /\ EntriesAreArmed /\ ClosedIsEmpty

\* The inductive invariant of the other two, for games that wait for their
\* sessions to be destroyed before they start again.
BurstInv ==
    /\ Hasty = {}
    /\ BurstsAreKept /\ DummyNeverIntercepted /\ WorkIsIntercepted

-----------------------------------------------------------------------------
(* The table.                                                              *)

LEMMA InterceptedFinite ==
    ASSUME NEW p
    PROVE  /\ IsFiniteSet(Intercepted(p))
           /\ Cardinality(Intercepted(p)) \in Nat
           /\ Cardinality(Intercepted(p)) = 0 <=> Intercepted(p) = {}
<1>1. Intercepted(p) \subseteq Session
    BY DEF Intercepted
<1> QED
    BY <1>1, TableAssumption, FS_Subset, FS_CardinalityType, FS_EmptySet

\* The loop of ShouldMitm ends with the process's own entry, if there is one.
LEMMA EntryIsOwn ==
    ASSUME TableInv, NEW p \in Game
    PROVE  /\ Own(p) # {} => EntryFor(p) # {}
           /\ \A e \in EntryFor(p) :
                 /\ e \in Entry
                 /\ Own(p) = {e} \/ (Own(p) = {} /\ table[e] = Free)
<1>1. p # NoPid
    BY TableAssumption DEF Proc
<1>2. \A e, f \in Own(p) : e = f
    BY <1>1 DEF Own, TableInv, TableIsExact, OneEntryEach
<1>3. \A e \in Entry : e <= e
    BY DEF Entry
<1>4. ASSUME NEW o \in Own(p) PROVE EntryFor(p) = {o} /\ Own(p) = {o}
    BY <1>2, <1>3, <1>4 DEF Own, EntryFor
<1>5. ASSUME Own(p) = {}, NEW e \in EntryFor(p)
      PROVE  e \in Entry /\ table[e] = Free
    BY <1>5 DEF Own, EntryFor
<1>6. \A e \in Own(p) : e \in Entry
    BY DEF Own
<1> QED
    BY <1>4, <1>5, <1>6

\* What ShouldMitm answers and does to the table, case by case.
LEMMA AnswerCases ==
    ASSUME TableInv, NEW p \in Proc, NEW yes \in BOOLEAN, Answer(p, yes)
    PROVE  \/ p \notin Game /\ UNCHANGED <<table, overflow>>
           \/ /\ p \in Game /\ Own(p) = {} /\ ~yes
              /\ UNCHANGED table /\ overflow'
           \/ /\ p \in Game /\ Own(p) = {} /\ ~yes /\ UNCHANGED overflow
              /\ \E e \in Entry :
                    /\ table[e] = Free
                    /\ table' = [table EXCEPT ![e] =
                          [pid |-> p, skipped |-> TRUE, live |-> 0]]
           \/ /\ p \in Game /\ yes /\ UNCHANGED overflow
              /\ \E e \in Entry :
                    /\ Own(p) = {e}
                    /\ table' = [table EXCEPT ![e] =
                          [pid |-> p, skipped |-> TRUE,
                           live |-> table[e].live + 1]]
<1>1. CASE p \notin Game
    <2>1. p \in LdnMitm \/ p \in System
        BY <1>1 DEF Proc
    <2> QED
        BY <1>1, <2>1 DEF Answer
<1>2. CASE p \in Game /\ EntryFor(p) = {}
    <2>1. ~yes /\ UNCHANGED table /\ overflow'
        BY <1>2, TableAssumption DEF Answer
    <2> QED
        BY <1>2, <2>1, EntryIsOwn
<1>3. CASE p \in Game /\ EntryFor(p) # {}
    <2>1. PICK e \in EntryFor(p) :
              /\ yes = table[e].skipped
              /\ table' = [table EXCEPT ![e] =
                    [pid |-> p, skipped |-> TRUE,
                     live |-> @.live + (IF yes THEN 1 ELSE 0)]]
              /\ UNCHANGED overflow
        BY <1>3, TableAssumption DEF Answer
    <2>2. e \in Entry /\ (Own(p) = {e} \/ (Own(p) = {} /\ table[e] = Free))
        BY <1>3, <2>1, EntryIsOwn
    <2>3. CASE Own(p) = {e}
        <3>1. table[e].pid = p /\ p # NoPid
            BY <1>3, <2>3, TableAssumption DEF Own, Proc
        <3>2. yes = TRUE
            BY <2>1, <2>2, <3>1 DEF TableInv, EntriesAreArmed, SkipTypeOK
        <3> QED
            BY <1>3, <2>1, <2>2, <2>3, <3>2
    <2>4. CASE Own(p) = {} /\ table[e] = Free
        <3>1. yes = FALSE /\ table[e].live + (IF yes THEN 1 ELSE 0) = 0
            BY <2>1, <2>4 DEF Free
        <3>2. table' = [table EXCEPT ![e] =
                           [pid |-> p, skipped |-> TRUE, live |-> 0]]
            BY <2>1, <3>1
        <3> QED
            BY <1>3, <2>1, <2>2, <2>4, <3>1, <3>2
    <2> QED
        BY <2>2, <2>3, <2>4
<1> QED
    BY <1>1, <1>2, <1>3

\* A session that is granted adds one to the sessions of its process, one that
\* is destroyed takes one away, and everything else leaves them alone.
LEMMA InterceptedAfter ==
    ASSUME NEW s \in Session,
           \A t \in Session \ {s} : sess'[t] = sess[t]
    PROVE  /\ \A p : p # Owner[s] => Intercepted(p)' = Intercepted(p)
           /\ sess'[s].role \in {"asked", "bridged"} =>
                 Intercepted(Owner[s])' = Intercepted(Owner[s]) \cup {s}
           /\ sess'[s].role \notin {"asked", "bridged"} =>
                 Intercepted(Owner[s])' = Intercepted(Owner[s]) \ {s}
BY DEF Intercepted

LEMMA SameCount ==
    ASSUME TableInv, UNCHANGED table, ClosedIsEmpty', SkipTypeOK',
           \A p : Intercepted(p)' = Intercepted(p)
    PROVE  TableInv'
BY DEF TableInv, TableIsExact, OneEntryEach, LiveIsExact, AllAreCounted,
       EntriesAreArmed

\* The effect of OpenSession on the sessions.
LEMMA OpenCases ==
    ASSUME TableInv, NEW s \in Session, OpenSession(s)
    PROVE  \E yes, dummy \in BOOLEAN :
              /\ Answer(Owner[s], yes)
              /\ dummy <=> Owner[s] \in Game \ burst
              /\ sess'[s].role = IF yes THEN "asked" ELSE "direct"
              /\ sess'[s].client = TRUE /\ sess'[s].dummy = dummy
              /\ \A t \in Session \ {s} : sess'[t] = sess[t]
              /\ SessTyped'
<1>1. PICK dummy \in BOOLEAN : dummy = (Owner[s] \in Game \ burst)
    <2>1. (Owner[s] \in Game \ burst) \in BOOLEAN
        OBVIOUS
    <2> QED
        BY <2>1, Zenon
<1>2. ShouldMitm(s, dummy)
    BY <1>1, Zenon DEF OpenSession
<1>3. PICK yes \in BOOLEAN :
          /\ Answer(Owner[s], yes)
          /\ sess' = [sess EXCEPT ![s] =
                [role |-> IF yes THEN "asked" ELSE "direct", client |-> TRUE,
                 dummy |-> dummy]]
    BY <1>2, Zenon DEF ShouldMitm
<1> QED
    BY <1>1, <1>3 DEF TableInv, SkipTypeOK, SessTyped

LEMMA OpenKeepsTable ==
    ASSUME TableInv, NEW s \in Session, OpenSession(s)
    PROVE  TableInv'
<1>1. PICK p \in Proc : p = Owner[s]
    BY TableAssumption
<1>2. PICK yes \in BOOLEAN :
          /\ Answer(p, yes)
          /\ sess'[s].role = IF yes THEN "asked" ELSE "direct"
          /\ \A t \in Session \ {s} : sess'[t] = sess[t]
          /\ SessTyped'
    BY <1>1, OpenCases
<1>3. s \notin Intercepted(p)
    BY DEF OpenSession, ShouldMitm, Intercepted, Closed
<1>4. ClosedIsEmpty'
    BY <1>2 DEF TableInv, ClosedIsEmpty
<1>5. burst' \subseteq Game /\ gone' = gone
    BY DEF OpenSession, TableInv, SkipTypeOK
<1>6. /\ \A q : q # p => Intercepted(q)' = Intercepted(q)
      /\ yes => Intercepted(p)' = Intercepted(p) \cup {s}
      /\ ~yes => Intercepted(p)' = Intercepted(p)
    <2>1. Intercepted(p) \ {s} = Intercepted(p)
        BY <1>3
    <2> QED
        BY <1>1, <1>2, <2>1, InterceptedAfter
<1>7. yes => Cardinality(Intercepted(p)') = Cardinality(Intercepted(p)) + 1
    BY <1>3, <1>6, InterceptedFinite, FS_AddElement
<1>8. p # NoPid
    BY TableAssumption
<1>9. CASE UNCHANGED table /\ overflow' \in BOOLEAN /\ (p \notin Game \/ ~yes)
    <2>1. SkipTypeOK'
        BY <1>2, <1>5, <1>9 DEF TableInv, SkipTypeOK, SessTyped
    <2>2. \A q \in Game : Intercepted(q)' = Intercepted(q)
        BY <1>6, <1>9
    <2>3. TableIsExact' /\ EntriesAreArmed'
        BY <1>9, <2>2 DEF TableInv, TableIsExact, OneEntryEach, LiveIsExact,
                          AllAreCounted, EntriesAreArmed
    <2> QED
        BY <1>4, <2>1, <2>3 DEF TableInv
<1>10. ASSUME p \in Game, UNCHANGED overflow, NEW e \in Entry, NEW n \in Nat,
              Own(p) \subseteq {e}, table[e].pid \in {NoPid, p},
              n = Cardinality(Intercepted(p)'),
              table' = [table EXCEPT ![e] =
                  [pid |-> p, skipped |-> TRUE, live |-> n]]
       PROVE  TableInv'
    <2>1. SkipTypeOK'
        BY <1>2, <1>5, <1>10 DEF TableInv, SkipTypeOK, SessTyped
    <2>2. /\ table'[e] = [pid |-> p, skipped |-> TRUE, live |-> n]
          /\ \A f \in Entry \ {e} : table'[f] = table[f] /\ table[f].pid # p
        BY <1>10 DEF TableInv, SkipTypeOK, Own
    <2>3. EntriesAreArmed'
        BY <1>10, <2>2 DEF TableInv, EntriesAreArmed
    <2>4. OneEntryEach'
        BY <1>8, <2>2 DEF TableInv, TableIsExact, OneEntryEach
    <2>5. LiveIsExact'
        BY <1>6, <1>8, <1>10, <2>2 DEF TableInv, TableIsExact, LiveIsExact
    <2>6. AllAreCounted'
        <3> SUFFICES ASSUME NEW q \in Game, Intercepted(q)' # {}
                     PROVE  \E f \in Entry : table'[f].pid = q
            BY DEF AllAreCounted
        <3>1. CASE q = p
            BY <2>2, <3>1
        <3>2. CASE q # p
            BY <1>6, <1>10, <2>2, <3>2, TableAssumption
                DEF TableInv, TableIsExact, AllAreCounted, Proc
        <3> QED
            BY <3>1, <3>2
    <2> QED
        BY <1>4, <2>1, <2>3, <2>4, <2>5, <2>6 DEF TableInv, TableIsExact
<1>11. CASE p \notin Game
    BY <1>1, <1>2, <1>9, <1>11, AnswerCases DEF TableInv, SkipTypeOK
<1>12. CASE p \in Game /\ Own(p) = {} /\ ~yes
    <2>1. Intercepted(p)' = {}
        BY <1>6, <1>12 DEF TableInv, TableIsExact, AllAreCounted, Own
    <2>2. Cardinality(Intercepted(p)') = 0
        BY <2>1, FS_EmptySet
    <2>3. CASE UNCHANGED table /\ overflow'
        BY <1>9, <1>12, <2>3
    <2>4. CASE UNCHANGED overflow /\ \E e \in Entry :
                   /\ table[e] = Free
                   /\ table' = [table EXCEPT ![e] =
                          [pid |-> p, skipped |-> TRUE, live |-> 0]]
        <3>1. PICK e \in Entry :
                   /\ table[e] = Free
                   /\ table' = [table EXCEPT ![e] =
                          [pid |-> p, skipped |-> TRUE, live |-> 0]]
            BY <2>4
        <3>2. table[e].pid \in {NoPid, p} /\ Own(p) \subseteq {e} /\ 0 \in Nat
            BY <1>12, <3>1 DEF Free
        <3> QED
            BY <1>10, <1>12, <2>2, <2>4, <3>1, <3>2
    <2> QED
        BY <1>2, <1>12, <2>3, <2>4, AnswerCases
<1>13. CASE p \in Game /\ ~(Own(p) = {} /\ ~yes)
    <2>1. UNCHANGED overflow /\ yes
        BY <1>2, <1>13, AnswerCases
    <2>2. PICK e \in Entry :
              /\ Own(p) = {e}
              /\ table' = [table EXCEPT ![e] =
                    [pid |-> p, skipped |-> TRUE, live |-> table[e].live + 1]]
        BY <1>2, <1>13, AnswerCases
    <2>3. table[e].pid = p
        BY <2>2 DEF Own
    <2>4. table[e].live = Cardinality(Intercepted(p))
        BY <1>13, <2>3 DEF TableInv, TableIsExact, LiveIsExact
    <2>5. PICK n \in Nat : n = table[e].live + 1
        BY <2>4, InterceptedFinite
    <2>6. n = Cardinality(Intercepted(p)')
        BY <1>7, <2>1, <2>4, <2>5
    <2>7. table' = [table EXCEPT ![e] =
                       [pid |-> p, skipped |-> TRUE, live |-> n]]
        BY <2>2, <2>5
    <2> QED
        BY <1>10, <1>13, <2>1, <2>2, <2>3, <2>6, <2>7
<1> QED
    BY <1>11, <1>12, <1>13

\* A client that goes away leaves the interception of its sessions alone.
LEMMA WithoutClientKeepsRole ==
    ASSUME TableInv, NEW s \in Session
    PROVE  LET r == WithoutClient(sess[s])
           IN  /\ r \in [role : {"closed", "direct", "asked", "bridged"},
                         client : BOOLEAN, dummy : BOOLEAN]
               /\ r.role = "closed" => r = Closed
               /\ ~r.client
               /\ r.dummy => sess[s].dummy
               /\ r.role = "direct" => FALSE
               /\ IF sess[s].role \in {"asked", "bridged"}
                  THEN r.role = sess[s].role
                  ELSE r.role = "closed"
<1>1. sess[s] \in [role : {"closed", "direct", "asked", "bridged"},
                   client : BOOLEAN, dummy : BOOLEAN]
    BY DEF TableInv, SkipTypeOK
<1> QED
    BY <1>1 DEF WithoutClient, Closed

LEMMA CloseKeepsTable ==
    ASSUME TableInv, NEW s \in Session, CloseSession(s)
    PROVE  TableInv'
<1>1. /\ sess'[s] = WithoutClient(sess[s])
      /\ \A t \in Session \ {s} : sess'[t] = sess[t]
      /\ sess' = [t \in Session |-> sess'[t]]
    BY DEF CloseSession, TableInv, SkipTypeOK
<1>2. SessTyped'
    BY <1>1, WithoutClientKeepsRole DEF TableInv, SkipTypeOK, SessTyped
<1>3. SkipTypeOK'
    BY <1>2 DEF CloseSession, TableInv, SkipTypeOK, SessTyped
<1>4. ClosedIsEmpty'
    BY <1>1, WithoutClientKeepsRole DEF TableInv, ClosedIsEmpty
<1>5. \A p : Intercepted(p)' = Intercepted(p)
    BY <1>1, WithoutClientKeepsRole DEF Intercepted
<1> QED
    BY <1>3, <1>4, <1>5, SameCount DEF CloseSession

LEMMA ExitKeepsTable ==
    ASSUME TableInv, NEW p \in Proc, ExitProcess(p)
    PROVE  TableInv'
<1>1. /\ \A t \in Session :
            sess'[t] = IF Owner[t] = p THEN WithoutClient(sess[t]) ELSE sess[t]
      /\ sess' = [t \in Session |-> sess'[t]]
    BY DEF ExitProcess
<1>2. SessTyped'
    BY <1>1, WithoutClientKeepsRole DEF TableInv, SkipTypeOK, SessTyped
<1>3. SkipTypeOK'
    BY <1>2 DEF ExitProcess, TableInv, SkipTypeOK, SessTyped
<1>4. ClosedIsEmpty'
    BY <1>1, WithoutClientKeepsRole DEF TableInv, ClosedIsEmpty
<1>5. \A q : Intercepted(q)' = Intercepted(q)
    BY <1>1, WithoutClientKeepsRole DEF Intercepted
<1> QED
    BY <1>3, <1>4, <1>5, SameCount DEF ExitProcess

LEMMA AcceptKeepsTable ==
    ASSUME TableInv, NEW s \in Session, OnNeedsToAccept(s)
    PROVE  TableInv'
<1>1. /\ sess[s].role = "asked"
      /\ sess'[s] = [sess[s] EXCEPT !.role = "bridged"]
      /\ \A t \in Session \ {s} : sess'[t] = sess[t]
      /\ SessTyped'
    BY DEF OnNeedsToAccept, TableInv, SkipTypeOK, SessTyped
<1>2. sess'[s].role = "bridged"
    BY <1>1 DEF TableInv, SkipTypeOK
<1>3. SkipTypeOK'
    BY <1>1 DEF OnNeedsToAccept, TableInv, SkipTypeOK, SessTyped
<1>4. ClosedIsEmpty'
    BY <1>1, <1>2 DEF TableInv, ClosedIsEmpty
<1>5. \A p : Intercepted(p)' = Intercepted(p)
    BY <1>1, <1>2 DEF Intercepted
<1> QED
    BY <1>3, <1>4, <1>5, SameCount DEF OnNeedsToAccept

\* The destructor finds the entry of its process, and frees it exactly when no
\* other session of the process is left.
LEMMA ReleaseCases ==
    ASSUME TableInv, NEW s \in Session, Destroy(s)
    PROVE  \/ Owner[s] \notin Game /\ UNCHANGED table
           \/ /\ Owner[s] \in Game
              /\ \E e \in Entry :
                    /\ Own(Owner[s]) = {e}
                    /\ table'[e] = IF table[e].live = 1 THEN Free
                                   ELSE [table[e] EXCEPT !.live = @ - 1]
                    /\ \A f \in Entry \ {e} : table'[f] = table[f]
                    /\ table' = [f \in Entry |-> table'[f]]
<1>1. PICK p \in Proc : p = Owner[s]
    BY TableAssumption
<1>2. s \in Intercepted(p) /\ p # NoPid
    BY <1>1, TableAssumption DEF Destroy, Intercepted
<1>3. CASE p \notin Game
    <2>1. {e \in Entry : table[e].pid = p /\ table[e].live > 0} = {}
        BY <1>2, <1>3 DEF TableInv, EntriesAreArmed
    <2>2. \A e \in Entry : table'[e] = table[e]
        BY <1>1, <2>1 DEF Destroy, Release
    <2>3. table' = [e \in Entry |-> table'[e]]
        BY DEF Destroy, Release
    <2>4. UNCHANGED table
        BY <2>2, <2>3 DEF TableInv, SkipTypeOK
    <2> QED
        BY <1>1, <1>3, <2>4
<1>4. CASE p \in Game
    <2>1. PICK e \in Entry : table[e].pid = p
        BY <1>2, <1>4 DEF TableInv, TableIsExact, AllAreCounted
    <2>2. Own(p) = {e}
        BY <1>2, <2>1 DEF TableInv, TableIsExact, OneEntryEach, Own
    <2>3. table[e].live > 0
        BY <1>2, <1>4, <2>1, InterceptedFinite
            DEF TableInv, TableIsExact, LiveIsExact
    <2>4. {f \in Entry : table[f].pid = p /\ table[f].live > 0} = {e}
        BY <2>1, <2>2, <2>3 DEF Own
    <2>5. {f \in {e} : \A g \in {e} : f <= g} = {e}
        BY DEF Entry
    <2>6. table' = [f \in Entry |->
                       IF f \notin {e} THEN table[f]
                       ELSE IF table[f].live = 1 THEN Free
                       ELSE [table[f] EXCEPT !.live = @ - 1]]
        BY <1>1, <2>4, <2>5, Zenon DEF Destroy, Release
    <2> QED
        BY <1>1, <1>4, <2>2, <2>6
<1> QED
    BY <1>3, <1>4

LEMMA DestroyKeepsTable ==
    ASSUME TableInv, NEW s \in Session, Destroy(s)
    PROVE  TableInv'
<1>1. PICK p \in Proc : p = Owner[s]
    BY TableAssumption
<1>2. s \in Intercepted(p) /\ p # NoPid
    BY <1>1, TableAssumption DEF Destroy, Intercepted
<1>3. /\ sess'[s] = Closed
      /\ \A t \in Session \ {s} : sess'[t] = sess[t]
      /\ SessTyped'
    BY DEF Destroy, TableInv, SkipTypeOK, SessTyped, Closed
<1>4. /\ \A q : q # p => Intercepted(q)' = Intercepted(q)
      /\ Intercepted(p)' = Intercepted(p) \ {s}
    BY <1>1, <1>3, InterceptedAfter DEF Closed
<1>5. Cardinality(Intercepted(p)') = Cardinality(Intercepted(p)) - 1
    BY <1>2, <1>4, InterceptedFinite, FS_RemoveElement
<1>6. ClosedIsEmpty'
    BY <1>3 DEF TableInv, ClosedIsEmpty
<1>7. CASE p \notin Game /\ UNCHANGED table
    <2>1. SkipTypeOK'
        BY <1>3, <1>7 DEF Destroy, TableInv, SkipTypeOK, SessTyped
    <2>2. \A q \in Game : Intercepted(q)' = Intercepted(q)
        BY <1>4, <1>7
    <2> QED
        BY <1>6, <1>7, <2>1, <2>2
            DEF TableInv, TableIsExact, OneEntryEach, LiveIsExact,
                AllAreCounted, EntriesAreArmed
<1>8. ASSUME p \in Game, NEW e \in Entry, Own(p) = {e},
             table'[e] = IF table[e].live = 1 THEN Free
                         ELSE [table[e] EXCEPT !.live = @ - 1],
             \A f \in Entry \ {e} : table'[f] = table[f],
             table' = [f \in Entry |-> table'[f]]
      PROVE  TableInv'
    <2>1. table[e].pid = p /\ \A f \in Entry \ {e} : table[f].pid # p
        BY <1>8 DEF Own
    <2>2. PICK n \in Nat : n = Cardinality(Intercepted(p)')
        BY <1>2, <1>4, <1>5, InterceptedFinite, FS_RemoveElement
    <2>3. table[e].live = n + 1 /\ table[e].skipped = TRUE
        BY <1>2, <1>5, <1>8, <2>1, <2>2, InterceptedFinite
            DEF TableInv, TableIsExact, LiveIsExact, EntriesAreArmed, SkipTypeOK
    <2>4. table[e] = [pid |-> p, live |-> n + 1, skipped |-> TRUE]
        BY <2>1, <2>3 DEF TableInv, SkipTypeOK
    <2>5. IF n = 0 THEN table'[e] = Free
          ELSE table'[e].pid = p /\ table'[e].live = n /\ table'[e].skipped
        <3>1. CASE n = 0
            BY <1>8, <2>4, <3>1
        <3>2. CASE n # 0
            <4>1. table[e].live # 1 /\ table[e].live - 1 = n
                BY <2>3, <3>2
            <4>2. table'[e] = [table[e] EXCEPT !.live = n]
                BY <1>8, <4>1
            <4> QED
                BY <2>4, <3>2, <4>2
        <3> QED
            BY <3>1, <3>2
    <2>6. n = 0 <=> Intercepted(p)' = {}
        BY <1>4, <2>2, InterceptedFinite, FS_RemoveElement, FS_EmptySet
    <2>7. SkipTypeOK'
        <3> DEFINE EntryType ==
                [pid : Game \cup {NoPid}, live : Nat, skipped : BOOLEAN]
        <3>1. table'[e] \in EntryType
            <4>1. Free \in EntryType
                BY DEF Free
            <4>2. [table[e] EXCEPT !.live = n] \in EntryType
                BY DEF TableInv, SkipTypeOK
            <4>3. table'[e] \in {Free, [table[e] EXCEPT !.live = n]}
                BY <1>8, <2>3
            <4> QED
                BY <4>1, <4>2, <4>3
        <3>2. \A f \in Entry : table'[f] \in EntryType
            BY <1>8, <3>1 DEF TableInv, SkipTypeOK
        <3>3. table' \in [Entry -> EntryType]
            BY <1>8, <3>2
        <3> QED
            BY <1>3, <3>3 DEF Destroy, TableInv, SkipTypeOK, SessTyped
    <2>8. /\ table'[e].pid = NoPid => n = 0 /\ table'[e] = Free
          /\ table'[e].pid # NoPid =>
                table'[e].pid = p /\ table'[e].live = n /\ table'[e].skipped
        <3>1. Free.pid = NoPid
            BY DEF Free
        <3> QED
            BY <1>2, <2>5, <3>1
    <2>9. \A f \in Entry \ {e} : table'[f] = table[f] /\ table[f].pid # p
        BY <1>8, <2>1
    <2>10. OneEntryEach'
        BY <2>8, <2>9 DEF TableInv, TableIsExact, OneEntryEach
    <2>11. LiveIsExact'
        <3>1. NoPid \notin Game
            BY TableAssumption DEF Proc
        <3> QED
            BY <1>4, <2>2, <2>8, <2>9, <3>1
                DEF TableInv, TableIsExact, LiveIsExact
    <2>12. AllAreCounted'
        BY <1>2, <1>4, <2>1, <2>6, <2>8, <2>9
            DEF TableInv, TableIsExact, AllAreCounted
    <2>13. EntriesAreArmed'
        BY <1>8, <2>8, <2>9 DEF TableInv, EntriesAreArmed
    <2> QED
        BY <1>6, <2>7, <2>10, <2>11, <2>12, <2>13 DEF TableInv, TableIsExact
<1> QED
    BY <1>1, <1>7, <1>8, ReleaseCases

LEMMA InitTable == SkipInit => TableInv
<1> SUFFICES ASSUME SkipInit PROVE TableInv
    OBVIOUS
<1>1. \A p : Intercepted(p) = {}
    BY DEF SkipInit, Intercepted, Closed
<1>2. NoPid \notin Game
    BY TableAssumption DEF Proc
<1>3. SkipTypeOK
    BY DEF SkipInit, SkipTypeOK, Free, Closed
<1>4. \A e \in Entry : table[e] = Free /\ table[e].pid = NoPid
    BY DEF SkipInit, Free
<1>5. TableIsExact /\ EntriesAreArmed
    BY <1>1, <1>2, <1>4
        DEF TableIsExact, OneEntryEach, LiveIsExact, AllAreCounted,
            EntriesAreArmed
<1>6. ClosedIsEmpty
    BY DEF SkipInit, ClosedIsEmpty
<1> QED
    BY <1>3, <1>5, <1>6 DEF TableInv

LEMMA NextTable == TableInv /\ [SkipNext]_skipVars => TableInv'
<1> SUFFICES ASSUME TableInv, [SkipNext]_skipVars PROVE TableInv'
    OBVIOUS
<1>1. CASE \E s \in Session : OpenSession(s)
    BY <1>1, OpenKeepsTable
<1>2. CASE \E s \in Session : CloseSession(s)
    BY <1>2, CloseKeepsTable
<1>3. CASE \E s \in Session : OnNeedsToAccept(s)
    BY <1>3, AcceptKeepsTable
<1>4. CASE \E s \in Session : Destroy(s)
    BY <1>4, DestroyKeepsTable
<1>5. CASE \E p \in Proc : ExitProcess(p)
    BY <1>5, ExitKeepsTable
<1>6. CASE UNCHANGED skipVars
    BY <1>6 DEF skipVars, TableInv, SkipTypeOK, TableIsExact, OneEntryEach,
                LiveIsExact, AllAreCounted, EntriesAreArmed, ClosedIsEmpty,
                Intercepted
<1> QED
    BY <1>1, <1>2, <1>3, <1>4, <1>5, <1>6 DEF SkipNext

-----------------------------------------------------------------------------
(* AppBridge adds sockets, packets and commands to DummySkip; seen through *)
(* the dummy skip's variables, its steps are steps of DummySkip.           *)

LEMMA InitSkip == Init => SkipInit
BY DEF Init

LEMMA NextSkip == [Next]_vars => [SkipNext]_skipVars
<1> SUFFICES ASSUME [Next]_vars PROVE [SkipNext]_skipVars
    OBVIOUS
<1>1. CASE \E s \in Session : Open(s) \/ Leave(s) \/ Accept(s) \/ End(s)
    BY <1>1 DEF Open, Leave, Accept, End, SkipNext
<1>2. CASE \E p \in Exits : Exit(p)
    BY <1>2, ExitsAssumption DEF Exit, SkipNext
<1>3. CASE \/ Arrive \/ LookForData \/ RecvFrom \/ Return
           \/ AnswerPoll \/ AnswerSelect
           \/ \E t \in Thread : PopIpv4(t) \/ FilePacket(t)
    BY <1>3 DEF Arrive, LookForData, AnswerPoll, AnswerSelect, Reply, RecvFrom,
                Return, PopIpv4, FilePacket
<1>4. CASE \E s \in Session :
              \/ \E port \in Port : Bind(s, port)
              \/ CloseSocket(s)
              \/ \E command \in {"poll", "select", "recv"} : Begin(s, command)
              \/ Forward(s)
    BY <1>4 DEF Bind, CloseSocket, Begin, Forward
<1>5. CASE UNCHANGED vars
    BY <1>5 DEF vars
<1> QED
    BY <1>1, <1>2, <1>3, <1>4, <1>5 DEF Next

\* Every behaviour of AppBridge is one of DummySkip: nothing that the packets
\* and the commands do reaches the table of the dummy skip.
THEOREM BridgeKeepsTheSkip == Spec => SkipSpec
BY InitSkip, NextSkip, PTL DEF Spec, SkipSpec

LEMMA TableAlways == Spec => []TableInv
<1>1. SkipSpec => []TableInv
    BY InitTable, NextTable, PTL DEF SkipSpec
<1> QED
    BY <1>1, BridgeKeepsTheSkip, PTL

\* The table counts the intercepted sessions of every game, for any number of
\* games, sessions and entries (bsd_bridge_service.cpp:692-708, 1101-1130).
THEOREM TheTableIsExact == Spec => []TableIsExact
<1>1. TableInv => TableIsExact
    BY DEF TableInv
<1> QED
    BY <1>1, TableAlways, PTL

-----------------------------------------------------------------------------
(* The bursts.                                                             *)

LEMMA InitBurst == SkipInit /\ Hasty = {} => BurstInv
<1> SUFFICES ASSUME SkipInit, Hasty = {} PROVE BurstInv
    OBVIOUS
<1>1. \A p \in Game : Intercepted(p) = {} /\ Own(p) = {}
    <2>1. NoPid \notin Game
        BY TableAssumption DEF Proc
    <2> QED
        BY <2>1 DEF SkipInit, Intercepted, Closed, Own, Free
<1>2. BurstsAreKept
    BY <1>1 DEF SkipInit, BurstsAreKept
<1>3. DummyNeverIntercepted /\ WorkIsIntercepted
    BY DEF SkipInit, DummyNeverIntercepted, WorkIsIntercepted, Closed
<1> QED
    BY <1>2, <1>3 DEF BurstInv

LEMMA OthersAreKept ==
    ASSUME NEW q, \A t \in Session : Owner[t] = q => sess'[t] = sess[t]
    PROVE  Intercepted(q)' = Intercepted(q) /\ Working(q)' = Working(q)
BY DEF Intercepted, Working

\* A session that a game works with is intercepted.
LEMMA WorkingIsIntercepted ==
    ASSUME TableInv, BurstInv, ~overflow, NEW q \in Game
    PROVE  Working(q) \subseteq Intercepted(q)
<1> SUFFICES ASSUME NEW s \in Working(q) PROVE s \in Intercepted(q)
    OBVIOUS
<1>1. s \in Session /\ Owner[s] = q /\ sess[s].client /\ ~sess[s].dummy
    BY DEF Working
<1>2. sess[s].role # "closed"
    BY <1>1 DEF TableInv, ClosedIsEmpty, Closed
<1>3. sess[s].role # "direct"
    BY <1>1 DEF BurstInv, WorkIsIntercepted
<1> QED
    BY <1>1, <1>2, <1>3 DEF TableInv, SkipTypeOK, Intercepted

LEMMA OpenKeepsBursts ==
    ASSUME TableInv, BurstInv, NEW s \in Session, OpenSession(s)
    PROVE  BurstInv'
<1> SUFFICES ASSUME ~overflow'
             PROVE  BurstsAreKept' /\ DummyNeverIntercepted'
                    /\ WorkIsIntercepted'
    BY DEF BurstInv, BurstsAreKept, DummyNeverIntercepted, WorkIsIntercepted
<1>1. PICK p \in Proc : p = Owner[s]
    BY TableAssumption
<1>2. PICK yes \in BOOLEAN, dummy \in BOOLEAN :
          /\ Answer(p, yes)
          /\ dummy <=> p \in Game \ burst
          /\ sess'[s].role = IF yes THEN "asked" ELSE "direct"
          /\ sess'[s].client = TRUE /\ sess'[s].dummy = dummy
          /\ \A t \in Session \ {s} : sess'[t] = sess[t]
    BY <1>1, OpenCases
<1>3. ~overflow
    BY <1>2, AnswerCases
<1>4. /\ p \notin gone /\ gone' = gone
      /\ p \in Game => burst' = burst \cup {p}
      /\ p \notin Game => burst' = burst
      /\ p \in Game \ burst => Intercepted(p) = {}
    BY <1>1 DEF OpenSession, BurstInv
<1>5. p \in Game => (yes <=> p \in burst)
    <2>1. ASSUME p \in Game, p \in burst PROVE yes
        BY <1>2, <1>3, <1>4, <2>1, AnswerCases DEF BurstInv, BurstsAreKept
    <2>2. ASSUME p \in Game, p \notin burst PROVE ~yes
        BY <1>2, <1>3, <1>4, <2>2, AnswerCases DEF BurstInv, BurstsAreKept
    <2> QED
        BY <2>1, <2>2
<1>6. DummyNeverIntercepted' /\ WorkIsIntercepted'
    BY <1>1, <1>2, <1>3, <1>5
        DEF BurstInv, DummyNeverIntercepted, WorkIsIntercepted
<1>7. ASSUME NEW q \in Game, q # p
      PROVE  /\ Intercepted(q)' = Intercepted(q) /\ Working(q)' = Working(q)
             /\ Own(q)' = Own(q)
             /\ q \in burst' <=> q \in burst
    <2>1. Own(q)' = Own(q)
        <3>1. p # NoPid /\ q # NoPid
            BY TableAssumption DEF Proc
        <3>2. CASE UNCHANGED table
            BY <3>2 DEF Own
        <3>3. CASE \E e \in Entry, n \in Nat :
                      /\ table[e].pid \in {NoPid, p}
                      /\ table' = [table EXCEPT ![e] =
                            [pid |-> p, skipped |-> TRUE, live |-> n]]
            <4>1. PICK e \in Entry, n \in Nat :
                      /\ table[e].pid \in {NoPid, p}
                      /\ table' = [table EXCEPT ![e] =
                            [pid |-> p, skipped |-> TRUE, live |-> n]]
                BY <3>3
            <4>2. /\ table'[e].pid = p
                  /\ \A f \in Entry \ {e} : table'[f] = table[f]
                BY <4>1 DEF TableInv, SkipTypeOK
            <4> QED
                BY <1>7, <3>1, <4>1, <4>2 DEF Own
        <3>4. \/ UNCHANGED table
              \/ \E e \in Entry : table[e] = Free /\
                    table' = [table EXCEPT ![e] =
                          [pid |-> p, skipped |-> TRUE, live |-> 0]]
              \/ \E e \in Entry : Own(p) = {e} /\
                    table' = [table EXCEPT ![e] =
                          [pid |-> p, skipped |-> TRUE,
                           live |-> table[e].live + 1]]
            BY <1>2, AnswerCases
        <3>5. ASSUME NEW e \in Entry, table[e] = Free PROVE table[e].pid = NoPid
            BY <3>5 DEF Free
        <3>6. ASSUME NEW e \in Entry, Own(p) = {e}
              PROVE  table[e].pid = p /\ table[e].live + 1 \in Nat
            BY <3>6 DEF Own, TableInv, SkipTypeOK
        <3> QED
            BY <3>2, <3>3, <3>4, <3>5, <3>6
    <2>2. Intercepted(q)' = Intercepted(q) /\ Working(q)' = Working(q)
        BY <1>1, <1>2, <1>7, OthersAreKept
    <2> QED
        BY <1>4, <1>7, <2>1, <2>2
<1>8. ASSUME p \in Game
      PROVE  /\ p \in burst'
             /\ Own(p)' # {}
             /\ Intercepted(p)' # {} => Working(p)' # {}
    <2>1. Own(p)' # {}
        <3>1. PICK e \in Entry :
                 \E n : table' = [table EXCEPT ![e] =
                              [pid |-> p, skipped |-> TRUE, live |-> n]]
            BY <1>2, <1>8, AnswerCases
        <3>2. table'[e].pid = p
            BY <3>1 DEF TableInv, SkipTypeOK
        <3> QED
            BY <3>2 DEF Own
    <2>2. CASE p \in burst
        <3>1. s \in Working(p)'
            BY <1>1, <1>2, <2>2 DEF Working
        <3> QED
            BY <1>4, <1>8, <2>1, <3>1
    <2>3. CASE p \notin burst
        <3>1. Intercepted(p)' = {}
            BY <1>1, <1>2, <1>4, <1>5, <1>8, <2>3, InterceptedAfter
        <3> QED
            BY <1>4, <1>8, <2>1, <3>1
    <2> QED
        BY <2>2, <2>3
<1>9. BurstsAreKept'
    BY <1>3, <1>4, <1>7, <1>8 DEF BurstInv, BurstsAreKept
<1> QED
    BY <1>6, <1>9

LEMMA CloseKeepsBursts ==
    ASSUME TableInv, BurstInv, NEW s \in Session, CloseSession(s)
    PROVE  BurstInv'
<1> SUFFICES ASSUME ~overflow'
             PROVE  BurstsAreKept' /\ DummyNeverIntercepted'
                    /\ WorkIsIntercepted'
    BY DEF BurstInv, BurstsAreKept, DummyNeverIntercepted, WorkIsIntercepted
<1>1. PICK p \in Proc : p = Owner[s]
    BY TableAssumption
<1>2. /\ ~overflow /\ UNCHANGED <<table, gone>> /\ sess[s].client
      /\ sess'[s] = WithoutClient(sess[s])
      /\ \A t \in Session \ {s} : sess'[t] = sess[t]
      /\ burst' = IF Working(p) = {s} THEN burst \ {p} ELSE burst
    BY <1>1 DEF CloseSession, TableInv, SkipTypeOK
<1>3. DummyNeverIntercepted' /\ WorkIsIntercepted'
    BY <1>2, WithoutClientKeepsRole
        DEF BurstInv, DummyNeverIntercepted, WorkIsIntercepted
<1>4. \A q : Own(q)' = Own(q)
    BY <1>2 DEF Own
<1>5. \A q : Intercepted(q)' = Intercepted(q)
    BY <1>2, WithoutClientKeepsRole DEF Intercepted
<1>6. Working(p)' = Working(p) \ {s} /\ \A q : q # p => Working(q)' = Working(q)
    BY <1>1, <1>2, WithoutClientKeepsRole DEF Working
<1>7. p \in Game => Working(p) \subseteq Intercepted(p)
    BY <1>2, WorkingIsIntercepted
<1>8. ASSUME NEW q \in Game
      PROVE  /\ q \in burst' /\ Intercepted(q)' # {} => Working(q)' # {}
             /\ q \notin gone' /\ q \in burst' => Own(q)' # {}
             /\ q \notin gone' /\ q \notin burst' /\ Intercepted(q)' = {} =>
                   Own(q)' = {}
    <2>1. CASE q # p \/ Working(p) # {s}
        BY <1>2, <1>4, <1>5, <1>6, <2>1 DEF BurstInv, BurstsAreKept
    <2>2. CASE q = p /\ Working(p) = {s}
        <3>1. q \notin burst' /\ Intercepted(q)' # {}
            BY <1>2, <1>5, <1>7, <2>2
        <3> QED
            BY <3>1
    <2> QED
        BY <2>1, <2>2
<1> QED
    BY <1>3, <1>8 DEF BurstsAreKept

LEMMA ExitKeepsBursts ==
    ASSUME TableInv, BurstInv, NEW p \in Proc, ExitProcess(p)
    PROVE  BurstInv'
<1> SUFFICES ASSUME ~overflow'
             PROVE  BurstsAreKept' /\ DummyNeverIntercepted'
                    /\ WorkIsIntercepted'
    BY DEF BurstInv, BurstsAreKept, DummyNeverIntercepted, WorkIsIntercepted
<1>1. /\ ~overflow /\ UNCHANGED table /\ gone' = gone \cup {p}
      /\ \A t \in Session :
            sess'[t] = IF Owner[t] = p THEN WithoutClient(sess[t]) ELSE sess[t]
      /\ burst' = burst \ {p}
    BY DEF ExitProcess
<1>2. DummyNeverIntercepted' /\ WorkIsIntercepted'
    BY <1>1, WithoutClientKeepsRole
        DEF BurstInv, DummyNeverIntercepted, WorkIsIntercepted
<1>3. \A q : Own(q)' = Own(q)
    BY <1>1 DEF Own
<1>4. ASSUME NEW q \in Game, q # p
      PROVE  Intercepted(q)' = Intercepted(q) /\ Working(q)' = Working(q)
    BY <1>1, <1>4, OthersAreKept
<1> QED
    BY <1>1, <1>2, <1>3, <1>4 DEF BurstInv, BurstsAreKept

LEMMA AcceptKeepsBursts ==
    ASSUME TableInv, BurstInv, NEW s \in Session, OnNeedsToAccept(s)
    PROVE  BurstInv'
<1>1. /\ UNCHANGED <<table, burst, gone, overflow>>
      /\ sess[s].role = "asked" /\ sess'[s].role = "bridged"
      /\ sess'[s].client = sess[s].client /\ sess'[s].dummy = sess[s].dummy
      /\ \A t \in Session \ {s} : sess'[t] = sess[t]
    BY DEF OnNeedsToAccept, TableInv, SkipTypeOK
<1>2. \A q : Own(q)' = Own(q)
    BY <1>1 DEF Own
<1>3. \A q : Intercepted(q)' = Intercepted(q) /\ Working(q)' = Working(q)
    BY <1>1 DEF Intercepted, Working
<1>4. BurstsAreKept'
    BY <1>1, <1>2, <1>3 DEF BurstInv, BurstsAreKept
<1>5. DummyNeverIntercepted' /\ WorkIsIntercepted'
    BY <1>1 DEF BurstInv, DummyNeverIntercepted, WorkIsIntercepted
<1> QED
    BY <1>4, <1>5 DEF BurstInv

LEMMA DestroyKeepsBursts ==
    ASSUME TableInv, BurstInv, NEW s \in Session, Destroy(s)
    PROVE  BurstInv'
<1> SUFFICES ASSUME ~overflow'
             PROVE  BurstsAreKept' /\ DummyNeverIntercepted'
                    /\ WorkIsIntercepted'
    BY DEF BurstInv, BurstsAreKept, DummyNeverIntercepted, WorkIsIntercepted
<1>1. PICK p \in Proc : p = Owner[s]
    BY TableAssumption
<1>2. /\ ~overflow /\ UNCHANGED <<burst, gone>>
      /\ sess[s].role = "bridged" /\ ~sess[s].client
      /\ sess'[s] = Closed
      /\ \A t \in Session \ {s} : sess'[t] = sess[t]
    BY DEF Destroy, TableInv, SkipTypeOK
<1>3. DummyNeverIntercepted' /\ WorkIsIntercepted'
    BY <1>2 DEF BurstInv, DummyNeverIntercepted, WorkIsIntercepted, Closed
<1>4. \A q : Working(q)' = Working(q)
    BY <1>2 DEF Working, Closed
<1>5. /\ \A q : q # p => Intercepted(q)' = Intercepted(q)
      /\ Intercepted(p)' = Intercepted(p) \ {s}
      /\ s \in Intercepted(p)
    BY <1>1, <1>2, InterceptedAfter DEF Closed, Intercepted
<1>6. NoPid \notin Game
    BY TableAssumption DEF Proc
<1>7. ASSUME NEW q \in Game, q # p PROVE Own(q)' = Own(q)
    <2>1. CASE UNCHANGED table
        BY <2>1 DEF Own
    <2>2. CASE \E e \in Entry :
                  /\ table[e].pid = p /\ table'[e].pid \in {p, NoPid}
                  /\ \A f \in Entry \ {e} : table'[f] = table[f]
        BY <1>6, <1>7, <2>2 DEF Own
    <2>3. ASSUME NEW e \in Entry, Own(p) = {e},
                 table'[e] = IF table[e].live = 1 THEN Free
                             ELSE [table[e] EXCEPT !.live = @ - 1]
          PROVE  table[e].pid = p /\ table'[e].pid \in {p, NoPid}
        BY <2>3 DEF Own, Free, TableInv, SkipTypeOK
    <2> QED
        BY <1>1, <2>1, <2>2, <2>3, ReleaseCases
<1>8. ASSUME p \in Game
      PROVE  Own(p)' = {} <=> Intercepted(p)' = {}
    <2>1. PICK e \in Entry :
              /\ Own(p) = {e}
              /\ table'[e] = IF table[e].live = 1 THEN Free
                             ELSE [table[e] EXCEPT !.live = @ - 1]
              /\ \A f \in Entry \ {e} : table'[f] = table[f]
        BY <1>1, <1>8, ReleaseCases
    <2>2. table[e].pid = p /\ \A f \in Entry \ {e} : table[f].pid # p
        BY <2>1 DEF Own
    <2>3. table[e].live = Cardinality(Intercepted(p))
        BY <1>8, <2>2 DEF TableInv, TableIsExact, LiveIsExact
    <2>4. table[e].live = 1 <=> Intercepted(p)' = {}
        BY <1>5, <2>3, InterceptedFinite, FS_RemoveElement, FS_EmptySet,
           FS_CardinalityType
    <2>5. table'[e].pid = IF table[e].live = 1 THEN NoPid ELSE p
        BY <2>1, <2>2 DEF Free, TableInv, SkipTypeOK
    <2> QED
        BY <1>6, <1>8, <2>1, <2>2, <2>4, <2>5 DEF Own
<1>9. ASSUME p \in Game, p \in burst PROVE Intercepted(p)' # {}
    <2>1. PICK w : w \in Working(p)
        BY <1>2, <1>5, <1>9 DEF BurstInv, BurstsAreKept
    <2>2. w \in Intercepted(p) /\ w # s
        BY <1>2, <1>9, <2>1, WorkingIsIntercepted DEF Working
    <2> QED
        BY <1>5, <2>2
<1>10. BurstsAreKept'
    BY <1>2, <1>4, <1>5, <1>7, <1>8, <1>9 DEF BurstInv, BurstsAreKept
<1> QED
    BY <1>3, <1>10

LEMMA NextBurst ==
    TableInv /\ BurstInv /\ [SkipNext]_skipVars => BurstInv'
<1> SUFFICES ASSUME TableInv, BurstInv, [SkipNext]_skipVars PROVE BurstInv'
    OBVIOUS
<1>1. CASE \E s \in Session : OpenSession(s)
    BY <1>1, OpenKeepsBursts
<1>2. CASE \E s \in Session : CloseSession(s)
    BY <1>2, CloseKeepsBursts
<1>3. CASE \E s \in Session : OnNeedsToAccept(s)
    BY <1>3, AcceptKeepsBursts
<1>4. CASE \E s \in Session : Destroy(s)
    BY <1>4, DestroyKeepsBursts
<1>5. CASE \E p \in Proc : ExitProcess(p)
    BY <1>5, ExitKeepsBursts
<1>6. CASE UNCHANGED skipVars
    BY <1>6 DEF skipVars, BurstInv, BurstsAreKept, DummyNeverIntercepted,
                WorkIsIntercepted, Intercepted, Working, Own
<1> QED
    BY <1>1, <1>2, <1>3, <1>4, <1>5, <1>6 DEF SkipNext

LEMMA BurstAlways == Spec /\ Hasty = {} => []BurstInv
<1>1. Init /\ Hasty = {} => BurstInv
    BY InitSkip, InitBurst
<1> QED
    BY <1>1, NextSkip, NextBurst, TableAlways, PTL DEF Spec

\* As long as games wait for the end of their sessions and the table does not
\* overflow, no dummy session is intercepted (bsd_bridge_service.cpp:74-78).
THEOREM NoDummyIsIntercepted == Spec /\ Hasty = {} => []DummyNeverIntercepted
<1>1. BurstInv => DummyNeverIntercepted
    BY DEF BurstInv
<1> QED
    BY <1>1, BurstAlways, PTL

\* And every other session of a game is (bsd_bridge_service.cpp:78-79).
THEOREM AllWorkIsIntercepted == Spec /\ Hasty = {} => []WorkIsIntercepted
<1>1. BurstInv => WorkIsIntercepted
    BY DEF BurstInv
<1> QED
    BY <1>1, BurstAlways, PTL
=============================================================================
