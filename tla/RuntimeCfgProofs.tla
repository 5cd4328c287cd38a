-------------------------- MODULE RuntimeCfgProofs --------------------------
(***************************************************************************)
(* The properties of RuntimeCfg for every set of texts, every size, every  *)
(* bound, with failures of the file system and losses of power at any      *)
(* step.                                                                   *)
(***************************************************************************)
EXTENDS RuntimeCfg, FiniteSetTheorems, SequenceTheorems, WellFoundedInduction,
        TLAPS

\* What the proof needs to know of a list.
IsList(q) == Len(q) \in Nat /\ (q = << >> <=> Len(q) = 0)

Saving == {"delete", "create", "write"}

Typed ==
    /\ conf \in Confs \cup {Absent}
    /\ selFile \in Nat \cup {Absent, Blank}
    /\ selIndex \in Int /\ arg \in Nat /\ choice \subseteq Nat
    /\ IsList(servers)

\* Before Main() has read its files there is nothing to select from, and only
\* a sysmodule that is up has an overlay that calls it.
Phases ==
    /\ boot \in {"off", "mitm", "up"}
    /\ boot # "up" => servers = << >>
    /\ haveSvc => boot = "up"
    /\ pc \in Saving \cup {"reload", "reconnect"} => haveSvc

\* The card never holds a selection that was not chosen, and lacks one only
\* when the first server is what to expect.
CardExplained ==
    /\ selFile \in Nat => selFile \in choice
    /\ selFile \notin Nat => 0 \in choice

SavesTheSelection ==
    pc \in Saving => selIndex = arg /\ {0, arg} \subseteq choice

\* The inductive invariant.
Inv ==
    /\ Typed /\ Phases /\ CardExplained /\ SavesTheSelection
    /\ SelectedInRange /\ SelectionSurvives

-----------------------------------------------------------------------------
(* Facts about lists.                                                      *)

\* slpnxServersParse returns a list, whatever the text is.
LEMMA ParseIsList ==
    ASSUME NEW text \in Seq(Line) PROVE IsList(Parse(text))
<1> DEFINE count == Cardinality(Entries(text))
           n == IF count < MaxServers THEN count ELSE MaxServers
<1>1. Len(text) \in Nat
    OBVIOUS
<1>2. IsFiniteSet(1..Len(text))
    BY <1>1, FS_Interval
<1>3. count \in Nat
    <2>1. Entries(text) \subseteq 1..Len(text)
        BY DEF Entries
    <2> QED
        BY <2>1, <1>2, FS_Subset, FS_CardinalityType
<1>4. n \in Nat
    <2>1. MaxServers \in Nat
        BY SizesAssumption
    <2> HIDE DEF count
    <2> QED
        BY <1>3, <2>1
<1>5. Parse(text) = [k \in 1..n |-> ServerOf(text[Nth(text, k)])]
    BY DEF Parse
<1> HIDE DEF n
<1>6. PICK q : q = [k \in 1..n |-> ServerOf(text[Nth(text, k)])]
    OBVIOUS
<1>7. q \in Seq({q[k] : k \in 1..n}) /\ Len(q) = n
    BY <1>4, <1>6
<1>8. IsList(q)
    BY <1>4, <1>7 DEF IsList
<1> QED
    BY <1>5, <1>6, <1>8

\* What a successful open means: the text is one of Confs.
LEMMA ReadableIsText ==
    ASSUME Typed, Readable(conf) PROVE conf \in Seq(Line)
<1>1. conf \in Confs \cup {Absent} /\ conf # Absent
    BY DEF Typed, Readable
<1> QED
    BY <1>1, ConfAssumption

-----------------------------------------------------------------------------
(* The steps that matter.                                                  *)

\* Both ends of ReloadServers keep the invariant, whichever of the two files
\* can be read.
LEMMA ReloadKeepsInv ==
    ASSUME Inv, ReloadServers, UNCHANGED <<card, arg>>,
           boot # "off", boot' = "up", pc' \notin Saving, pc \notin Saving,
           haveSvc' = haveSvc, pc' \in {pc, "load"}
    PROVE  Inv'
<1> USE DEF Inv, Typed, card
<1>1. PICK opened \in BOOLEAN, readable \in BOOLEAN :
          LET parsed == opened /\ Readable(conf)
          IN  /\ servers' = IF parsed THEN Parse(conf) ELSE servers
              /\ selIndex' = IF parsed
                             THEN IndexAfterReload(Len(Parse(conf)), readable)
                             ELSE selIndex
              /\ choice' = IF parsed /\ ~readable THEN choice \cup {0}
                           ELSE choice
    BY DEF ReloadServers, ReloadHistory, Outcomes
<1>2. Phases' /\ SavesTheSelection' /\ CardExplained'
    BY <1>1 DEF Phases, SavesTheSelection, CardExplained
<1>3. CASE ~(opened /\ Readable(conf))
    <2>1. servers' = servers /\ selIndex' = selIndex /\ choice' = choice
        BY <1>1, <1>3
    <2>2. Typed' /\ SelectedInRange'
        BY <2>1 DEF SelectedInRange
    <2>3. SelectionSurvives'
        BY <2>1 DEF SelectionSurvives, Phases
    <2> QED
        BY <1>2, <2>2, <2>3
<1>4. CASE opened /\ Readable(conf)
    <2>1. PICK q : q = Parse(conf)
        OBVIOUS
    <2>2. IsList(q)
        BY <1>4, <2>1, ParseIsList, ReadableIsText
    <2>3. PICK count \in Nat : count = Len(q)
        BY <2>2 DEF IsList
    <2>4. /\ servers' = q
          /\ selIndex' = IndexAfterReload(count, readable)
          /\ choice' = IF readable THEN choice ELSE choice \cup {0}
        BY <1>1, <1>4, <2>1, <2>3
    <2>5. \/ selIndex' \in Nat /\ selIndex' < count
          \/ selIndex' = -1 /\ count = 0
        BY <2>4, NamesAssumption DEF IndexAfterReload, PersistedIsGood
    <2>6. SelectedInRange'
        BY <2>2, <2>3, <2>4, <2>5 DEF SelectedInRange, IsList
    <2>7. Typed'
        BY <2>2, <2>4, <2>5
    <2>8. \/ PersistedIsGood(readable, count)
          \/ 0 \in choice'
          \/ \E index \in choice' : index >= count
        <3>1. CASE ~readable \/ selFile \notin Nat
            BY <2>4, <3>1 DEF CardExplained
        <3>2. CASE readable /\ selFile \in Nat
            <4>1. PICK f \in Nat : f = selFile
                BY <3>2
            <4>2. f \in choice' /\ (PersistedIsGood(readable, count) \/ f >= count)
                BY <2>4, <3>2, <4>1, NamesAssumption
                    DEF PersistedIsGood, CardExplained
            <4> QED
                BY <4>2
        <3> QED
            BY <3>1, <3>2
    <2>9. ASSUME count > 0
          PROVE  \/ selIndex' \in choice'
                 \/ selIndex' = 0 /\ \E index \in choice' : index >= count
        <3>1. CASE PersistedIsGood(readable, count)
            BY <2>4, <3>1 DEF IndexAfterReload, PersistedIsGood, CardExplained
        <3>2. CASE /\ ~PersistedIsGood(readable, count)
                   /\ selIndex < 0 \/ selIndex >= count
            BY <2>4, <2>8, <2>9, <3>2 DEF IndexAfterReload
        <3>3. CASE /\ ~PersistedIsGood(readable, count)
                   /\ ~(selIndex < 0 \/ selIndex >= count)
            <4>1. selIndex' = selIndex /\ choice \subseteq choice'
                BY <2>4, <3>3 DEF IndexAfterReload
            <4>2. servers # << >> /\ boot = "up"
                BY <3>3 DEF SelectedInRange, Phases
            <4>3. selIndex \in choice \/ selIndex = 0
                BY <4>2 DEF SelectionSurvives
            <4> QED
                BY <2>8, <3>3, <4>1, <4>3
        <3> QED
            BY <3>1, <3>2, <3>3
    <2>10. SelectionSurvives'
        BY <2>2, <2>3, <2>4, <2>9 DEF SelectionSurvives, IsList
    <2> QED
        BY <1>2, <2>6, <2>7, <2>10
<1> QED
    BY <1>3, <1>4

\* SelectServer takes an index of the list and no other.
LEMMA SelectKeepsInv ==
    ASSUME Inv, NEW index \in Nat, SelectServer(index)
    PROVE  Inv'
<1> USE DEF Inv, Typed, card
<1>1. CASE index >= Len(servers)
    <2>1. /\ UNCHANGED <<selIndex, servers, choice>> /\ arg' = index
          /\ UNCHANGED <<conf, selFile, boot, haveSvc>> /\ haveSvc
          /\ pc' = "reconnect"
        BY <1>1 DEF SelectServer
    <2>2. Typed' /\ CardExplained' /\ SavesTheSelection' /\ Phases'
        BY <2>1 DEF CardExplained, SavesTheSelection, Phases, Saving, IsList
    <2>3. SelectedInRange' /\ SelectionSurvives'
        BY <2>1 DEF SelectedInRange, SelectionSurvives
    <2> QED
        BY <2>2, <2>3
<1>2. CASE ~(index >= Len(servers))
    <2>1. /\ selIndex' = index /\ arg' = index /\ servers' = servers
          /\ choice' = choice \cup {index, 0} /\ pc' = "delete"
          /\ UNCHANGED <<conf, selFile, boot, haveSvc>> /\ haveSvc
        BY <1>2 DEF SelectServer
    <2>2. index < Len(servers) /\ servers # << >>
        BY <1>2 DEF IsList
    <2>3. Typed' /\ CardExplained' /\ SavesTheSelection' /\ Phases'
        BY <2>1 DEF CardExplained, SavesTheSelection, Phases, Saving, IsList
    <2>4. SelectedInRange'
        BY <2>1, <2>2 DEF SelectedInRange, IsList
    <2>5. SelectionSurvives'
        BY <2>1 DEF SelectionSurvives
    <2> QED
        BY <2>3, <2>4, <2>5
<1> QED
    BY <1>1, <1>2

-----------------------------------------------------------------------------
LEMMA InitInv == Init => Inv
BY NamesAssumption
   DEF Init, Inv, Typed, IsList, Phases, CardExplained, SavesTheSelection,
       Saving, SelectedInRange, SelectionSurvives

LEMMA NextInv == Inv /\ [Next]_vars => Inv'
<1> SUFFICES ASSUME Inv, [Next]_vars PROVE Inv'
    OBVIOUS
<1> DEFINE Same == UNCHANGED <<card, cfg, arg, choice>>
<1>1. ASSUME Same, Phases', SavesTheSelection', boot' = boot
      PROVE  Inv'
    BY <1>1 DEF Inv, Typed, IsList, CardExplained, SelectedInRange,
                SelectionSurvives, card, cfg
<1>2. CASE RegisterMitm
    BY <1>2 DEF RegisterMitm, Inv, Typed, IsList, CardExplained, Phases,
                SavesTheSelection, SelectedInRange, SelectionSurvives, card,
                cfg, bridge, overlay, history
<1>3. CASE LoadAtBoot
    BY <1>3, ReloadKeepsInv DEF LoadAtBoot, Inv, Phases, overlay, Saving, card
<1>4. CASE Reload
    BY <1>4, ReloadKeepsInv DEF Reload, Inv, Phases, Saving, card
<1>5. CASE BeginConnect \/ EndConnect \/ CloseIdleRelay
    BY <1>1, <1>5 DEF BeginConnect, EndConnect, CloseIdleRelay, Inv, Phases,
                      SavesTheSelection, cfg, overlay, history
<1>6. CASE OpenOverlay \/ LoadOverlayList \/ Refresh \/ CloseOverlay
    BY <1>1, <1>6 DEF OpenOverlay, LoadOverlayList, Refresh, CloseOverlay, Inv,
                      Phases, SavesTheSelection, Saving, cfg, history
<1>7. CASE \E index \in 0..MaxServers - 1 : SelectServer(index)
    <2>1. PICK index \in Nat : SelectServer(index)
        BY <1>7, SizesAssumption
    <2> QED
        BY <2>1, SelectKeepsInv
<1>8. CASE DeleteSelected \/ CreateSelected
    <2>1. /\ UNCHANGED <<conf, boot, servers, selIndex, haveSvc, arg, choice>>
          /\ selFile' \in {selFile, Absent, Blank}
          /\ pc \in Saving /\ pc' \in Saving \cup {"reconnect"}
        BY <1>8 DEF DeleteSelected, CreateSelected, Saving, cfg, history
    <2>2. Typed'
        BY <2>1 DEF Inv, Typed, IsList
    <2>3. Phases' /\ SavesTheSelection'
        BY <2>1 DEF Inv, Phases, SavesTheSelection, Saving
    <2>4. CardExplained'
        BY <2>1, NamesAssumption DEF Inv, CardExplained, SavesTheSelection
    <2>5. SelectedInRange' /\ SelectionSurvives'
        BY <2>1 DEF Inv, SelectedInRange, SelectionSurvives
    <2> QED
        BY <2>2, <2>3, <2>4, <2>5 DEF Inv
<1>10. CASE WriteSelected
    <2>1. /\ UNCHANGED <<conf, boot, servers, selIndex, haveSvc, arg>>
          /\ pc = "write" /\ pc' = "reconnect"
          /\ \/ selFile' = arg /\ choice' = {arg}
             \/ UNCHANGED <<selFile, choice>>
        BY <1>10 DEF WriteSelected, cfg
    <2>2. Typed'
        BY <2>1 DEF Inv, Typed, IsList
    <2>3. Phases' /\ SavesTheSelection'
        BY <2>1 DEF Inv, Phases, SavesTheSelection, Saving
    <2>4. CardExplained'
        BY <2>1 DEF Inv, Typed, CardExplained
    <2>5. selIndex = arg /\ SelectedInRange'
        BY <2>1 DEF Inv, SavesTheSelection, Saving, SelectedInRange
    <2>6. SelectionSurvives'
        BY <2>1, <2>5 DEF Inv, SelectionSurvives
    <2> QED
        BY <2>2, <2>3, <2>4, <2>5, <2>6 DEF Inv
<1>11. CASE ReconnectAfterClick
    BY <1>1, <1>11 DEF ReconnectAfterClick, Inv, Phases, SavesTheSelection,
                       Saving, cfg
<1>12. CASE Reconnect \/ Start \/ Stop
    BY <1>1, <1>12 DEF Reconnect, Start, Stop, Button, Inv, Phases,
                       SavesTheSelection, cfg
<1>13. CASE EditConf
    BY <1>13 DEF EditConf, Inv, Typed, Phases, CardExplained,
                 SavesTheSelection, SelectedInRange, SelectionSurvives, IsList,
                 cfg, overlay
<1>14. CASE PowerLoss
    BY <1>14 DEF PowerLoss, Inv, Typed, Phases, CardExplained,
                 SavesTheSelection, Saving, SelectedInRange, SelectionSurvives,
                 IsList, card, history
<1>15. CASE UNCHANGED vars
    BY <1>1, <1>15 DEF vars, card, cfg, overlay, history, Inv, Phases,
                       SavesTheSelection
<1> QED
    BY <1>2, <1>3, <1>4, <1>5, <1>6, <1>7, <1>8, <1>10, <1>11, <1>12,
       <1>13, <1>14, <1>15 DEF Next

LEMMA InvAlways == Spec => []Inv
BY InitInv, NextInv, PTL DEF Spec

\* For every list and every history of edits, reloads, failures and losses of
\* power, m_sel_index names an entry or is -1 with no list (runtime_cfg.cpp:
\* 79-97, 122-129).
THEOREM SelectionInRange == Spec => []SelectedInRange
<1>1. Inv => SelectedInRange
    BY DEF Inv
<1> QED
    BY <1>1, InvAlways, PTL

\* The selection survives reboots, whatever list is on the card and wherever
\* within PersistSelection the power is lost (runtime_cfg.cpp:50-73).
THEOREM SelectionIsDurable == Spec => []SelectionSurvives
<1>1. Inv => SelectionSurvives
    BY DEF Inv
<1> QED
    BY <1>1, InvAlways, PTL

-----------------------------------------------------------------------------
(* The click.                                                              *)

Valid == clicked # Nobody
Entry == clicked.list[clicked.index + 1]

\* While a click is remembered it is a row of a list and one of the choices,
\* and once the sysmodule is up its list and its selection are those.
ClickIsSelected ==
    Valid =>
        /\ clicked.index \in choice
        /\ clicked.index + 1 \in 1..Len(clicked.list)
        /\ boot = "up" => servers = clicked.list /\ selIndex = clicked.index

\* From the click to the end of the reconnection.
ClickInProgress ==
    pc \in Saving \cup {"reconnect"} =>
        /\ arg + 1 \in 1..Len(list)
        /\ pc \in Saving => clicked = Nobody
        /\ arg < Len(servers) => arg \in choice /\ selIndex = arg

\* What the relay is, or is being, connected to.
Targets ==
    /\ boot # "up" => {relay, connecting} = {NoRelay} \/ early
    /\ Valid /\ ~early => {relay, connecting} \subseteq {Entry, NoRelay}

ClickInv ==
    /\ IsFiniteSet(choice)
    /\ ClickIsSelected /\ ClickInProgress /\ Targets

\* A reload that keeps the click keeps the selection as well.
LEMMA ReloadKeepsClick ==
    ASSUME Inv, Inv', ClickInv, ReloadServers,
           boot # "off", boot' = "up", pc' \notin Saving \cup {"reconnect"},
           UNCHANGED <<bridge, early>>
    PROVE  ClickInv'
<1>1. PICK parsed \in BOOLEAN, readable \in BOOLEAN :
          /\ choice' = IF parsed /\ ~readable THEN choice \cup {0} ELSE choice
          /\ clicked' = IF servers' = clicked.list /\ Cardinality(choice') = 1
                        THEN clicked ELSE Nobody
          /\ ~parsed => UNCHANGED <<servers, selIndex>>
    BY DEF ReloadServers, ReloadHistory, Outcomes
<1>2. IsFiniteSet(choice') /\ choice \subseteq choice'
    BY <1>1, FS_AddElement DEF ClickInv
<1>3. ClickIsSelected'
    <2> SUFFICES ASSUME Valid'
                 PROVE  /\ clicked'.index \in choice'
                        /\ clicked'.index + 1 \in 1..Len(clicked'.list)
                        /\ servers' = clicked'.list
                        /\ selIndex' = clicked'.index
        BY DEF ClickIsSelected
    <2>1. clicked' = clicked /\ Valid /\ servers' = clicked.list
          /\ Cardinality(choice') = 1
        BY <1>1 DEF Valid
    <2>2. clicked.index \in choice /\ clicked.index + 1 \in 1..Len(servers')
        BY <2>1 DEF ClickInv, ClickIsSelected
    <2>3. PICK x : choice' = {x}
        BY <1>2, <2>1, FS_Singleton
    <2>4. x = clicked.index /\ x \in Nat
        BY <1>2, <2>2, <2>3 DEF Inv, Typed
    <2>5. x < Len(servers') /\ servers' # << >>
        BY <2>2, <2>4 DEF Inv, Typed, IsList
    <2>6. selIndex' = x
        BY <2>3, <2>4, <2>5 DEF Inv, SelectionSurvives, Typed, IsList
    <2> QED
        BY <1>2, <2>1, <2>2, <2>4, <2>6
<1>4. ClickInProgress'
    BY DEF ClickInProgress, Saving
<1>5. Targets'
    BY <1>1 DEF ClickInv, Targets, Valid, Entry, bridge
<1> QED
    BY <1>2, <1>3, <1>4, <1>5 DEF ClickInv

\* A connection made while the sysmodule is up goes to the selected server.
LEMMA TargetIsTheClick ==
    ASSUME Inv, ClickInv, boot = "up", Valid
    PROVE  SelectedHostPort = Entry
BY DEF ClickInv, ClickIsSelected, SelectedHostPort, Entry

LEMMA InitClick == Init => ClickInv
BY FS_Singleton
   DEF Init, ClickInv, ClickIsSelected, ClickInProgress, Targets, Valid, Saving

LEMMA NextClick == Inv /\ Inv' /\ ClickInv /\ [Next]_vars => ClickInv'
<1> SUFFICES ASSUME Inv, Inv', ClickInv, [Next]_vars PROVE ClickInv'
    OBVIOUS
<1> USE DEF ClickInv
<1>1. ASSUME UNCHANGED <<cfg, choice, clicked, boot>>, ClickInProgress', Targets'
      PROVE  ClickInv'
    BY <1>1 DEF ClickIsSelected, Valid, cfg
<1>2. ASSUME UNCHANGED <<cfg, choice, clicked, boot, arg, list, bridge, early>>,
             pc' \in Saving \cup {"reconnect"} =>
                pc \in Saving \cup {"reconnect"},
             pc' \in Saving => pc \in Saving
      PROVE  ClickInv'
    BY <1>1, <1>2 DEF ClickInProgress, Targets, Valid, Entry, cfg, bridge
<1>3. CASE RegisterMitm
    BY <1>3 DEF RegisterMitm, ClickIsSelected, ClickInProgress, Targets, Valid,
                Entry, cfg, bridge, overlay, history
<1>4. CASE LoadAtBoot
    BY <1>4, ReloadKeepsClick DEF LoadAtBoot, overlay, Inv, Phases
<1>5. CASE Reload
    BY <1>5, ReloadKeepsClick DEF Reload, Saving, Inv, Phases
<1>6. CASE BeginConnect
    <2>1. UNCHANGED <<cfg, choice, clicked, boot, overlay, relay>>
          /\ relay = NoRelay /\ connecting' = SelectedHostPort
          /\ early' = (boot = "mitm") /\ boot # "off"
        BY <1>6 DEF BeginConnect
    <2>2. Targets'
        BY <2>1, TargetIsTheClick
            DEF Targets, Valid, Entry, ClickIsSelected, Inv, Phases
    <2>3. ClickInProgress'
        BY <2>1 DEF ClickInProgress, cfg, overlay
    <2> QED
        BY <1>1, <2>1, <2>2, <2>3
<1>7. CASE EndConnect \/ CloseIdleRelay
    <2>1. UNCHANGED <<cfg, choice, clicked, boot, overlay, early>>
          /\ {relay', connecting'} \subseteq {relay, connecting, NoRelay}
        BY <1>7 DEF EndConnect, CloseIdleRelay, history
    <2>2. ClickInProgress'
        BY <2>1 DEF ClickInProgress, cfg, overlay
    <2>3. Targets'
        BY <2>1 DEF Targets, Valid, Entry
    <2> QED
        BY <1>1, <2>1, <2>2, <2>3
<1>8. CASE OpenOverlay \/ LoadOverlayList \/ Refresh \/ CloseOverlay
    <2>1. UNCHANGED <<cfg, choice, clicked, boot, bridge, early>>
          /\ pc' \notin Saving \cup {"reconnect"}
        BY <1>8 DEF OpenOverlay, LoadOverlayList, Refresh, CloseOverlay,
                    history, Saving
    <2>2. ClickInProgress'
        BY <2>1 DEF ClickInProgress
    <2>3. Targets'
        BY <2>1 DEF Targets, Valid, Entry, bridge
    <2> QED
        BY <1>1, <2>1, <2>2, <2>3
<1>9. CASE \E index \in 0..MaxServers - 1 : SelectServer(index)
    <2>1. PICK index \in Nat : SelectServer(index)
        BY <1>9, SizesAssumption
    <2>2. /\ index + 1 \in 1..Len(list) /\ arg' = index /\ haveSvc
          /\ UNCHANGED <<servers, boot, list, bridge, early>>
        BY <2>1 DEF SelectServer
    <2>3. CASE index >= Len(servers)
        <3>1. /\ pc' = "reconnect"
              /\ UNCHANGED <<selIndex, choice, clicked>>
            BY <2>1, <2>3 DEF SelectServer
        <3>2. ClickInProgress'
            <4>1. Len(servers) \in Nat /\ ~(index < Len(servers))
                BY <2>3 DEF Inv, Typed, IsList
            <4> QED
                BY <2>2, <3>1, <4>1 DEF ClickInProgress, Saving
        <3>3. Targets'
            BY <2>2, <3>1 DEF Targets, Valid, Entry, bridge
        <3> QED
            BY <1>1, <2>2, <3>1, <3>2, <3>3 DEF cfg
    <2>4. CASE ~(index >= Len(servers))
        <3>1. /\ pc' = "delete" /\ selIndex' = index
              /\ choice' = choice \cup {index, 0} /\ clicked' = Nobody
            BY <2>1, <2>4 DEF SelectServer
        <3>2. IsFiniteSet(choice')
            <4>1. choice' = (choice \cup {index}) \cup {0}
                BY <3>1
            <4> QED
                BY <4>1, FS_AddElement
        <3>3. boot = "up"
            BY <2>2 DEF Inv, Phases
        <3> QED
            BY <2>2, <3>1, <3>2, <3>3
                DEF ClickIsSelected, Targets, Valid, ClickInProgress, Saving,
                    bridge
    <2> QED
        BY <2>3, <2>4
<1>10. CASE DeleteSelected \/ CreateSelected
    BY <1>2, <1>10 DEF DeleteSelected, CreateSelected, Saving, history
<1>11. CASE WriteSelected
    <2>1. /\ UNCHANGED <<cfg, boot, arg, list, bridge, clicked, early>>
          /\ pc = "write" /\ pc' = "reconnect"
          /\ choice' = {arg} \/ choice' = choice
        BY <1>11 DEF WriteSelected
    <2>2. clicked = Nobody /\ selIndex = arg
        BY <2>1 DEF ClickInProgress, Saving, Inv, SavesTheSelection
    <2>3. IsFiniteSet(choice') /\ arg \in choice'
        BY <2>1, FS_Singleton DEF Inv, SavesTheSelection, Saving
    <2> QED
        BY <2>1, <2>2, <2>3 DEF ClickIsSelected, Targets, Valid,
            ClickInProgress, Saving, cfg, bridge
<1>12. CASE ReconnectAfterClick
    <2>1. /\ UNCHANGED <<cfg, boot, choice, connecting>> /\ connecting = NoRelay
          /\ pc = "reconnect" /\ pc' = "main" /\ early' = FALSE
          /\ relay' \in {SelectedHostPort, NoRelay}
          /\ clicked' = IF list = servers THEN [list |-> list, index |-> arg]
                        ELSE clicked
        BY <1>12 DEF ReconnectAfterClick, ForceReconnect, ConnectRelayLocked
    <2>2. boot = "up"
        BY <2>1 DEF Inv, Phases
    <2>3. ClickInProgress'
        BY <2>1 DEF ClickInProgress, Saving
    <2>4. CASE list = servers
        <3>1. arg \in Nat /\ arg + 1 \in 1..Len(servers)
              /\ arg \in choice /\ selIndex = arg
            BY <2>1, <2>4 DEF ClickInProgress, Inv, Typed, IsList
        <3>2. clicked'.list = servers /\ clicked'.index = arg
            BY <2>1, <2>4
        <3>3. SelectedHostPort = servers[arg + 1]
            BY <3>1 DEF SelectedHostPort
        <3> QED
            BY <2>1, <2>2, <2>3, <3>1, <3>2, <3>3
                DEF ClickIsSelected, Targets, Entry, cfg
    <2>5. CASE list # servers
        BY <1>1, <2>1, <2>2, <2>3, <2>5, TargetIsTheClick
            DEF Targets, Valid, Entry
    <2> QED
        BY <2>4, <2>5
<1>13. CASE Reconnect \/ Start \/ Stop
    <2>1. /\ UNCHANGED <<cfg, boot, choice, clicked, connecting, pc>>
          /\ connecting = NoRelay /\ pc = "main" /\ haveSvc
          /\ \/ relay' \in {SelectedHostPort, NoRelay} /\ early' = FALSE
             \/ relay' \in {relay, NoRelay} /\ early' = early
        BY <1>13 DEF Reconnect, Start, Stop, Button, ForceReconnect, StartRelay,
                     StopRelay, ConnectRelayLocked
    <2>2. boot = "up"
        BY <2>1 DEF Inv, Phases
    <2>3. ClickInProgress'
        BY <2>1 DEF ClickInProgress, Saving
    <2>4. Targets'
        BY <2>1, <2>2, TargetIsTheClick DEF Targets, Valid, Entry
    <2> QED
        BY <1>1, <2>1, <2>3, <2>4
<1>14. CASE EditConf
    BY <1>2, <1>14 DEF EditConf, overlay
<1>15. CASE PowerLoss
    BY <1>15 DEF PowerLoss, ClickIsSelected, ClickInProgress, Targets, Valid,
                 Entry, Saving, history
<1>16. CASE UNCHANGED vars
    BY <1>2, <1>16 DEF vars, overlay, history
<1> QED
    BY <1>3, <1>4, <1>5, <1>6, <1>7, <1>8, <1>9, <1>10, <1>11, <1>12, <1>13,
       <1>14, <1>15, <1>16 DEF Next

\* After a click the relay is the server that was clicked, whichever thread
\* connects it and also after a reboot (overlay main.cpp:61-69,
\* bsd_bridge_service.cpp:948-980).
THEOREM ClickReachesTheServer == Spec => []RelayIsTheChosenOne
<1>1. Inv /\ ClickInv => RelayIsTheChosenOne
    BY DEF ClickInv, Targets, RelayIsTheChosenOne, Valid, Entry
<1> QED
    BY <1>1, InvAlways, InitClick, NextClick, PTL DEF Spec
-----------------------------------------------------------------------------
(* What the overlay shows.                                                 *)

\* The pages of the overlay, from the main page to the end of a click.
Pages == {"main", "reconnect"} \cup Saving

\* Since the overlay was opened servers.conf was read and not edited; and it is
\* there and fits into the overlay's buffer.
Synced == haveSvc /\ undisturbed
Fits   == conf # Absent /\ Size(conf) <= OverlayBytes

\* The sysmodule has the text's servers, the overlay has them too, and the row
\* it marks, or is about to mark, is the selected one.
TruthInv ==
    /\ Synced /\ pc \in {"load"} \cup Pages => servers = Parse(conf)
    /\ Synced /\ Fits /\ pc \in Pages => list = Parse(conf)
    /\ Synced /\ Fits /\ pc = "main" => gsel = selIndex
    /\ Synced /\ Fits /\ pc \in Pages \ {"main"} => arg = selIndex

\* A text without lines has no servers.
LEMMA ParseOfNothing == Parse(<< >>) = << >>
<1>1. Entries(<< >>) = {}
    BY DEF Entries
<1>2. Cardinality({}) = 0 /\ MaxServers \in Nat /\ 0 < MaxServers
    BY FS_EmptySet, SizesAssumption
<1>3. Parse(<< >>) = [n \in 1..0 |-> ServerOf(<< >>[Nth(<< >>, n)])]
    BY <1>1, <1>2 DEF Parse
<1> QED
    BY <1>3

\* A text that fits is read whole.
LEMMA OverlayReadsIt ==
    ASSUME Fits PROVE OverlayLists(conf) = {Parse(conf)}
BY ParseOfNothing DEF Fits, OverlayLists

\* A step that leaves servers.conf, the list and the selection alone and opens
\* no page.
LEMMA TruthKept ==
    ASSUME TruthInv, UNCHANGED <<conf, cfg, arg, list>>,
           Synced' => Synced,
           \/ pc' = pc /\ gsel' \in {gsel, selIndex}
           \/ pc \in Saving /\ pc' \in Pages \ {"main"}
    PROVE  TruthInv'
<1>1. Fits' = Fits
    BY DEF Fits
<1> QED
    BY <1>1 DEF TruthInv, cfg, Pages, Saving

LEMMA NextTruth == Inv /\ TruthInv /\ [Next]_vars => TruthInv'
<1> SUFFICES ASSUME Inv, TruthInv, [Next]_vars PROVE TruthInv'
    OBVIOUS
<1>1. ASSUME ~Synced' PROVE TruthInv'
    BY <1>1 DEF TruthInv
<1>2. ASSUME pc' \notin {"load"} \cup Pages PROVE TruthInv'
    BY <1>2 DEF TruthInv, Pages
<1>3. CASE LoadAtBoot
    BY <1>1, <1>3 DEF LoadAtBoot, Inv, Phases, overlay, Synced
<1>4. CASE Reload
    <2>1. pc' = "load" /\ UNCHANGED conf
        BY <1>4 DEF Reload, card
    <2>2. undisturbed' => servers' = Parse(conf)
        BY <1>4 DEF Reload, ReloadServers, ReloadHistory
    <2> QED
        BY <2>1, <2>2 DEF TruthInv, Synced, Pages, Saving
<1>5. CASE LoadOverlayList
    <2>1. /\ pc = "load" /\ pc' = "main" /\ list' \in OverlayLists(conf)
          /\ haveSvc => gsel' = selIndex
          /\ UNCHANGED <<conf, cfg, haveSvc, undisturbed>>
        BY <1>5 DEF LoadOverlayList, card, history
    <2>2. Fits => list' = Parse(conf)
        BY <2>1, OverlayReadsIt
    <2>3. Fits' = Fits /\ Synced' = Synced
        BY <2>1 DEF Fits, Synced
    <2> QED
        BY <2>1, <2>2, <2>3 DEF TruthInv, Synced, Pages, Saving, cfg
<1>6. CASE \E index \in 0..MaxServers - 1 : SelectServer(index)
    <2>1. PICK index \in Nat : SelectServer(index)
        BY <1>6, SizesAssumption
    <2>2. /\ pc = "main" /\ index + 1 \in 1..Len(list) /\ arg' = index
          /\ UNCHANGED <<conf, servers, list, haveSvc, undisturbed>>
          /\ pc' \in Pages \ {"main"}
          /\ ~(index >= Len(servers)) => selIndex' = index
        BY <2>1 DEF SelectServer, card, Pages, Saving
    <2>3. Fits' = Fits /\ Synced' = Synced
        BY <2>2 DEF Fits, Synced
    <2>4. ASSUME Synced, Fits PROVE selIndex' = index
        <3>1. list = servers
            BY <2>2, <2>4 DEF TruthInv, Pages
        <3>2. ~(index >= Len(servers))
            BY <2>2, <3>1 DEF Inv, Typed, IsList
        <3> QED
            BY <2>2, <3>2
    <2> QED
        BY <2>2, <2>3, <2>4 DEF TruthInv, Pages, Saving
<1>7. CASE ReconnectAfterClick
    <2>1. /\ pc = "reconnect" /\ pc' = "main" /\ gsel' = arg
          /\ UNCHANGED <<conf, cfg, list, haveSvc, undisturbed>>
        BY <1>7 DEF ReconnectAfterClick, card
    <2>2. Fits' = Fits /\ Synced' = Synced
        BY <2>1 DEF Fits, Synced
    <2> QED
        BY <2>1, <2>2 DEF TruthInv, Pages, Saving, cfg
<1>8. CASE \/ RegisterMitm \/ BeginConnect \/ EndConnect \/ CloseIdleRelay
           \/ Refresh \/ Reconnect \/ Start \/ Stop \/ UNCHANGED vars
    <2>1. /\ UNCHANGED <<conf, cfg, arg, list, haveSvc, undisturbed, pc>>
          /\ gsel' \in {gsel, selIndex}
        <3>1. CASE RegisterMitm \/ BeginConnect \/ EndConnect \/ CloseIdleRelay
            BY <3>1 DEF RegisterMitm, BeginConnect, EndConnect, CloseIdleRelay,
                        card, overlay, history
        <3>2. CASE Refresh \/ Reconnect \/ Start \/ Stop
            BY <3>2 DEF Refresh, Reconnect, Start, Stop, Button, card, history
        <3>3. CASE UNCHANGED vars
            BY <3>3 DEF vars, card, overlay, history
        <3> QED
            BY <1>8, <3>1, <3>2, <3>3
    <2> QED
        BY <2>1, TruthKept DEF Synced
<1>9. CASE DeleteSelected \/ CreateSelected \/ WriteSelected
    <2>1. /\ UNCHANGED <<conf, cfg, arg, list, gsel, haveSvc, undisturbed>>
          /\ pc \in Saving /\ pc' \in Pages \ {"main"}
        BY <1>9 DEF DeleteSelected, CreateSelected, WriteSelected, history,
                    Saving, Pages
    <2> QED
        BY <2>1, TruthKept DEF Synced
<1>10. CASE OpenOverlay
    BY <1>1, <1>2, <1>10 DEF OpenOverlay, Synced, Pages, Saving
<1>11. CASE CloseOverlay \/ PowerLoss \/ EditConf
    BY <1>1, <1>11 DEF CloseOverlay, PowerLoss, EditConf, Synced
<1> QED
    BY <1>3, <1>4, <1>5, <1>6, <1>7, <1>8, <1>9, <1>10, <1>11 DEF Next

\* Opening the overlay re-syncs the sysmodule's list, and the two stay in step
\* through clicks, saves, reconnections and connections of the other thread
\* (overlay main.cpp:61-69, 247-258; runtime_cfg.cpp:75-99).
THEOREM OverlayIsTrue == Spec => []OverlayShowsTheTruth
<1>1. Init => TruthInv
    BY DEF Init, TruthInv, Synced
<1>2. TruthInv => OverlayShowsTheTruth
    BY DEF TruthInv, OverlayShowsTheTruth, Synced, Fits, Pages
<1> QED
    BY <1>1, <1>2, NextTruth, InvAlways, PTL DEF Spec
-----------------------------------------------------------------------------
(* Types.                                                                  *)

\* A line that is an entry gives a server.
LEMMA EntryIsServer ==
    ASSUME NEW line \in Line, IsEntry(line) PROVE ServerOf(line) \in Server
<1>1. PICK s : s = ServerOf(line)
    OBVIOUS
<1>2. s.port \in PortNumber
    BY <1>1 DEF IsEntry
<1>3. PICK port : s = [host |-> line.host, tail |-> line.words = 3 /\ line.colon,
                       port |-> port]
    BY <1>1 DEF ServerOf
<1>4. line.host \in Host /\ line.colon \in BOOLEAN
    BY DEF Line
<1>5. (line.words = 3 /\ line.colon) \in BOOLEAN
    BY <1>4
<1>6. port \in PortNumber
    BY <1>2, <1>3
<1> QED
    BY <1>1, <1>3, <1>4, <1>5, <1>6 DEF Server

LEMMA LeastOf ==
    ASSUME NEW S \in SUBSET Nat, S # {} PROVE \E k \in S : \A j \in S : ~(j < k)
<1>1. PICK k \in S : \A j \in S : ~(<<j, k>> \in OpToRel(<, Nat))
    BY NatLessThanWellFounded, WFMin
<1> QED
    BY <1>1 DEF OpToRel

\* A finite set of positions has a first one up to which there are n.
LEMMA RankExists ==
    ASSUME NEW len \in Nat, NEW E \in SUBSET (1..len), NEW n \in Nat, 1 <= n,
           n <= Cardinality(E)
    PROVE  \E k \in E : Cardinality({j \in E : j <= k}) = n
<1>1. PICK U : U = [k \in Nat |-> {j \in E : j <= k}]
    OBVIOUS
<1>2. \A k \in Nat : U[k] = {j \in E : j <= k}
    BY <1>1
<1>3. \A k \in Nat : \A j : j \in U[k] <=> j \in E /\ j <= k
    BY <1>2
<1>4. \A j \in E : j \in Nat /\ 1 <= j /\ j <= len
    OBVIOUS
<1>5. IsFiniteSet(E)
    <2>1. IsFiniteSet(1..len)
        BY FS_Interval
    <2> QED
        BY <2>1, FS_Subset
<1>6. ASSUME NEW k \in Nat
      PROVE  IsFiniteSet(U[k]) /\ Cardinality(U[k]) \in Nat
    <2>1. U[k] \in SUBSET E
        BY <1>3
    <2> QED
        BY <1>5, <2>1, FS_Subset, FS_CardinalityType
<1>7. PICK S \in SUBSET Nat : \A k \in Nat : k \in S <=> n <= Cardinality(U[k])
    <2>1. {k \in Nat : n <= Cardinality(U[k])} \in SUBSET Nat
        OBVIOUS
    <2> QED
        BY <2>1
<1>8. len \in S
    <2>1. U[len] = E
        BY <1>3, <1>4
    <2> QED
        BY <1>7, <2>1
<1>9. PICK k \in S : \A j \in S : ~(j < k)
    BY <1>8, LeastOf
<1>10. k \in Nat /\ n <= Cardinality(U[k]) /\ \A j \in S : ~(j < k)
    BY <1>7, <1>9
<1>11. k # 0
    <2>1. ASSUME NEW j \in E PROVE ~(j <= 0)
        BY <1>4
    <2>2. U[0] = {}
        BY <1>3, <2>1
    <2> QED
        BY <1>10, <2>2, FS_EmptySet
<1>12. PICK p \in Nat : p + 1 = k /\ p < k /\ \A j \in Nat : j <= k <=> j <= p \/ j = k
    <2>1. k - 1 \in Nat /\ (k - 1) + 1 = k /\ k - 1 < k
          /\ \A j \in Nat : j <= k <=> j <= k - 1 \/ j = k
        BY <1>10, <1>11
    <2> QED
        BY <2>1
<1>13. Cardinality(U[p]) < n
    <2>1. ~(n <= Cardinality(U[p]))
        BY <1>7, <1>10, <1>12
    <2>2. PICK c \in Nat : c = Cardinality(U[p])
        BY <1>6
    <2> QED
        BY <2>1, <2>2
<1>14. k \in E
    <2>1. ASSUME k \notin E PROVE U[k] = U[p]
        BY <1>3, <1>4, <1>10, <1>12, <2>1
    <2>2. PICK c \in Nat : c = Cardinality(U[p])
        BY <1>6
    <2> QED
        BY <1>10, <1>13, <2>1, <2>2
<1>15. Cardinality(U[k]) = n
    <2>1. U[k] = U[p] \cup {k}
        BY <1>3, <1>4, <1>10, <1>12, <1>14
    <2>2. k \notin U[p]
        BY <1>3, <1>10, <1>12
    <2>3. PICK c \in Nat : c = Cardinality(U[p])
        BY <1>6
    <2>4. Cardinality(U[k]) = c + 1
        BY <1>6, <2>1, <2>2, <2>3, FS_AddElement
    <2> QED
        BY <1>10, <1>13, <2>3, <2>4
<1> QED
    BY <1>2, <1>10, <1>14, <1>15

\* There is an n-th entry for every n up to their number.
LEMMA NthExists ==
    ASSUME NEW text \in Seq(Line), NEW n \in Nat, 1 <= n,
           n <= Cardinality(Entries(text))
    PROVE  Nth(text, n) \in Entries(text)
<1>1. PICK len \in Nat : len = Len(text)
    BY LenProperties
<1>2. Entries(text) \in SUBSET (1..len)
    BY <1>1 DEF Entries
<1>3. \E k \in Entries(text) : Cardinality({j \in Entries(text) : j <= k}) = n
    BY <1>2, RankExists
<1> QED
    BY <1>3 DEF Nth

\* slpnxServersParse yields servers, no more than g_servers holds.
LEMMA ParseIsServers ==
    ASSUME NEW text \in Seq(Line)
    PROVE  Parse(text) \in Seq(Server) /\ Len(Parse(text)) <= MaxServers
<1>1. PICK len \in Nat : len = Len(text)
    BY LenProperties
<1>2. PICK count : count = Cardinality(Entries(text))
    OBVIOUS
<1>3. Entries(text) \subseteq 1..len /\ count \in Nat
    <2>1. Entries(text) \subseteq 1..len
        BY <1>1 DEF Entries
    <2>2. IsFiniteSet(1..len)
        BY FS_Interval
    <2> QED
        BY <1>2, <2>1, <2>2, FS_Subset, FS_CardinalityType
<1>4. PICK m : m = IF count < MaxServers THEN count ELSE MaxServers
    OBVIOUS
<1>5. m \in Nat /\ m <= count /\ m <= MaxServers
    BY <1>3, <1>4, SizesAssumption
<1>6. PICK q : q = [n \in 1..m |-> ServerOf(text[Nth(text, n)])]
    OBVIOUS
<1>7. ASSUME NEW n \in 1..m PROVE q[n] \in Server
    <2>1. n \in Nat /\ 1 <= n /\ n <= count
        BY <1>3, <1>5
    <2>2. Nth(text, n) \in Entries(text)
        BY <1>2, <2>1, NthExists
    <2>3. text[Nth(text, n)] \in Line /\ IsEntry(text[Nth(text, n)])
        <3>1. Nth(text, n) \in 1..Len(text) /\ IsEntry(text[Nth(text, n)])
            BY <2>2 DEF Entries
        <3> QED
            BY <3>1, ElementOfSeq
    <2> QED
        BY <1>6, <2>3, EntryIsServer
<1>8. q \in Seq(Server) /\ Len(q) = m
    <2>1. q \in [1..m -> Server]
        BY <1>6, <1>7
    <2> QED
        BY <1>5, <2>1, LenProperties
<1>9. Parse(text) = q
    BY <1>2, <1>4, <1>6 DEF Parse
<1> QED
    BY <1>5, <1>8, <1>9

\* A line cut short is a line ...
LEMMA CutIsLine ==
    ASSUME NEW line \in Line, NEW cut \in CutLines(line) PROVE cut \in Line
<1>1. /\ line.words \in 0..3 /\ line.host \in Host /\ line.colon \in BOOLEAN
      /\ line.third \in Int /\ line.colonPort \in Int /\ line.bytes \in Nat
    BY DEF Line
<1>2. \A n \in Int : Begun(n) \subseteq Int
    BY DEF Begun
<1>3. CASE \E w \in 0..line.words : cut = [line EXCEPT !.words = w]
    <2>1. PICK w \in 0..3 : cut = [line EXCEPT !.words = w]
        BY <1>1, <1>3
    <2> QED
        BY <2>1 DEF Line
<1>4. CASE \E h \in Host : cut = [line EXCEPT !.words = 2, !.host = h, !.colon = FALSE]
    <2>1. PICK h \in Host :
              cut = [line EXCEPT !.words = 2, !.host = h, !.colon = FALSE]
        BY <1>4
    <2>2. cut = [words |-> 2, host |-> h, third |-> line.third, colon |-> FALSE,
                 colonPort |-> line.colonPort, bytes |-> line.bytes]
        BY <2>1 DEF Line
    <2>3. 2 \in 0..3 /\ FALSE \in BOOLEAN
        OBVIOUS
    <2> QED
        BY <1>1, <2>2, <2>3 DEF Line
<1>5. CASE \E n \in Begun(line.colonPort) :
               cut = [line EXCEPT !.words = 2, !.colonPort = n]
    <2>1. PICK n \in Int : cut = [line EXCEPT !.words = 2, !.colonPort = n]
        BY <1>1, <1>2, <1>5
    <2>2. cut = [words |-> 2, host |-> line.host, third |-> line.third,
                 colon |-> line.colon, colonPort |-> n, bytes |-> line.bytes]
        BY <2>1 DEF Line
    <2>3. 2 \in 0..3
        OBVIOUS
    <2> QED
        BY <1>1, <2>2, <2>3 DEF Line
<1>6. CASE \E n \in Begun(line.third) : cut = [line EXCEPT !.third = n]
    <2>1. PICK n \in Int : cut = [line EXCEPT !.third = n]
        BY <1>1, <1>2, <1>6
    <2> QED
        BY <2>1 DEF Line
<1> QED
    BY <1>3, <1>4, <1>5, <1>6 DEF CutLines

\* ... and a text that ends in one is a text.
LEMMA CutIsText ==
    ASSUME NEW text \in Seq(Line), NEW m \in Nat, m + 1 <= Len(text),
           NEW line \in CutLines(text[m + 1])
    PROVE  Append(SubSeq(text, 1, m), line) \in Seq(Line)
<1>1. PICK len \in Nat : len = Len(text) /\ \A j \in 1..len : text[j] \in Line
    BY LenProperties
<1>2. text[m + 1] \in Line
    BY <1>1
<1>3. line \in Line
    BY <1>2, CutIsLine
<1>4. SubSeq(text, 1, m) \in Seq(Line)
    <2>1. 1 \in Int /\ m \in Int /\ \A j \in 1..m : text[j] \in Line
        BY <1>1
    <2> QED
        BY <2>1, SubSeqProperties
<1> QED
    BY <1>3, <1>4, AppendProperties

\* Whatever the overlay makes of a text, it is a list of servers.
LEMMA OverlayListsTyped ==
    ASSUME NEW text \in Confs \cup {Absent}, NEW q \in OverlayLists(text)
    PROVE  q \in Seq(Server) /\ Len(q) <= MaxServers
<1>1. CASE text \in {Absent, << >>}
    <2>1. q = << >>
        BY <1>1 DEF OverlayLists
    <2> QED
        BY <2>1, SizesAssumption
<1>2. CASE text \notin {Absent, << >>} /\ Size(text) <= OverlayBytes
    <2>1. q = Parse(text) /\ text \in Seq(Line)
        BY <1>2, ConfAssumption DEF OverlayLists
    <2> QED
        BY <2>1, ParseIsServers
<1>3. CASE text \notin {Absent, << >>} /\ ~(Size(text) <= OverlayBytes)
    <2>1. text \in Seq(Line) /\ text # << >>
        BY <1>3, ConfAssumption
    <2>2. PICK len \in Nat : len = Len(text)
        BY <2>1, LenProperties
    <2>3. len - 1 \in Nat
        BY <2>1, <2>2, EmptySeq
    <2>4. PICK K : K = {k \in 1..Len(text) : Size(SubSeq(text, 1, k)) <= OverlayBytes}
        OBVIOUS
    <2>5. K \in SUBSET (1..(len - 1))
        <3>1. SubSeq(text, 1, len) = text
            BY <2>1, <2>2
        <3>2. len \notin K
            BY <1>3, <2>4, <3>1
        <3> QED
            BY <2>2, <2>3, <2>4, <3>2
    <2>6. PICK m \in Nat : m = Cardinality(K) /\ m + 1 <= len
        <3>1. IsFiniteSet(1..(len - 1)) /\ Cardinality(1..(len - 1)) <= len - 1
            BY <2>3, FS_Interval
        <3>2. IsFiniteSet(K) /\ Cardinality(K) <= Cardinality(1..(len - 1))
            BY <2>5, <3>1, FS_Subset
        <3>3. Cardinality(K) \in Nat /\ Cardinality(1..(len - 1)) \in Nat
            BY <3>1, <3>2, FS_CardinalityType
        <3> QED
            BY <2>3, <3>1, <3>2, <3>3
    <2>7. PICK line \in CutLines(text[m + 1]) :
              q = Parse(Append(SubSeq(text, 1, m), line))
        BY <1>3, <2>4, <2>6 DEF OverlayLists
    <2>8. PICK cut \in Seq(Line) : q = Parse(cut)
        BY <2>1, <2>2, <2>6, <2>7, CutIsText
    <2> QED
        BY <2>8, ParseIsServers
<1> QED
    BY <1>1, <1>2, <1>3

\* The parts of TypeOK that Inv does not have.
Lists ==
    /\ servers \in Seq(Server) /\ Len(servers) <= MaxServers
    /\ list \in Seq(Server) /\ Len(list) <= MaxServers
    /\ clicked.list \in Seq(Server) /\ clicked.index \in Int
Links ==
    {relay, connecting} \subseteq Server \cup {Default, NoRelay}
Flags ==
    /\ enabled \in BOOLEAN /\ attempted \in BOOLEAN /\ haveSvc \in BOOLEAN
    /\ early \in BOOLEAN /\ undisturbed \in BOOLEAN
Pointers ==
    /\ pc \in {"closed", "reload", "load", "main", "delete", "create", "write",
               "reconnect"}
    /\ gsel \in Int

LEMMA NextFlags == Flags /\ [Next]_vars => Flags'
<1> SUFFICES ASSUME Flags, [Next]_vars PROVE Flags'
    OBVIOUS
<1> USE DEF Flags
<1>1. CASE BeginConnect
    <2>1. (boot = "mitm") \in BOOLEAN
        OBVIOUS
    <2> QED
        BY <1>1, <2>1, Zenon DEF BeginConnect, overlay
<1>2. CASE RegisterMitm \/ EndConnect \/ CloseIdleRelay
    BY <1>2 DEF RegisterMitm, EndConnect, CloseIdleRelay, bridge, overlay, history
<1>3. CASE LoadAtBoot \/ Reload
    <2>1. ReloadServers /\ UNCHANGED <<bridge, haveSvc, early>>
        BY <1>3 DEF LoadAtBoot, Reload, overlay
    <2>2. PICK parsed, readable : ReloadHistory(parsed, readable)
        BY <2>1 DEF ReloadServers
    <2>3. (undisturbed /\ parsed) \in BOOLEAN
        OBVIOUS
    <2>4. undisturbed' \in BOOLEAN
        BY <2>2, <2>3, Zenon DEF ReloadHistory
    <2> QED
        BY <2>1, <2>4 DEF bridge
<1>4. CASE OpenOverlay
    <2>1. (boot = "up") \in BOOLEAN
        OBVIOUS
    <2>2. haveSvc' \in BOOLEAN
        BY <1>4, <2>1, Zenon DEF OpenOverlay
    <2> QED
        BY <1>4, <2>2 DEF OpenOverlay, bridge
<1>5. CASE LoadOverlayList \/ Refresh \/ CloseOverlay
    BY <1>5 DEF LoadOverlayList, Refresh, CloseOverlay, bridge, history
<1>6. CASE \E index \in 0..MaxServers - 1 : SelectServer(index)
    BY <1>6 DEF SelectServer, bridge
<1>7. CASE DeleteSelected \/ CreateSelected \/ WriteSelected
    BY <1>7 DEF DeleteSelected, CreateSelected, WriteSelected, bridge, history
<1>8. CASE ReconnectAfterClick
    BY <1>8 DEF ReconnectAfterClick, ForceReconnect, ConnectRelayLocked
<1>9. CASE Reconnect \/ Start \/ Stop
    BY <1>9 DEF Reconnect, Start, Stop, Button, ForceReconnect, StartRelay,
                StopRelay, ConnectRelayLocked
<1>10. CASE EditConf \/ PowerLoss \/ UNCHANGED vars
    BY <1>10 DEF EditConf, PowerLoss, vars, bridge, overlay, history
<1> QED
    BY <1>1, <1>2, <1>3, <1>4, <1>5, <1>6, <1>7, <1>8, <1>9, <1>10 DEF Next

LEMMA NextPointers == Inv /\ Pointers /\ [Next]_vars => Pointers'
<1> SUFFICES ASSUME Inv, Pointers, [Next]_vars PROVE Pointers'
    OBVIOUS
<1> USE DEF Pointers
<1>1. CASE \/ RegisterMitm \/ BeginConnect \/ EndConnect \/ CloseIdleRelay
           \/ LoadAtBoot \/ EditConf \/ UNCHANGED vars
    BY <1>1 DEF RegisterMitm, BeginConnect, EndConnect, CloseIdleRelay,
                LoadAtBoot, EditConf, vars, overlay
<1>2. CASE OpenOverlay \/ Reload \/ CloseOverlay \/ PowerLoss
    BY <1>2 DEF OpenOverlay, Reload, CloseOverlay, PowerLoss
<1>3. CASE LoadOverlayList \/ Refresh \/ Reconnect \/ Start \/ Stop
    BY <1>3 DEF LoadOverlayList, Refresh, Reconnect, Start, Stop, Button, Inv, Typed
<1>4. CASE \E index \in 0..MaxServers - 1 : SelectServer(index)
    BY <1>4 DEF SelectServer
<1>5. CASE DeleteSelected \/ CreateSelected \/ WriteSelected
    BY <1>5 DEF DeleteSelected, CreateSelected, WriteSelected
<1>6. CASE ReconnectAfterClick
    BY <1>6 DEF ReconnectAfterClick, Inv, Typed
<1> QED
    BY <1>1, <1>2, <1>3, <1>4, <1>5, <1>6 DEF Next

LEMMA NobodyTyped ==
    /\ << >> \in Seq(Server) /\ Len(<< >>) <= MaxServers
    /\ Nobody.list \in Seq(Server) /\ Nobody.index \in Int
<1>1. Nobody.list = << >> /\ Nobody.index = -1
    BY DEF Nobody
<1>2. << >> \in Seq(Server) /\ Len(<< >>) <= MaxServers /\ -1 \in Int
    BY SizesAssumption
<1> QED
    BY <1>1, <1>2

\* Only a reload changes the sysmodule's list, only the overlay's start its
\* own, and a click is remembered with the list it was made in.
LEMMA NextLists == Inv /\ Lists /\ [Next]_vars => Lists'
<1> SUFFICES ASSUME Inv, Lists, [Next]_vars PROVE Lists'
    OBVIOUS
<1>1. /\ << >> \in Seq(Server) /\ Len(<< >>) <= MaxServers
      /\ Nobody.list \in Seq(Server) /\ Nobody.index \in Int
    BY NobodyTyped
<1>2. ASSUME UNCHANGED <<servers, list>>, clicked' \in {clicked, Nobody}
      PROVE  Lists'
    BY <1>1, <1>2 DEF Lists
<1>3. CASE LoadAtBoot \/ Reload
    <2>1. ReloadServers /\ UNCHANGED list
        BY <1>3 DEF LoadAtBoot, Reload, overlay
    <2>2. servers' = servers \/ (Readable(conf) /\ servers' = Parse(conf))
        BY <2>1 DEF ReloadServers
    <2>3. clicked' \in {clicked, Nobody}
        BY <2>1 DEF ReloadServers, ReloadHistory
    <2>4. servers' \in Seq(Server) /\ Len(servers') <= MaxServers
        BY <2>2, ReadableIsText, ParseIsServers DEF Lists, Inv
    <2> QED
        BY <1>1, <2>1, <2>3, <2>4 DEF Lists
<1>4. CASE LoadOverlayList
    <2>1. list' \in OverlayLists(conf) /\ UNCHANGED <<servers, clicked>>
        BY <1>4 DEF LoadOverlayList, cfg, history
    <2>2. list' \in Seq(Server) /\ Len(list') <= MaxServers
        BY <2>1, OverlayListsTyped DEF Inv, Typed
    <2> QED
        BY <2>1, <2>2 DEF Lists
<1>5. CASE ReconnectAfterClick
    <2>1. /\ UNCHANGED <<servers, list>>
          /\ clicked' = clicked \/ clicked' = [list |-> list, index |-> arg]
        BY <1>5 DEF ReconnectAfterClick, cfg
    <2>2. arg \in Int
        BY DEF Inv, Typed
    <2> QED
        BY <2>1, <2>2 DEF Lists
<1>6. CASE CloseOverlay \/ PowerLoss
    <2>1. servers' \in {servers, << >>} /\ list' = << >> /\ UNCHANGED clicked
        BY <1>6 DEF CloseOverlay, PowerLoss, cfg, history
    <2> QED
        BY <1>1, <2>1 DEF Lists
<1>7. CASE \E index \in 0..MaxServers - 1 : SelectServer(index)
    BY <1>2, <1>7 DEF SelectServer
<1>8. CASE \/ RegisterMitm \/ BeginConnect \/ EndConnect \/ CloseIdleRelay
           \/ EditConf \/ UNCHANGED vars
    BY <1>2, <1>8 DEF RegisterMitm, BeginConnect, EndConnect, CloseIdleRelay,
                      EditConf, vars, cfg, overlay, history
<1>9. CASE DeleteSelected \/ CreateSelected \/ WriteSelected
    BY <1>2, <1>9 DEF DeleteSelected, CreateSelected, WriteSelected, cfg, history
<1>10. CASE OpenOverlay \/ Refresh \/ Reconnect \/ Start \/ Stop
    BY <1>2, <1>10 DEF OpenOverlay, Refresh, Reconnect, Start, Stop, Button, cfg,
                       history
<1> QED
    BY <1>3, <1>4, <1>5, <1>6, <1>7, <1>8, <1>9, <1>10 DEF Next

\* The relay is connected to an entry of the list or to the default.
LEMMA NextLinks == Inv /\ Lists /\ Links /\ [Next]_vars => Links'
<1> SUFFICES ASSUME Inv, Lists, Links, [Next]_vars PROVE Links'
    OBVIOUS
<1>1. SelectedHostPort \in Server \cup {Default}
    BY DEF SelectedHostPort, Lists
<1>2. ASSUME {relay', connecting'} \subseteq
                 {relay, connecting, SelectedHostPort, NoRelay}
      PROVE  Links'
    BY <1>1, <1>2 DEF Links
<1>3. CASE BeginConnect \/ EndConnect \/ CloseIdleRelay \/ PowerLoss
    BY <1>2, <1>3 DEF BeginConnect, EndConnect, CloseIdleRelay, PowerLoss
<1>4. CASE ReconnectAfterClick \/ Reconnect \/ Start \/ Stop
    BY <1>2, <1>4 DEF ReconnectAfterClick, Reconnect, Start, Stop, Button,
                      ForceReconnect, StartRelay, StopRelay, ConnectRelayLocked
<1>5. CASE UNCHANGED bridge
    BY <1>2, <1>5 DEF bridge
<1>6. CASE \/ RegisterMitm \/ LoadAtBoot \/ Reload \/ OpenOverlay
           \/ LoadOverlayList \/ Refresh \/ CloseOverlay \/ DeleteSelected
           \/ CreateSelected \/ WriteSelected \/ EditConf \/ UNCHANGED vars
           \/ \E index \in 0..MaxServers - 1 : SelectServer(index)
    BY <1>5, <1>6 DEF RegisterMitm, LoadAtBoot, Reload, OpenOverlay,
        LoadOverlayList, Refresh, CloseOverlay, DeleteSelected, CreateSelected,
        WriteSelected, EditConf, SelectServer, vars
<1> QED
    BY <1>3, <1>4, <1>6 DEF Next

\* Types: whatever servers.conf holds and wherever a reader cuts it, what the
\* sysmodule and the overlay keep are servers parse_line accepts, no more than
\* g_servers holds (servers.c:26-77, 79-94).
THEOREM CfgTyped == Spec => []TypeOK
<1>1. Init => Lists /\ Links /\ Flags /\ Pointers
    <2> SUFFICES ASSUME Init PROVE Lists /\ Links /\ Flags /\ Pointers
        OBVIOUS
    <2>1. Lists
        BY NobodyTyped DEF Init, Lists
    <2>2. Links
        BY DEF Init, Links
    <2>3. Flags
        BY DEF Init, Flags
    <2>4. Pointers
        BY DEF Init, Pointers
    <2> QED
        BY <2>1, <2>2, <2>3, <2>4
<1>2. Inv /\ Lists /\ Links /\ Flags /\ Pointers => TypeOK
    BY DEF Inv, Typed, Phases, Lists, Links, Flags, Pointers, TypeOK
<1> QED
    BY <1>1, <1>2, NextLists, NextLinks, NextFlags, NextPointers, InvAlways, PTL
        DEF Spec
=============================================================================
