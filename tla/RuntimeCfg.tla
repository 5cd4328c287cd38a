----------------------------- MODULE RuntimeCfg -----------------------------
(***************************************************************************)
(* The choice of a relay server: servers.conf and selected.cfg on the SD   *)
(* card, the RuntimeCfg object of the sysmodule, the slpnx:cfg service in  *)
(* front of it, the overlay that calls the service, and the connection of  *)
(* the relay that follows the choice.                                      *)
(*                                                                         *)
(* The overlay calls synchronously and slpnx:cfg has one thread, so the    *)
(* overlay's program counter pc is that thread's as well.  Concurrent with *)
(* it are the mitm dispatch thread, which connects the relay on the first  *)
(* bridged traffic, whoever edits servers.conf on the card, and the power. *)
(* g_relay_mutex is held from BeginConnect to EndConnect, and              *)
(* RuntimeCfg::m_mutex from SelectServer to the end of PersistSelection.   *)
(***************************************************************************)
EXTENDS Integers, Sequences, FiniteSets, SequencesExt

CONSTANTS
    Host,          \* the names and addresses of servers
    Confs,         \* the texts servers.conf may hold: sequences of lines
    Absent,        \* no such file
    Blank,         \* a file that was created and never written
    MaxServers,    \* SLPNXCFG_MAX_SERVERS
    SysBytes,      \* the sysmodule reads a file shorter than this many bytes
    OverlayBytes,  \* the overlay reads this many bytes of a file
    DefaultPort,   \* the port of an entry that names none
    Default,       \* DefaultRelayHost and DefaultRelayPort
    NoRelay,       \* no connection
    FsFails,       \* TRUE if calls of the file system may fail
    MaxEdits,      \* bound: changes of servers.conf
    MaxBoots       \* bound: losses of power

\* A line of servers.conf: the number of words sscanf finds once comment and
\* blanks are gone, the host, the number in the third word, whether the second
\* word has a colon and the number behind it, and the bytes the line takes.
Line ==
    [words : 0..3, host : Host, third : Int, colon : BOOLEAN, colonPort : Int,
     bytes : Nat]

\* SlpNxServer; tail marks a host that kept its ":port".
PortNumber == 1..65535
Server     == [host : Host, tail : BOOLEAN, port : PortNumber]

ASSUME ConfAssumption == Confs \subseteq Seq(Line)
ASSUME SizesAssumption == MaxServers \in Nat \ {0}
ASSUME PortAssumption == DefaultPort \in PortNumber
ASSUME NamesAssumption ==
    /\ Absent \notin Confs /\ Absent # Blank
    /\ Absent \notin Nat /\ Blank \notin Nat
    /\ NoRelay # Default /\ NoRelay \notin Server

VARIABLES
    conf, selFile,                       \* the SD card
    boot,                                \* how far Main() is
    servers, selIndex,                   \* g_servers and m_sel_index
    relay, connecting, enabled, attempted, \* the relay and its flags
    pc, haveSvc, arg, list, gsel,        \* the overlay and the call it makes
    choice, clicked, early, undisturbed, \* history, for the properties
    edits, boots                         \* used up of MaxEdits and MaxBoots

card    == <<conf, selFile>>
cfg     == <<servers, selIndex>>
bridge  == <<relay, connecting, enabled, attempted>>
overlay == <<pc, haveSvc, arg, list, gsel>>
history == <<choice, clicked, early, undisturbed>>
bounds  == <<edits, boots>>
vars    == <<card, boot, cfg, bridge, overlay, history, bounds>>

-----------------------------------------------------------------------------
(* servers.c and the reading of the two files.                             *)

\* A second word that ends in ":port" loses it, unless there is a third word.
ServerOf(line) ==
    LET inHost == line.words = 2 /\ line.colon
    IN  [host |-> line.host,
         tail |-> line.words = 3 /\ line.colon,
         port |-> IF line.words = 3 THEN line.third
                  ELSE IF inHost THEN line.colonPort ELSE DefaultPort]

IsEntry(line) ==
    /\ line.words >= 2
    /\ ServerOf(line).port \in PortNumber

Entries(text) == {k \in 1..Len(text) : IsEntry(text[k])}

\* The position of the n-th entry.
Nth(text, n) ==
    CHOOSE k \in Entries(text) :
        Cardinality({j \in Entries(text) : j <= k}) = n

\* Mutant: the list is not cut at MaxServers.
ParseAll(text) ==
    [n \in 1..Cardinality(Entries(text)) |-> ServerOf(text[Nth(text, n)])]

\* slpnxServersParse: the first MaxServers entries, in the order of the file.
Parse(text) ==
    LET count == Cardinality(Entries(text))
    IN  [n \in 1..(IF count < MaxServers THEN count ELSE MaxServers) |->
            ServerOf(text[Nth(text, n)])]

Size(text) == FoldLeft(LAMBDA sum, line : sum + line.bytes, 0, text)

\* ReadConfigText as ReloadServers calls it.
Readable(text) == text # Absent /\ Size(text) > 0 /\ Size(text) < SysBytes

\* What strtol reads of a number of up to seven digits that is cut short.
Begun(n) == {0} \cup {n \div d : d \in {1, 10, 100, 1000, 10000, 100000, 1000000}}

\* What parse_line may see of a line that is cut short: fewer words, the beginning
\* of the host, which may be any name, or of the number behind the colon or in the
\* third word.
CutLines(line) ==
    {[line EXCEPT !.words = w] : w \in 0..line.words}
    \cup {[line EXCEPT !.words = 2, !.host = h, !.colon = FALSE] :
              h \in {g \in Host : line.words >= 2}}
    \cup {[line EXCEPT !.words = 2, !.colonPort = n] :
              n \in {m \in Begun(line.colonPort) : line.words >= 2}}
    \cup {[line EXCEPT !.third = n] : n \in Begun(line.third)}

\* slpnxServersLoad in the overlay: what is beyond the buffer is not read, and the
\* line it ends in is cut short.
OverlayLists(text) ==
    IF text \in {Absent, << >>} THEN {<< >>}
    ELSE IF Size(text) <= OverlayBytes THEN {Parse(text)}
    ELSE LET whole == Cardinality({k \in 1..Len(text) :
                          Size(SubSeq(text, 1, k)) <= OverlayBytes})
         IN  {Parse(Append(SubSeq(text, 1, whole), line)) :
                  line \in CutLines(text[whole + 1])}

\* slpnxServersGet of m_sel_index, as GetSelectedHostPort uses it.
SelectedHostPort ==
    IF selIndex + 1 \in 1..Len(servers) THEN servers[selIndex + 1] ELSE Default

\* What a call of the file system may return.
Outcomes == IF FsFails THEN BOOLEAN ELSE {TRUE}

-----------------------------------------------------------------------------
Nobody == [list |-> << >>, index |-> -1]

Init ==
    /\ conf \in Confs \cup {Absent} /\ selFile = Absent
    /\ boot = "off"
    /\ servers = << >> /\ selIndex = -1
    /\ relay = NoRelay /\ connecting = NoRelay
    /\ enabled = TRUE /\ attempted = FALSE
    /\ pc = "closed" /\ haveSvc = FALSE /\ arg = 0 /\ list = << >> /\ gsel = 0
    /\ choice = {0} /\ clicked = Nobody /\ early = FALSE /\ undisturbed = FALSE
    /\ edits = 0 /\ boots = 0

-----------------------------------------------------------------------------
(* The sysmodule.                                                          *)

\* Main() registers the mitm and starts its thread before it has read a file.
RegisterMitm ==
    /\ boot = "off" /\ boot' = "mitm"
    /\ UNCHANGED <<card, cfg, bridge, overlay, history, bounds>>

PersistedIsGood(readable, count) ==
    readable /\ selFile \notin {Absent, Blank} /\ selFile < count

\* Mutant: a selection that is still in range is kept, whatever was persisted.
MemoryFirst(count, readable) ==
    IF selIndex >= 0 /\ selIndex < count THEN selIndex
    ELSE IF PersistedIsGood(readable, count) THEN selFile
    ELSE IF count > 0 THEN 0 ELSE -1

\* Mutant: the selection is not checked against the new list.
UncheckedIndex(count, readable) ==
    IF readable /\ selFile \notin {Absent, Blank} THEN selFile
    ELSE IF selIndex < 0 \/ selIndex >= count
         THEN (IF count > 0 THEN 0 ELSE -1)
    ELSE selIndex

\* The end of ReloadServers, for a list of count entries.
IndexAfterReload(count, readable) ==
    IF PersistedIsGood(readable, count) THEN selFile
    ELSE IF selIndex < 0 \/ selIndex >= count
         THEN (IF count > 0 THEN 0 ELSE -1)
    ELSE selIndex

\* What a reload leaves of the history: a list that is not the one the user
\* clicked in ends what the click promises, and so does a choice that may not
\* be what is on the card.
ReloadHistory(parsed, readable) ==
    /\ choice' = IF parsed /\ ~readable THEN choice \cup {0} ELSE choice
    /\ clicked' = IF servers' = clicked.list /\ Cardinality(choice') = 1
                  THEN clicked ELSE Nobody
    /\ undisturbed' = (undisturbed /\ parsed)

\* A file that is missing, empty, too long or not readable changes nothing.
ReloadServers ==
    \E opened, readable \in Outcomes :
        LET parsed == opened /\ Readable(conf)
        IN  /\ servers' = IF parsed THEN Parse(conf) ELSE servers
            /\ selIndex' = IF parsed
                           THEN IndexAfterReload(Len(Parse(conf)), readable)
                           ELSE selIndex
            /\ ReloadHistory(parsed, readable)

\* Main() after the registration: the list, then slpnx:cfg and its thread.
LoadAtBoot ==
    /\ boot = "mitm" /\ boot' = "up"
    /\ ReloadServers
    /\ UNCHANGED <<card, bridge, overlay, early, bounds>>

\* ConnectRelayLocked by a caller that holds g_relay_mutex throughout.
ConnectRelayLocked ==
    /\ attempted' = TRUE
    /\ relay' \in {SelectedHostPort, NoRelay}
    /\ early' = FALSE

\* EnsureRelayConnected in the dispatch thread: the host is copied, and the
\* relay is connected to it some time later.
BeginConnect ==
    /\ boot # "off" /\ connecting = NoRelay
    /\ pc \notin {"delete", "create", "write"}
    /\ enabled /\ relay = NoRelay /\ ~attempted
    /\ attempted' = TRUE
    /\ connecting' = SelectedHostPort
    /\ early' = (boot = "mitm")
    /\ UNCHANGED <<card, boot, cfg, relay, enabled, overlay, choice, clicked,
                   undisturbed, bounds>>

EndConnect ==
    /\ connecting # NoRelay /\ connecting' = NoRelay
    /\ relay' \in {connecting, NoRelay}
    /\ UNCHANGED <<card, boot, cfg, enabled, attempted, overlay, history,
                   bounds>>

\* The last bridged socket is closed, or the watchdog takes it for dead.
CloseIdleRelay ==
    /\ boot # "off" /\ connecting = NoRelay /\ attempted
    /\ relay' = NoRelay /\ attempted' = FALSE
    /\ UNCHANGED <<card, boot, cfg, connecting, enabled, overlay, history,
                   bounds>>

-----------------------------------------------------------------------------
(* The overlay, and the commands of slpnx:cfg it sends.                    *)

\* Mutant: the overlay does not have the sysmodule read servers.conf again.
OpenWithoutReload ==
    /\ pc = "closed" /\ pc' = "load"
    /\ haveSvc' = (boot = "up") /\ undisturbed' = TRUE
    /\ UNCHANGED <<card, boot, cfg, bridge, arg, list, gsel, choice, clicked,
                   early, bounds>>

\* initServices: slpnxCfgGetConfig finds the service or does not wait for it.
OpenOverlay ==
    /\ boot # "off" /\ pc = "closed"
    /\ haveSvc' = (boot = "up") /\ undisturbed' = TRUE
    /\ pc' = IF haveSvc' THEN "reload" ELSE "load"
    /\ UNCHANGED <<card, boot, cfg, bridge, arg, list, gsel, choice, clicked,
                   early, bounds>>

Reload ==
    /\ pc = "reload" /\ pc' = "load"
    /\ ReloadServers
    /\ UNCHANGED <<card, boot, bridge, haveSvc, arg, list, gsel, early, bounds>>

\* slpnxServersLoad, then the main page and its first refresh.
LoadOverlayList ==
    /\ pc = "load" /\ pc' = "main"
    /\ list' \in OverlayLists(conf)
    /\ gsel' = IF haveSvc THEN selIndex ELSE gsel
    /\ UNCHANGED <<card, boot, cfg, bridge, haveSvc, arg, history, bounds>>

\* refresh(): GetState, twice a second and after every button.
Refresh ==
    /\ pc = "main" /\ haveSvc
    /\ gsel' = selIndex
    /\ UNCHANGED <<card, boot, cfg, bridge, pc, haveSvc, arg, list, history,
                   bounds>>

\* RuntimeCfg::SelectServer for row index of the server page: the overlay
\* goes on to Reconnect whatever the answer is.
SelectServer(index) ==
    /\ pc = "main" /\ haveSvc /\ index + 1 \in 1..Len(list)
    /\ arg' = index
    /\ IF index >= Len(servers)
       THEN /\ pc' = "reconnect"
            /\ UNCHANGED <<selIndex, choice, clicked>>
       ELSE /\ pc' = "delete" /\ selIndex' = index
            /\ choice' = choice \cup {index, 0} /\ clicked' = Nobody
    /\ UNCHANGED <<card, boot, servers, bridge, haveSvc, list, gsel, early,
                   undisturbed, bounds>>

\* PersistSelection, one step per call of the file system.
DeleteSelected ==
    /\ pc = "delete" /\ pc' = "create"
    /\ \E ok \in Outcomes : selFile' = IF ok THEN Absent ELSE selFile
    /\ UNCHANGED <<conf, boot, cfg, bridge, haveSvc, arg, list, gsel, history,
                   bounds>>

CreateSelected ==
    /\ pc = "create"
    /\ \E ok \in Outcomes :
          IF ok /\ selFile = Absent
          THEN selFile' = Blank /\ pc' = "write"
          ELSE pc' = "reconnect" /\ UNCHANGED selFile
    /\ UNCHANGED <<conf, boot, cfg, bridge, haveSvc, arg, list, gsel, history,
                   bounds>>

WriteSelected ==
    /\ pc = "write" /\ pc' = "reconnect"
    /\ \E ok \in Outcomes :
          /\ selFile' = IF ok THEN arg ELSE selFile
          /\ choice' = IF ok THEN {arg} ELSE choice
    /\ UNCHANGED <<conf, boot, cfg, bridge, haveSvc, arg, list, gsel, clicked,
                   early, undisturbed, bounds>>

\* Mutant: a relay that is connected stays as it is.
ReconnectIfDown ==
    /\ connecting = NoRelay
    /\ enabled' = TRUE
    /\ IF relay = NoRelay THEN ConnectRelayLocked
       ELSE UNCHANGED <<relay, attempted, early>>
    /\ UNCHANGED connecting

\* BsdBridgeService::ForceReconnect: on, closed, and connected right away.
ForceReconnect ==
    /\ connecting = NoRelay
    /\ enabled' = TRUE
    /\ ConnectRelayLocked
    /\ UNCHANGED connecting

\* The end of a click in the server page.
ReconnectAfterClick ==
    /\ pc = "reconnect" /\ pc' = "main"
    /\ ForceReconnect
    /\ gsel' = arg
    /\ clicked' = IF list = servers THEN [list |-> list, index |-> arg]
                  ELSE clicked
    /\ UNCHANGED <<card, boot, cfg, haveSvc, arg, list, choice, undisturbed,
                   bounds>>

\* The buttons of the main page; each one ends in a refresh.
Button(command) ==
    /\ pc = "main" /\ haveSvc
    /\ command
    /\ gsel' = selIndex
    /\ UNCHANGED <<card, boot, cfg, pc, haveSvc, arg, list, choice, clicked,
                   undisturbed, bounds>>

StartRelay ==
    /\ connecting = NoRelay
    /\ enabled' = TRUE
    /\ IF relay = NoRelay THEN ConnectRelayLocked
       ELSE UNCHANGED <<relay, attempted, early>>
    /\ UNCHANGED connecting

StopRelay ==
    /\ connecting = NoRelay
    /\ relay' = NoRelay /\ enabled' = FALSE /\ attempted' = FALSE
    /\ UNCHANGED <<connecting, early>>

Reconnect == Button(ForceReconnect)
Start     == Button(StartRelay)
Stop      == Button(StopRelay)

\* The overlay's process ends, and the next one starts from scratch.
CloseOverlay ==
    /\ pc = "main" /\ pc' = "closed"
    /\ haveSvc' = FALSE /\ list' = << >> /\ gsel' = 0
    /\ UNCHANGED <<card, boot, cfg, bridge, arg, history, bounds>>

-----------------------------------------------------------------------------
(* The surroundings.                                                       *)

EditConf ==
    /\ edits < MaxEdits /\ edits' = edits + 1
    /\ conf' \in (Confs \cup {Absent}) \ {conf}
    /\ undisturbed' = FALSE
    /\ UNCHANGED <<selFile, boot, cfg, bridge, overlay, choice, clicked, early,
                   boots>>

PowerLoss ==
    /\ boot # "off" /\ boots < MaxBoots /\ boots' = boots + 1
    /\ boot' = "off"
    /\ servers' = << >> /\ selIndex' = -1
    /\ relay' = NoRelay /\ connecting' = NoRelay
    /\ enabled' = TRUE /\ attempted' = FALSE
    /\ pc' = "closed" /\ haveSvc' = FALSE /\ arg' = 0 /\ list' = << >>
    /\ gsel' = 0
    /\ UNCHANGED <<card, history, edits>>

Next ==
    \/ RegisterMitm \/ LoadAtBoot
    \/ BeginConnect \/ EndConnect \/ CloseIdleRelay
    \/ OpenOverlay \/ Reload \/ LoadOverlayList \/ Refresh \/ CloseOverlay
    \/ \E index \in 0..MaxServers - 1 : SelectServer(index)
    \/ DeleteSelected \/ CreateSelected \/ WriteSelected \/ ReconnectAfterClick
    \/ Reconnect \/ Start \/ Stop
    \/ EditConf \/ PowerLoss

Spec == Init /\ [][Next]_vars

-----------------------------------------------------------------------------
(* Properties.                                                             *)

\* Every variable keeps its type: the servers are entries parse_line accepts,
\* no more than g_servers holds, and selected.cfg is absent, empty or a number.
TypeOK ==
    /\ conf \in Confs \cup {Absent}
    /\ selFile \in Nat \cup {Absent, Blank}
    /\ boot \in {"off", "mitm", "up"}
    /\ servers \in Seq(Server) /\ Len(servers) <= MaxServers
    /\ selIndex \in Int
    /\ {relay, connecting} \subseteq Server \cup {Default, NoRelay}
    /\ {enabled, attempted, haveSvc, early, undisturbed} \subseteq BOOLEAN
    /\ pc \in {"closed", "reload", "load", "main", "delete", "create", "write",
               "reconnect"}
    /\ arg \in Nat /\ gsel \in Int
    /\ list \in Seq(Server) /\ Len(list) <= MaxServers
    /\ choice \subseteq Nat
    /\ clicked.list \in Seq(Server) /\ clicked.index \in Int

\* m_sel_index is -1 exactly when there is no list and otherwise names an entry
\* of it, through every reload of a list that grew, shrank or went away
\* (runtime_cfg.cpp:79-97, 122-129): GetSelectedHostPort falls back to the
\* default relay only when nothing is configured.
SelectedInRange ==
    IF servers = << >> THEN selIndex = -1 ELSE selIndex + 1 \in 1..Len(servers)

\* "persists the answer across reboots" (runtime_cfg.hpp:6-10): once Main() has
\* read its files, the selection is the last one that was written completely,
\* or the first server while the list is too short for that one.  After a loss
\* of power or a failure within PersistSelection it is the old selection, the
\* new one or the first.
SelectionSurvives ==
    boot = "up" /\ servers # << >> =>
        \/ selIndex \in choice
        \/ selIndex = 0 /\ \E index \in choice : index >= Len(servers)

\* After a click in the server page the relay, whenever it is connected and by
\* whichever thread, is connected to the row that was clicked, also when the
\* dispatch thread was connecting to the old one at that moment, and also after
\* a reboot (overlay main.cpp:61-69).  This lasts until another list is loaded;
\* a connection made before Main() has read servers.conf is excepted.
RelayIsTheChosenOne ==
    relay # NoRelay /\ clicked # Nobody /\ ~early =>
        relay = clicked.list[clicked.index + 1]

\* "opening the overlay always re-syncs the sysmodule's list" (overlay
\* main.cpp:247-252): the overlay and the sysmodule hold the same list and agree
\* on the selected row, if servers.conf was not edited or unreadable since the
\* overlay was opened and fits into the buffers of both.
OverlayShowsTheTruth ==
    (/\ pc = "main" /\ haveSvc /\ undisturbed
     /\ conf # Absent /\ Size(conf) <= OverlayBytes) =>
        list = servers /\ gsel = selIndex
=============================================================================
