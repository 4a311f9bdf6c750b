------------------------- MODULE TalkgroupSelection -------------------------
(* Which talkgroup the client is in, and who it says is talking: the selection *)
(* by the user, by a transmission, by a talker on a monitored talkgroup, by a  *)
(* QSY and by the timer that parks the client in talkgroup 0; the list of      *)
(* monitored talkgroups; the talker frames in both forms and the lookup of the *)
(* talker's name.  Connecting is reduced to its effects on these; see          *)
(* ReflectorSession for the rest.                                              *)
EXTENDS Integers, Sequences

CONSTANTS
  Talkgroups,   \* the talkgroups above 0
  Callsigns,    \* of all stations
  Me,           \* the client's own
  Short, Long,  \* those of fewer than four, and of more than five characters
  Profiles,     \* what connectToServer and updateProfileConfiguration are given
  MaxPriority,  \* the priority a list's entry is cut down to
  MaxEvents     \* bound: what the user, the server and the network do

NoOne == ""             \* the empty callsign and the empty name
NoLookup == "no lookup"
Garbled == "garbled"    \* what is no station's callsign

ASSUME TalkgroupAssumption ==
  /\ Talkgroups \subseteq Nat \ {0}
  /\ Me \in Callsigns
  /\ Short \subseteq Callsigns /\ Long \subseteq Callsigns \ Short
  /\ {NoOne, NoLookup, Garbled} \cap Callsigns = {}
  /\ MaxPriority \in Nat /\ MaxEvents \in Nat

ASSUME ProfilesAssumption ==
  \A p \in Profiles :
    /\ p.talkgroup \in Talkgroups \cup {0} /\ p.default \in Talkgroups \cup {0}
    /\ p.timeout \in Nat \ {0}
    /\ p.spec \in Seq([tg : Talkgroups \cup {0}, plus : Nat])

VARIABLES
  state,        \* m_state
  link,         \* the TCP connection: "none", "opening", "open", "refused", "closing"
  talkgroup,    \* m_talkgroup
  defaultTg,    \* m_defaultTalkgroup
  configured,   \* m_configuredMonitoredTalkgroups: its priority for each of the list
  monitored,    \* m_monitoredTalkgroups
  timeout,      \* m_tgSelectTimeoutSeconds
  counter,      \* m_tgSelectTimeoutCounter
  timer,        \* m_talkgroupSelectionTimer is active
  priorityMode, \* m_usePriorityMode
  ptt,          \* m_pttActive
  receiving,    \* m_isReceivingAudio
  talker,       \* m_currentTalker
  name,         \* whose name m_currentTalkerName is
  lookup,       \* m_nameReply: whose name is asked for
  server,       \* the server: what it was told in this session, the form of its frames
  air,          \* the server: who talks on each talkgroup
  chosen,       \* the talkgroup the user holds, of which only properties speak
  events        \* what the environment still does

selection == <<talkgroup, counter, timer, priorityMode, server, chosen>>
lists == <<defaultTg, configured, monitored, timeout>>
shown == <<talker, name, lookup>>
session == <<state, link>>
radio == <<ptt, receiving>>
vars == <<session, selection, lists, shown, radio, air, events>>

-----------------------------------------------------------------------------
(* Lists of talkgroups. *)

\* parseMonitoredTalkgroupsSpec: the first entry of a talkgroup counts, one for
\* talkgroup 0 does not, and the number of plus signs is cut down.
Configured(spec) ==
  [tg \in {spec[i].tg : i \in DOMAIN spec} \ {0} |->
     LET first == CHOOSE i \in DOMAIN spec :
                    spec[i].tg = tg /\ \A j \in 1..(i - 1) : spec[j].tg # tg
     IN IF spec[first].plus < MaxPriority THEN spec[first].plus ELSE MaxPriority]

Active(primary, spec) == DOMAIN Configured(spec) \cup ({primary} \ {0})

MonitoredPriority(tg) == IF tg \in DOMAIN configured THEN configured[tg] ELSE 0

ApplyMonitored(primary, spec) ==
  /\ configured' = Configured(spec)
  /\ monitored' = Active(primary, spec)

-----------------------------------------------------------------------------
Init ==
  /\ state = "Disconnected" /\ link = "none"
  /\ talkgroup = 0 /\ defaultTg = 0 /\ configured = Configured(<<>>) /\ monitored = {}
  /\ timeout = 1 /\ counter = 0 /\ timer = FALSE /\ priorityMode = TRUE
  /\ ptt = FALSE /\ receiving = FALSE
  /\ talker = NoOne /\ name = NoOne /\ lookup = NoLookup
  /\ server \in [tg : {0}, monitor : {{}}, legacy : BOOLEAN]
  /\ air = [tg \in Talkgroups |-> NoOne]
  /\ chosen = 0 /\ events = MaxEvents

Happens == events > 0 /\ events' = events - 1

-----------------------------------------------------------------------------
(* Selecting. *)

StopTimer == counter' = 0 /\ timer' = FALSE

\* resetTalkgroupSelectionTimer, for the talkgroup tg: it starts only in a session.
ResetTimer(tg, seconds) ==
  IF tg = 0 THEN StopTimer
  ELSE counter' = seconds /\ timer' = (timer \/ state = "Connected")

SendSelectManual(tg) ==                                         \* mutant
  server' = IF priorityMode' THEN server ELSE [server EXCEPT !.tg = tg]

SendSelect(tg) ==
  server' = IF state = "Connected" THEN [server EXCEPT !.tg = tg] ELSE server

ByUserManual == {"Manual"}                                      \* mutant

ByUser == {"Manual", "TxDefaultActivation"}

SelectTalkgroupInternal(tg, origin) ==
  /\ talkgroup' = tg
  /\ priorityMode' = (tg = 0 \/ (priorityMode /\ origin \notin ByUser))
  /\ ResetTimer(tg, timeout)
  /\ SendSelect(tg)

SelectTalkgroup(tg) ==
  /\ Happens
  /\ SelectTalkgroupInternal(tg, "Manual")
  /\ chosen' = tg
  /\ UNCHANGED <<session, lists, shown, radio, air>>

UpdateProfileConfiguration(profile) ==
  /\ Happens
  /\ defaultTg' = profile.default
  /\ timeout' = profile.timeout
  /\ ApplyMonitored(profile.default, profile.spec)
  /\ IF state = "Connected"
     THEN /\ server' = [server EXCEPT !.monitor = monitored']
          /\ ResetTimer(talkgroup, profile.timeout)
     ELSE UNCHANGED <<server, counter, timer>>
  /\ UNCHANGED <<session, talkgroup, priorityMode, chosen, shown, radio, air>>

\* The talkgroup's part of startTransmission; the recording may fail to start.
StartTransmission ==
  /\ Happens
  /\ state = "Connected" /\ ~ptt
  /\ \/ /\ talkgroup = 0 /\ defaultTg # 0
        /\ SelectTalkgroupInternal(defaultTg, "TxDefaultActivation")
     \/ /\ talkgroup # 0
        /\ priorityMode' = FALSE
        /\ ResetTimer(talkgroup, timeout)
        /\ UNCHANGED <<talkgroup, server>>
  /\ chosen' = talkgroup'
  /\ ptt' \in BOOLEAN
  /\ UNCHANGED <<session, lists, shown, receiving, air>>

StopTransmission ==
  /\ ptt /\ ptt' = FALSE
  /\ UNCHANGED <<session, selection, lists, shown, receiving, air, events>>

ReceivedAudioStarts ==
  /\ Happens
  /\ state = "Connected" /\ ~receiving /\ receiving' = TRUE
  /\ UNCHANGED <<session, selection, lists, shown, ptt, air>>

ReceivedAudioStops ==
  /\ receiving /\ receiving' = FALSE
  /\ UNCHANGED <<session, selection, lists, shown, ptt, air, events>>

OnTalkgroupSelectionTimer ==
  /\ timer
  /\ IF counter = 0 THEN StopTimer /\ UNCHANGED <<talkgroup, priorityMode, server, chosen>>
     ELSE /\ state = "Connected" /\ talkgroup # 0 /\ ~ptt /\ ~receiving
          /\ \/ /\ counter > 1 /\ counter' = counter - 1
                /\ UNCHANGED <<talkgroup, timer, priorityMode, server, chosen>>
             \/ /\ counter = 1 /\ SelectTalkgroupInternal(0, "Timeout")
                /\ chosen' = 0
  /\ UNCHANGED <<session, lists, shown, radio, air, events>>

-----------------------------------------------------------------------------
(* The session, as far as the selection sees it. *)

\* The selection's part of connectToServer.  A socket that is still open, or
\* closing, stays: connectToHost refuses to open it again.
Begin(tg, seconds, list) ==
  /\ Happens
  /\ state = "Disconnected" /\ state' = "Connecting"
  /\ link' = IF link = "none" THEN "opening" ELSE link
  /\ talkgroup' = tg
  /\ timeout' = seconds
  /\ defaultTg' = IF defaultTg = 0 THEN tg ELSE defaultTg
  /\ configured' = list
  /\ monitored' = DOMAIN list \cup ({defaultTg'} \ {0})
  /\ StopTimer /\ priorityMode' = TRUE
  /\ talker' = NoOne /\ receiving' = FALSE
  /\ chosen' = 0
  /\ UNCHANGED <<ptt, name, lookup, server, air>>

ConnectToServer(profile) ==
  Begin(profile.talkgroup, profile.timeout, Configured(profile.spec))

Reconnect == Begin(talkgroup, timeout, configured)

HandleServerInfoUntimed ==                                      \* mutant
  /\ link = "opening" /\ link' = "open"
  /\ state' = "Connected"
  /\ server' = [server EXCEPT !.tg = talkgroup, !.monitor = monitored]
  /\ UNCHANGED <<talkgroup, counter, timer, priorityMode, chosen, lists, shown, radio, air,
                 events>>

HandleServerInfo ==
  /\ link = "opening" /\ link' = "open"
  /\ state' = "Connected"
  /\ server' = [server EXCEPT !.tg = talkgroup, !.monitor = monitored]
  /\ IF talkgroup = 0 THEN StopTimer ELSE counter' = timeout /\ timer' = TRUE
  /\ UNCHANGED <<talkgroup, priorityMode, chosen, lists, shown, radio, air, events>>

\* ERROR and PROTO_VER_DOWNGRADE: the socket and the timer stay as they are.
Refused ==
  /\ Happens
  /\ link \in {"opening", "open"} /\ link' = "refused"
  /\ state' = "Disconnected"
  /\ UNCHANGED <<selection, lists, shown, radio, air>>

\* transitionToDisconnectedState: an aborted lookup answers nobody.
Dropped(preserve) ==
  /\ state' = "Disconnected"
  /\ ptt' = FALSE /\ receiving' = FALSE
  /\ talker' = NoOne /\ name' = NoOne /\ lookup' = NoLookup
  /\ StopTimer /\ priorityMode' = TRUE
  /\ monitored' = IF preserve THEN monitored ELSE {}
  /\ chosen' = 0
  /\ server' = [server EXCEPT !.tg = 0, !.monitor = {}]
  /\ UNCHANGED <<talkgroup, defaultTg, configured, timeout, air>>

\* The peer closes, an error, or the timeout of a connection under way.
SessionLost ==
  /\ Happens
  /\ link \in {"opening", "open", "refused"} /\ link' = "none"
  /\ Dropped(TRUE)

DisconnectFromServer ==
  /\ Happens
  /\ link' \in IF link = "none" \/ state = "Connecting" THEN {"none"} ELSE {"none", "closing"}
  /\ Dropped(FALSE)

\* The end the user asked for, unless a new connection has begun meanwhile.
SocketCloses ==
  /\ link = "closing" /\ link' = "none"
  /\ \/ state = "Disconnected" /\ UNCHANGED <<state, selection, lists, shown, radio, air>>
     \/ state = "Connecting" /\ Dropped(TRUE)
  /\ UNCHANGED events

-----------------------------------------------------------------------------
(* Talkers. *)

\* TALKER_START on the talkgroup tg, handled if it leads to Shown.
ShouldHandleTalkerStart(tg, Shown) ==
  \/ /\ tg = talkgroup
     /\ ResetTimer(tg, timeout) /\ UNCHANGED <<talkgroup, priorityMode, server>>
     /\ Shown
  \/ /\ talkgroup = 0 /\ tg \in monitored
     /\ SelectTalkgroupInternal(tg, "RemoteActivation")
     /\ Shown
  \/ /\ talkgroup \notin {0, tg} /\ tg \in monitored
     /\ priorityMode /\ MonitoredPriority(tg) > MonitoredPriority(talkgroup)
     /\ SelectTalkgroupInternal(tg, "RemotePriorityActivation")
     /\ Shown
  \/ /\ tg # talkgroup
     /\ \/ tg \notin monitored
        \/ /\ talkgroup # 0
           /\ ~priorityMode \/ MonitoredPriority(tg) <= MonitoredPriority(talkgroup)
     /\ UNCHANGED <<talkgroup, counter, timer, priorityMode, server, shown>>

ShowTalkerKeepingLookup(callsign) ==                            \* mutant
  /\ talker' = callsign /\ name' = NoOne
  /\ lookup' = IF lookup = NoLookup THEN callsign ELSE lookup

ShowTalker(callsign) == talker' = callsign /\ name' = NoOne /\ lookup' = callsign
HideTalker == talker' = NoOne /\ name' = NoOne /\ UNCHANGED lookup

HandleTalkerStart(tg, callsign) ==
  IF callsign = Me
  THEN HideTalker /\ UNCHANGED <<talkgroup, counter, timer, priorityMode, server>>
  ELSE ShouldHandleTalkerStart(tg, ShowTalker(callsign))

HandleTalkerStop(callsign) ==
  IF callsign = talker THEN HideTalker ELSE UNCHANGED shown

\* The callsign of a frame without a talkgroup, read after the look ahead for one:
\* that took six bytes, if there were so many, and the rest is read as a length.
LegacyCallsign(callsign) ==
  IF callsign \in Short THEN callsign ELSE IF callsign \in Long THEN Garbled ELSE NoOne

HandleTalkerStartV1(callsign) ==
  /\ IF callsign = Me THEN HideTalker ELSE ShowTalker(callsign)
  /\ UNCHANGED <<talkgroup, counter, timer, priorityMode, server>>

\* The server tells of the talkgroup the client selected and of those it monitors.
Told(tg) == link \in {"open", "closing"} /\ tg \in {server.tg} \cup server.monitor

TalkerStarts(tg, callsign) ==
  /\ Happens
  /\ air[tg] = NoOne /\ air' = [air EXCEPT ![tg] = callsign]
  /\ \A other \in Talkgroups : air[other] # callsign
  /\ callsign = Me => ptt /\ tg = server.tg
  /\ IF ~Told(tg) THEN UNCHANGED <<shown, talkgroup, counter, timer, priorityMode, server>>
     ELSE IF server.legacy THEN HandleTalkerStartV1(LegacyCallsign(callsign))
     ELSE HandleTalkerStart(tg, callsign)
  /\ UNCHANGED <<session, lists, radio, chosen>>

TalkerStops(tg) ==
  /\ air[tg] # NoOne /\ air' = [air EXCEPT ![tg] = NoOne]
  /\ IF ~Told(tg) THEN UNCHANGED shown
     ELSE HandleTalkerStop(IF server.legacy THEN LegacyCallsign(air[tg]) ELSE air[tg])
  /\ UNCHANGED <<session, selection, lists, radio, events>>

RequestQsy(tg) ==
  /\ Happens
  /\ link = "open" /\ state = "Connected"
  /\ SelectTalkgroupInternal(tg, "RequestQsy")
  /\ chosen' = IF chosen = 0 \/ tg = 0 THEN 0 ELSE tg
  /\ UNCHANGED <<session, lists, shown, radio, air>>

\* An answer without a name, or an error, leaves the name as it is.
OnNameLookupFinished ==
  /\ lookup # NoLookup /\ lookup' = NoLookup
  /\ name' \in {name, lookup}
  /\ UNCHANGED <<session, selection, lists, talker, radio, air, events>>

-----------------------------------------------------------------------------
User ==
  \/ \E tg \in Talkgroups \cup {0} : SelectTalkgroup(tg)
  \/ \E profile \in Profiles : UpdateProfileConfiguration(profile) \/ ConnectToServer(profile)
  \/ StartTransmission \/ StopTransmission \/ DisconnectFromServer

Peer ==
  \/ \E tg \in Talkgroups : \E callsign \in Callsigns : TalkerStarts(tg, callsign)
  \/ \E tg \in Talkgroups : TalkerStops(tg)
  \/ \E tg \in Talkgroups \cup {0} : RequestQsy(tg)
  \/ HandleServerInfo \/ Refused \/ SessionLost \/ SocketCloses
  \/ ReceivedAudioStarts \/ ReceivedAudioStops

Client == OnTalkgroupSelectionTimer \/ OnNameLookupFinished \/ Reconnect

Next == User \/ Peer \/ Client

Spec == Init /\ [][Next]_vars
FairSpec == Spec /\ WF_vars(OnTalkgroupSelectionTimer)

-----------------------------------------------------------------------------
(* Properties. *)

States == {"Disconnected", "Connecting", "Connected"}
Links == {"none", "opening", "open", "refused", "closing"}
SomeTg == Talkgroups \cup {0}

TypeOK ==
  /\ state \in States /\ link \in Links
  /\ talkgroup \in SomeTg /\ defaultTg \in SomeTg /\ monitored \subseteq Talkgroups
  /\ DOMAIN configured \subseteq Talkgroups
  /\ \A tg \in DOMAIN configured : configured[tg] \in 0..MaxPriority
  /\ timeout \in Nat \ {0} /\ counter \in Nat /\ timer \in BOOLEAN
  /\ {priorityMode, ptt, receiving} \subseteq BOOLEAN
  /\ talker \in Callsigns \cup {NoOne, Garbled} /\ name \in Callsigns \cup {NoOne, Garbled}
  /\ lookup \in Callsigns \cup {NoLookup, NoOne, Garbled}
  /\ server \in [tg : SomeTg, monitor : SUBSET Talkgroups, legacy : BOOLEAN]
  /\ air \in [Talkgroups -> Callsigns \cup {NoOne}]
  /\ chosen \in SomeTg /\ events \in 0..MaxEvents

\* In a session the server serves the talkgroup and the list the client shows: no
\* order of selections, profile changes, talkers, QSYs and timeouts, and nothing
\* selected while the connection was being made, leaves the two apart (and the
\* variables keep their types).
ServerKnows ==
  /\ TypeOK
  /\ state = "Connected" => server.tg = talkgroup /\ server.monitor = monitored

\* A talkgroup the user selected or transmitted in, or a QSY moved that
\* choice to, stays: no talker on a monitored talkgroup of whatever priority
\* takes it away, until the timeout or the end of the session.
ChoiceHolds == chosen # 0 => talkgroup = chosen

\* The name next to a talker is that talker's: no late answer to a question about
\* an earlier talker, and no name left from one, is shown with another.
NameIsTheirs == talker # NoOne /\ name # NoOne => name = talker

\* A client left alone in a session goes back to monitoring: once it stays
\* connected and neither transmits nor hears anybody, it is parked in talkgroup 0.
Parks ==
  <>[](state = "Connected" /\ ~ptt /\ ~receiving) => <>[](talkgroup = 0)
=============================================================================
