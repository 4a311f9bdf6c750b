---------------------- MODULE TalkgroupSelectionProofs ----------------------
(* Theorems about TalkgroupSelection, for any talkgroups, callsigns, profiles *)
(* and priorities.                                                            *)
EXTENDS TalkgroupSelection, WellFoundedInduction, TLAPS

\* The type invariant in parts: what a step of one kind can change.
Servers == [tg : SomeTg, monitor : SUBSET Talkgroups, legacy : BOOLEAN]
Entries == Seq([tg : SomeTg, plus : Nat])
Names == Callsigns \cup {NoOne, Garbled}

SelectionOK ==
  /\ talkgroup \in SomeTg /\ counter \in Nat /\ timer \in BOOLEAN
  /\ priorityMode \in BOOLEAN /\ server \in Servers /\ chosen \in SomeTg

PrioritiesOK ==
  /\ DOMAIN configured \subseteq Talkgroups
  /\ \A tg \in DOMAIN configured : configured[tg] \in 0..MaxPriority

ListsOK ==
  /\ defaultTg \in SomeTg /\ monitored \subseteq Talkgroups /\ timeout \in Nat \ {0}
  /\ PrioritiesOK

ShownOK == talker \in Names /\ name \in Names /\ lookup \in Names \cup {NoLookup}

OthersOK ==
  /\ state \in States /\ link \in Links /\ ptt \in BOOLEAN /\ receiving \in BOOLEAN
  /\ air \in [Talkgroups -> Callsigns \cup {NoOne}] /\ events \in 0..MaxEvents

\* A choice is held against talkers of a higher priority too.
ChoiceIsManual == chosen # 0 => talkgroup = chosen /\ ~priorityMode

\* In a session the server was told what the client shows.
SessionIsTold ==
  state = "Connected" => server.tg = talkgroup /\ server.monitor = monitored

\* While a talker is shown, a lookup under way is one for that talker's name.
LookupIsTheirs ==
  talker # NoOne => name \in {NoOne, talker} /\ lookup \in {NoLookup, talker}

Held == SelectionOK /\ ChoiceIsManual

IInv == Held /\ ListsOK /\ ShownOK /\ OthersOK /\ SessionIsTold /\ LookupIsTheirs

LEMMA PartsAreTypeOK == SelectionOK /\ ListsOK /\ ShownOK /\ OthersOK => TypeOK
  BY DEF SelectionOK, PrioritiesOK, ListsOK, ShownOK, OthersOK, Servers, Names, TypeOK

-----------------------------------------------------------------------------
(* Lists of talkgroups. *)

\* A set of numbers has a least one.
LEMMA LeastExists ==
  ASSUME NEW T \in SUBSET Nat, T # {}
  PROVE  \E i \in T : \A j \in T : i <= j
<1>1. \E i \in T : \A j \in T : ~ (<<j, i>> \in OpToRel(<, Nat))
  BY NatLessThanWellFounded, WFMin
<1>2. \A i, j \in Nat : ~ (<<j, i>> \in OpToRel(<, Nat)) => i <= j
  BY DEF OpToRel
<1> QED BY <1>1, <1>2

LEMMA EntriesAreTyped ==
  ASSUME NEW S, NEW s \in Seq(S)
  PROVE  \A i \in 1..Len(s) : s[i] \in S
  OBVIOUS

\* What parseMonitoredTalkgroupsSpec returns: talkgroups above 0, each with a
\* priority of at most the highest.
LEMMA ConfiguredIsTyped ==
  ASSUME NEW spec \in Entries
  PROVE  /\ DOMAIN Configured(spec) \subseteq Talkgroups
         /\ \A tg \in DOMAIN Configured(spec) : Configured(spec)[tg] \in 0..MaxPriority
<1>1. \A i \in DOMAIN spec : i \in Nat /\ spec[i].tg \in SomeTg /\ spec[i].plus \in Nat
  <2>1. DOMAIN spec = 1..Len(spec) /\ Len(spec) \in Nat
    BY DEF Entries
  <2>2. \A i \in 1..Len(spec) : spec[i] \in [tg : SomeTg, plus : Nat]
    BY EntriesAreTyped DEF Entries
  <2> QED BY <2>1, <2>2
<1>2. DOMAIN Configured(spec) = {spec[i].tg : i \in DOMAIN spec} \ {0}
  BY DEF Configured
<1>3. ASSUME NEW tg \in DOMAIN Configured(spec)
      PROVE  Configured(spec)[tg] \in 0..MaxPriority
  <2> DEFINE IsFirst(i) == spec[i].tg = tg /\ \A j \in 1..(i - 1) : spec[j].tg # tg
  <2> DEFINE T == {i \in DOMAIN spec : spec[i].tg = tg}
  <2>1. T \in SUBSET Nat /\ T # {}
    BY <1>1, <1>2, <1>3
  <2>2. PICK i \in T : \A j \in T : i <= j
    BY <2>1, LeastExists
  <2>3. IsFirst(i)
    <3> SUFFICES ASSUME NEW j \in 1..(i - 1), spec[j].tg = tg
                 PROVE  FALSE
      BY <2>2
    <3>1. DOMAIN spec = 1..Len(spec) /\ Len(spec) \in Nat
      BY DEF Entries
    <3>2. j \in DOMAIN spec /\ j < i
      BY <3>1
    <3> QED BY <1>1, <2>1, <2>2, <3>2
  <2> DEFINE first == CHOOSE k \in DOMAIN spec : IsFirst(k)
  <2>4. first \in DOMAIN spec
    BY <2>2, <2>3
  <2>5. spec[first].plus \in Nat
    BY <1>1, <2>4
  <2>6. Configured(spec)[tg] =
          IF spec[first].plus < MaxPriority THEN spec[first].plus ELSE MaxPriority
    BY <1>2, <1>3 DEF Configured
  <2> HIDE DEF first
  <2> QED BY <2>5, <2>6, TalkgroupAssumption
<1> QED BY <1>1, <1>2, <1>3 DEF SomeTg

-----------------------------------------------------------------------------
(* The invariant. *)

LEMMA InitHolds == Init => IInv
<1> SUFFICES ASSUME Init PROVE IInv
  OBVIOUS
<1> USE TalkgroupAssumption
<1>1. Held
  BY DEF Init, Held, SelectionOK, ChoiceIsManual, Servers, SomeTg
<1>2. ListsOK
  <2>1. DOMAIN configured = {}
    BY DEF Init, Configured
  <2> QED BY <2>1 DEF Init, ListsOK, PrioritiesOK, SomeTg
<1>3. ShownOK /\ SessionIsTold /\ LookupIsTheirs
  BY DEF Init, ShownOK, SessionIsTold, LookupIsTheirs, Names
<1>4. OthersOK
  <2>1. state \in States /\ link \in Links /\ ptt \in BOOLEAN /\ receiving \in BOOLEAN
    BY DEF Init, States, Links
  <2>2. air \in [Talkgroups -> Callsigns \cup {NoOne}] /\ events \in 0..MaxEvents
    BY DEF Init
  <2> QED BY <2>1, <2>2 DEF OthersOK
<1> QED BY <1>1, <1>2, <1>3, <1>4 DEF IInv

\* What a step that touches the selection, and neither the choice nor the lists,
\* may make of it: the server in a session is told, and the choice is respected.
Moves(tg) ==
  /\ talkgroup' = tg /\ counter' \in Nat /\ timer' \in BOOLEAN
  /\ priorityMode' \in BOOLEAN
  /\ server' \in Servers /\ server'.monitor = server.monitor
  /\ state = "Connected" => server'.tg = tg

LEMMA ResetIsTyped ==
  ASSUME SelectionOK, NEW tg \in SomeTg, NEW seconds \in Nat, ResetTimer(tg, seconds)
  PROVE  counter' \in Nat /\ timer' \in BOOLEAN
<1>1. CASE tg = 0
  <2>1. counter' = 0 /\ timer' = FALSE
    BY <1>1 DEF ResetTimer, StopTimer
  <2> QED BY <2>1
<1>2. CASE tg # 0
  <2>1. counter' = seconds /\ timer' = (timer \/ state = "Connected")
    BY <1>2 DEF ResetTimer
  <2> QED BY <2>1 DEF SelectionOK
<1> QED BY <1>1, <1>2

LEMMA SelectMoves ==
  ASSUME SelectionOK, ListsOK, NEW tg \in SomeTg, NEW origin,
         SelectTalkgroupInternal(tg, origin)
  PROVE  Moves(tg) /\ (priorityMode' => tg = 0 \/ (priorityMode /\ origin \notin ByUser))
<1>1. counter' \in Nat /\ timer' \in BOOLEAN
  BY ResetIsTyped DEF SelectTalkgroupInternal, ListsOK
<1>2. /\ priorityMode' \in BOOLEAN
      /\ priorityMode' => tg = 0 \/ (priorityMode /\ origin \notin ByUser)
  <2>1. priorityMode' = (tg = 0 \/ (priorityMode /\ origin \notin ByUser))
    BY DEF SelectTalkgroupInternal
  <2>2. priorityMode' \in BOOLEAN
    BY <2>1
  <2>3. priorityMode' => tg = 0 \/ (priorityMode /\ origin \notin ByUser)
    BY <2>1
  <2> QED BY <2>2, <2>3
<1>3. /\ server' \in Servers /\ server'.monitor = server.monitor
      /\ state = "Connected" => server'.tg = tg
  BY DEF SelectTalkgroupInternal, SendSelect, SelectionOK, Servers
<1> QED BY <1>1, <1>2, <1>3 DEF Moves, SelectTalkgroupInternal

LEMMA ResetMoves ==
  ASSUME SelectionOK, SessionIsTold, NEW seconds \in Nat, ResetTimer(talkgroup, seconds),
         UNCHANGED <<talkgroup, server, timeout>>, priorityMode' \in BOOLEAN
  PROVE  Moves(talkgroup)
<1>1. counter' \in Nat /\ timer' \in BOOLEAN
  BY ResetIsTyped DEF SelectionOK
<1> QED BY <1>1 DEF Moves, SelectionOK, SessionIsTold

\* The selection after such a step.
LEMMA MovesHold ==
  ASSUME IInv, NEW tg \in SomeTg, Moves(tg), chosen' \in SomeTg,
         chosen' # 0 => tg = chosen' /\ ~priorityMode',
         UNCHANGED <<state, monitored>>
  PROVE  Held' /\ SessionIsTold'
<1>1. SelectionOK'
  BY DEF Moves, SelectionOK
<1> QED BY <1>1 DEF IInv, Moves, Held, ChoiceIsManual, SessionIsTold

\* What is shown of a talker after a frame about one.
LEMMA ShowingHolds ==
  ASSUME ShownOK, LookupIsTheirs,
         \/ \E callsign \in Names : ShowTalker(callsign)
         \/ HideTalker \/ UNCHANGED shown
  PROVE  ShownOK' /\ LookupIsTheirs'
  BY DEF ShownOK, LookupIsTheirs, ShowTalker, HideTalker, shown, Names

\* The parts as names, of which a step of a kind leaves some alone.
LEMMA ListsStay == ListsOK /\ UNCHANGED lists => ListsOK'
  BY DEF ListsOK, PrioritiesOK, lists

LEMMA ShownStays == ShownOK /\ LookupIsTheirs /\ UNCHANGED shown => ShownOK' /\ LookupIsTheirs'
  BY ShowingHolds

LEMMA SelectionStays ==
  IInv /\ UNCHANGED <<state, selection, monitored>> => Held' /\ SessionIsTold'
  BY DEF IInv, Held, SelectionOK, ChoiceIsManual, SessionIsTold, selection

LEMMA EventsCount == OthersOK /\ Happens => events' \in 0..MaxEvents
  BY TalkgroupAssumption DEF OthersOK, Happens

-----------------------------------------------------------------------------
(* One lemma for each group of actions. *)

\* Selecting by the user, by a transmission and by the timer.
LEMMA SelectingKeepsIInv ==
  ASSUME IInv,
         \/ \E tg \in SomeTg : SelectTalkgroup(tg) \/ RequestQsy(tg)
         \/ StartTransmission \/ OnTalkgroupSelectionTimer
  PROVE  IInv'
<1>0. /\ SelectionOK /\ ListsOK /\ ShownOK /\ LookupIsTheirs /\ OthersOK /\ SessionIsTold
      /\ chosen \in SomeTg /\ talkgroup \in SomeTg /\ defaultTg \in SomeTg /\ 0 \in SomeTg
      /\ timeout \in Nat
  BY DEF IInv, Held, SelectionOK, ListsOK, SomeTg
<1>1. /\ UNCHANGED <<state, link, lists, shown, receiving, air>>
      /\ ptt' \in BOOLEAN /\ events' \in 0..MaxEvents
  BY <1>0, EventsCount
  DEF SelectTalkgroup, RequestQsy, StartTransmission, OnTalkgroupSelectionTimer, session,
      radio, OthersOK
<1>2. ListsOK' /\ ShownOK' /\ LookupIsTheirs' /\ OthersOK'
  BY <1>0, <1>1, ListsStay, ShownStays DEF OthersOK
<1>3. UNCHANGED <<state, monitored, timeout>>
  BY <1>1 DEF lists
<1>4. ASSUME NEW tg \in SomeTg, SelectTalkgroup(tg)
      PROVE  Held' /\ SessionIsTold'
  <2>1. Moves(tg) /\ (priorityMode' => tg = 0)
    BY <1>0, <1>4, SelectMoves DEF SelectTalkgroup, ByUser
  <2> QED BY <1>3, <1>4, <2>1, MovesHold DEF SelectTalkgroup
<1>5. ASSUME NEW tg \in SomeTg, RequestQsy(tg)
      PROVE  Held' /\ SessionIsTold'
  <2>1. Moves(tg) /\ (priorityMode' => tg = 0 \/ priorityMode)
    BY <1>0, <1>5, SelectMoves DEF RequestQsy
  <2>2. chosen' # 0 => chosen # 0 /\ tg # 0 /\ tg = chosen'
    BY <1>5 DEF RequestQsy
  <2>3. chosen' \in SomeTg /\ (chosen' # 0 => tg = chosen' /\ ~priorityMode')
    BY <1>0, <2>1, <2>2 DEF IInv, Held, ChoiceIsManual
  <2> QED BY <1>3, <2>1, <2>3, MovesHold
<1>6. ASSUME StartTransmission
      PROVE  Held' /\ SessionIsTold'
  <2>1. CASE talkgroup = 0
    <3>1. /\ SelectTalkgroupInternal(defaultTg, "TxDefaultActivation")
          /\ defaultTg # 0 /\ chosen' = talkgroup'
      BY <1>6, <2>1 DEF StartTransmission
    <3>2. Moves(defaultTg) /\ ~priorityMode'
      BY <1>0, <3>1, SelectMoves DEF ByUser
    <3>3. chosen' = defaultTg
      BY <3>1, <3>2 DEF Moves
    <3>4. chosen' \in SomeTg /\ (chosen' # 0 => defaultTg = chosen' /\ ~priorityMode')
      BY <1>0, <3>2, <3>3
    <3> QED BY <1>0, <1>3, <3>2, <3>4, MovesHold
  <2>2. CASE talkgroup # 0
    <3>1. /\ ResetTimer(talkgroup, timeout) /\ UNCHANGED <<talkgroup, server>>
          /\ priorityMode' = FALSE /\ chosen' = talkgroup
      BY <1>6, <2>2 DEF StartTransmission
    <3>2. Moves(talkgroup)
      BY <1>0, <1>3, <3>1, ResetMoves
    <3>3. chosen' \in SomeTg /\ (chosen' # 0 => talkgroup = chosen' /\ ~priorityMode')
      BY <1>0, <3>1
    <3> QED BY <1>0, <1>3, <3>2, <3>3, MovesHold
  <2> QED BY <2>1, <2>2
<1>7. ASSUME OnTalkgroupSelectionTimer
      PROVE  Held' /\ SessionIsTold'
  <2>1. CASE SelectTalkgroupInternal(0, "Timeout") /\ chosen' = 0
    <3>1. Moves(0)
      BY <1>0, <2>1, SelectMoves
    <3>2. chosen' \in SomeTg /\ (chosen' # 0 => 0 = chosen' /\ ~priorityMode')
      BY <1>0, <2>1
    <3> QED BY <1>0, <1>3, <3>1, <3>2, MovesHold
  <2>2. CASE StopTimer /\ UNCHANGED <<talkgroup, priorityMode, server, chosen>>
    <3>1. counter' = 0 /\ timer' = FALSE
      BY <2>2 DEF StopTimer
    <3>2. SelectionOK'
      BY <1>0, <2>2, <3>1 DEF SelectionOK
    <3>3. ChoiceIsManual' /\ SessionIsTold'
      BY <1>3, <2>2 DEF IInv, Held, ChoiceIsManual, SessionIsTold
    <3> QED BY <3>2, <3>3 DEF Held
  <2>3. CASE /\ counter > 1 /\ counter' = counter - 1
             /\ UNCHANGED <<talkgroup, timer, priorityMode, server, chosen>>
    <3>1. counter' \in Nat
      BY <1>0, <2>3 DEF SelectionOK
    <3>2. SelectionOK'
      BY <1>0, <2>3, <3>1 DEF SelectionOK
    <3>3. ChoiceIsManual' /\ SessionIsTold'
      BY <1>3, <2>3 DEF IInv, Held, ChoiceIsManual, SessionIsTold
    <3> QED BY <3>2, <3>3 DEF Held
  <2> QED BY <1>7, <2>1, <2>2, <2>3 DEF OnTalkgroupSelectionTimer
<1>8. Held' /\ SessionIsTold'
  BY <1>4, <1>5, <1>6, <1>7
<1> QED BY <1>2, <1>8 DEF IInv
\* Steps that leave the selection, the lists and what is shown alone.
LEMMA RadioKeepsIInv ==
  ASSUME IInv, StopTransmission \/ ReceivedAudioStarts \/ ReceivedAudioStops
  PROVE  IInv'
<1>0. /\ ListsOK /\ ShownOK /\ LookupIsTheirs /\ OthersOK
      /\ UNCHANGED <<state, link, selection, lists, shown, air>>
  BY DEF IInv, StopTransmission, ReceivedAudioStarts, ReceivedAudioStops, session
<1>1. Held' /\ SessionIsTold'
  BY <1>0, SelectionStays DEF lists
<1>2. ptt' \in BOOLEAN /\ receiving' \in BOOLEAN
  BY <1>0 DEF OthersOK, StopTransmission, ReceivedAudioStarts, ReceivedAudioStops
<1>3. events' \in 0..MaxEvents
  BY <1>0, EventsCount
  DEF OthersOK, StopTransmission, ReceivedAudioStarts, ReceivedAudioStops
<1>4. OthersOK'
  BY <1>0, <1>2, <1>3 DEF OthersOK
<1> QED BY <1>0, <1>1, <1>4, ListsStay, ShownStays DEF IInv

\* A profile's lists, in a session and out of one.
LEMMA ListsAreTyped ==
  ASSUME NEW primary \in SomeTg, NEW spec \in Entries, ApplyMonitored(primary, spec)
  PROVE  PrioritiesOK' /\ monitored' \subseteq Talkgroups
<1>1. /\ DOMAIN Configured(spec) \subseteq Talkgroups
      /\ \A tg \in DOMAIN Configured(spec) : Configured(spec)[tg] \in 0..MaxPriority
  BY ConfiguredIsTyped
<1>2. PrioritiesOK'
  BY <1>1 DEF ApplyMonitored, PrioritiesOK
<1>3. monitored' \subseteq Talkgroups
  BY <1>1 DEF ApplyMonitored, Active, SomeTg
<1> QED BY <1>2, <1>3

LEMMA UpdateKeepsIInv ==
  ASSUME IInv, NEW profile \in Profiles, UpdateProfileConfiguration(profile)
  PROVE  IInv'
<1>0. /\ SelectionOK /\ ChoiceIsManual /\ ShownOK /\ LookupIsTheirs /\ OthersOK /\ SessionIsTold
      /\ profile.default \in SomeTg /\ profile.timeout \in Nat \ {0} /\ profile.spec \in Entries
  BY ProfilesAssumption DEF IInv, Held, SomeTg, Entries
<1>1. /\ UNCHANGED <<state, link, talkgroup, priorityMode, chosen, shown, ptt, receiving, air>>
      /\ defaultTg' = profile.default /\ timeout' = profile.timeout
      /\ ApplyMonitored(profile.default, profile.spec)
  BY DEF UpdateProfileConfiguration, session, radio
<1>2. monitored' \subseteq Talkgroups /\ ListsOK'
  BY <1>0, <1>1, ListsAreTyped DEF ListsOK
<1>3. OthersOK'
  BY <1>0, <1>1, EventsCount DEF OthersOK, UpdateProfileConfiguration
<1>4. SelectionOK' /\ SessionIsTold'
  <2>1. CASE state = "Connected"
    <3>1. /\ server' = [server EXCEPT !.monitor = monitored']
          /\ ResetTimer(talkgroup, profile.timeout)
      BY <2>1 DEF UpdateProfileConfiguration
    <3>2. counter' \in Nat /\ timer' \in BOOLEAN
      BY <1>0, <3>1, ResetIsTyped DEF SelectionOK
    <3>3. server' \in Servers /\ server'.tg = server.tg /\ server'.monitor = monitored'
      BY <1>0, <1>2, <3>1 DEF SelectionOK, Servers
    <3>4. SelectionOK'
      BY <1>0, <1>1, <3>2, <3>3 DEF SelectionOK
    <3> QED BY <1>0, <1>1, <2>1, <3>3, <3>4 DEF SessionIsTold
  <2>2. CASE state # "Connected"
    <3>1. UNCHANGED <<server, counter, timer>>
      BY <2>2 DEF UpdateProfileConfiguration
    <3> QED BY <1>0, <1>1, <2>2, <3>1 DEF SelectionOK, SessionIsTold
  <2> QED BY <2>1, <2>2
<1>5. ChoiceIsManual'
  BY <1>0, <1>1 DEF ChoiceIsManual
<1> QED BY <1>0, <1>1, <1>2, <1>3, <1>4, <1>5, ShownStays DEF IInv, Held

\* Where a session begins nothing is chosen and nobody is shown.
LEMMA BeginKeepsIInv ==
  ASSUME IInv, NEW tg \in SomeTg, NEW seconds \in Nat \ {0}, NEW list,
         DOMAIN list \subseteq Talkgroups,
         \A t \in DOMAIN list : list[t] \in 0..MaxPriority,
         Begin(tg, seconds, list)
  PROVE  IInv'
<1>0. SelectionOK /\ ListsOK /\ ShownOK /\ OthersOK
  BY DEF IInv, Held
<1>1. SelectionOK' /\ ChoiceIsManual'
  <2>1. /\ talkgroup' = tg /\ counter' = 0 /\ timer' = FALSE /\ priorityMode' = TRUE
        /\ chosen' = 0 /\ server' = server
    BY DEF Begin, StopTimer
  <2>2. 0 \in SomeTg
    BY DEF SomeTg
  <2> QED BY <1>0, <2>1, <2>2 DEF SelectionOK, ChoiceIsManual
<1>2. ListsOK'
  <2>1. defaultTg' \in SomeTg /\ timeout' \in Nat \ {0}
    BY <1>0 DEF Begin, ListsOK
  <2>2. monitored' \subseteq Talkgroups
    BY <2>1 DEF Begin, SomeTg
  <2>3. PrioritiesOK'
    BY DEF Begin, PrioritiesOK
  <2> QED BY <2>1, <2>2, <2>3 DEF ListsOK
<1>3. ShownOK' /\ LookupIsTheirs'
  BY <1>0 DEF Begin, ShownOK, LookupIsTheirs, Names
<1>4. OthersOK' /\ SessionIsTold'
  <2>1. state' = "Connecting" /\ link' \in {"opening", link}
    BY DEF Begin
  <2>2. UNCHANGED <<ptt, air>> /\ receiving' = FALSE /\ events' \in 0..MaxEvents
    BY <1>0, EventsCount DEF Begin
  <2>3. state' \in States /\ link' \in Links
    BY <1>0, <2>1 DEF OthersOK, States, Links
  <2> QED BY <1>0, <2>1, <2>2, <2>3 DEF OthersOK, SessionIsTold
<1> QED BY <1>1, <1>2, <1>3, <1>4 DEF IInv, Held

\* A drop forgets the choice and the talker.
LEMMA DropKeepsIInv ==
  ASSUME IInv, NEW preserve \in BOOLEAN, Dropped(preserve),
         link' \in Links, events' \in 0..MaxEvents
  PROVE  IInv'
<1>0. SelectionOK /\ ListsOK /\ OthersOK
  BY DEF IInv, Held
<1>1. SelectionOK' /\ ChoiceIsManual'
  <2>1. /\ talkgroup' = talkgroup /\ counter' = 0 /\ timer' = FALSE /\ priorityMode' = TRUE
        /\ chosen' = 0 /\ server' = [server EXCEPT !.tg = 0, !.monitor = {}]
    BY DEF Dropped, StopTimer
  <2>2. 0 \in SomeTg
    BY DEF SomeTg
  <2>3. server' \in Servers
    BY <1>0, <2>1, <2>2 DEF SelectionOK, Servers
  <2> QED BY <1>0, <2>1, <2>2, <2>3 DEF SelectionOK, ChoiceIsManual
<1>2. ListsOK'
  <2>1. monitored' \subseteq Talkgroups /\ UNCHANGED <<defaultTg, configured, timeout>>
    BY <1>0 DEF Dropped, ListsOK
  <2> QED BY <1>0, <2>1 DEF ListsOK, PrioritiesOK
<1>3. ShownOK' /\ LookupIsTheirs'
  BY DEF Dropped, ShownOK, LookupIsTheirs, Names
<1>4. OthersOK' /\ SessionIsTold'
  <2>1. /\ state' = "Disconnected" /\ ptt' = FALSE /\ receiving' = FALSE /\ air' = air
    BY DEF Dropped
  <2> QED BY <1>0, <2>1 DEF OthersOK, SessionIsTold, States
<1> QED BY <1>1, <1>2, <1>3, <1>4 DEF IInv, Held
\* The session's beginnings and ends.
LEMMA SessionKeepsIInv ==
  ASSUME IInv,
         \/ \E profile \in Profiles : ConnectToServer(profile)
         \/ Reconnect \/ HandleServerInfo \/ Refused
         \/ SessionLost \/ DisconnectFromServer \/ SocketCloses
  PROVE  IInv'
<1>0. SelectionOK /\ ChoiceIsManual /\ ListsOK /\ ShownOK /\ LookupIsTheirs /\ OthersOK
  BY DEF IInv, Held
<1>1. ASSUME NEW profile \in Profiles, ConnectToServer(profile)
      PROVE  IInv'
  <2>1. /\ profile.talkgroup \in SomeTg /\ profile.timeout \in Nat \ {0}
        /\ profile.spec \in Entries
    BY ProfilesAssumption DEF SomeTg, Entries
  <2> DEFINE list == Configured(profile.spec)
  <2>2. DOMAIN list \subseteq Talkgroups /\ \A t \in DOMAIN list : list[t] \in 0..MaxPriority
    BY <2>1, ConfiguredIsTyped
  <2>3. Begin(profile.talkgroup, profile.timeout, list)
    BY <1>1 DEF ConnectToServer
  <2> HIDE DEF list
  <2> QED BY <2>1, <2>2, <2>3, BeginKeepsIInv
<1>2. CASE Reconnect
  <2>1. /\ talkgroup \in SomeTg /\ timeout \in Nat \ {0}
        /\ DOMAIN configured \subseteq Talkgroups
        /\ \A t \in DOMAIN configured : configured[t] \in 0..MaxPriority
    BY <1>0 DEF SelectionOK, ListsOK, PrioritiesOK
  <2>2. Begin(talkgroup, timeout, configured)
    BY <1>2 DEF Reconnect
  <2> QED BY <2>1, <2>2, BeginKeepsIInv
<1>3. CASE HandleServerInfo
  <2>1. /\ UNCHANGED <<talkgroup, priorityMode, chosen, lists, shown, radio, air, events>>
        /\ state' = "Connected" /\ link' = "open"
        /\ server' = [server EXCEPT !.tg = talkgroup, !.monitor = monitored]
    BY <1>3 DEF HandleServerInfo
  <2>2. counter' \in Nat /\ timer' \in BOOLEAN
    <3>1. CASE talkgroup = 0
      <4>1. counter' = 0 /\ timer' = FALSE
        BY <1>3, <3>1 DEF HandleServerInfo, StopTimer
      <4> QED BY <4>1
    <3>2. CASE talkgroup # 0
      <4>1. counter' = timeout /\ timer' = TRUE
        BY <1>3, <3>2 DEF HandleServerInfo
      <4> QED BY <1>0, <4>1 DEF ListsOK
    <3> QED BY <3>1, <3>2
  <2>3. server' \in Servers /\ server'.tg = talkgroup /\ server'.monitor = monitored
    BY <1>0, <2>1 DEF SelectionOK, ListsOK, Servers
  <2>4. SelectionOK' /\ ChoiceIsManual'
    BY <1>0, <2>1, <2>2, <2>3 DEF SelectionOK, ChoiceIsManual
  <2>5. OthersOK'
    BY <1>0, <2>1 DEF OthersOK, States, Links, radio
  <2>6. SessionIsTold'
    BY <2>1, <2>3 DEF SessionIsTold, lists
  <2> QED BY <1>0, <2>1, <2>4, <2>5, <2>6, ListsStay, ShownStays DEF IInv, Held
<1>4. CASE Refused
  <2>1. /\ UNCHANGED <<selection, lists, shown, radio, air>>
        /\ state' = "Disconnected" /\ link' = "refused" /\ Happens
    BY <1>4 DEF Refused
  <2>2. SelectionOK' /\ ChoiceIsManual'
    BY <1>0, <2>1 DEF SelectionOK, ChoiceIsManual, selection
  <2>3. OthersOK' /\ SessionIsTold'
    BY <1>0, <2>1, EventsCount DEF OthersOK, SessionIsTold, States, Links, radio
  <2> QED BY <1>0, <2>1, <2>2, <2>3, ListsStay, ShownStays DEF IInv, Held
<1>5. CASE SessionLost
  <2>1. link' \in Links /\ events' \in 0..MaxEvents /\ Dropped(TRUE)
    BY <1>0, <1>5, EventsCount DEF SessionLost, Links
  <2> QED BY <2>1, DropKeepsIInv
<1>6. CASE DisconnectFromServer
  <2>1. link' \in Links /\ events' \in 0..MaxEvents /\ Dropped(FALSE)
    BY <1>0, <1>6, EventsCount DEF DisconnectFromServer, Links
  <2> QED BY <2>1, DropKeepsIInv
<1>7. CASE SocketCloses
  <2>1. link' = "none" /\ link' \in Links /\ events' = events /\ events' \in 0..MaxEvents
    BY <1>0, <1>7 DEF SocketCloses, Links, OthersOK
  <2>2. CASE Dropped(TRUE)
    BY <2>1, <2>2, DropKeepsIInv
  <2>3. CASE UNCHANGED <<state, selection, lists, shown, radio, air>>
    <3>1. Held' /\ SessionIsTold'
      BY <2>3, SelectionStays DEF lists
    <3>2. OthersOK'
      BY <1>0, <2>1, <2>3 DEF OthersOK, radio
    <3> QED BY <1>0, <2>3, <3>1, <3>2, ListsStay, ShownStays DEF IInv
  <2> QED BY <1>7, <2>2, <2>3 DEF SocketCloses
<1> QED BY <1>1, <1>2, <1>3, <1>4, <1>5, <1>6, <1>7

\* A talker moves the client only where nothing is chosen.
LEMMA TalkerMoves ==
  ASSUME IInv, NEW tg \in Talkgroups, NEW callsign \in Names,
         HandleTalkerStart(tg, callsign), UNCHANGED <<state, lists, chosen>>
  PROVE  /\ Held' /\ SessionIsTold'
         /\ ShowTalker(callsign) \/ HideTalker \/ UNCHANGED shown
<1>0. /\ SelectionOK /\ ChoiceIsManual /\ ListsOK /\ SessionIsTold
      /\ tg \in SomeTg /\ tg # 0 /\ talkgroup \in SomeTg /\ chosen' = chosen
      /\ timeout \in Nat /\ chosen' \in SomeTg /\ UNCHANGED <<state, monitored, timeout>>
  BY TalkgroupAssumption DEF IInv, Held, SelectionOK, ListsOK, SomeTg, lists
<1>1. \/ /\ UNCHANGED <<talkgroup, counter, timer, priorityMode, server>>
         /\ HideTalker \/ UNCHANGED shown
      \/ /\ tg = talkgroup /\ ResetTimer(tg, timeout)
         /\ UNCHANGED <<talkgroup, priorityMode, server>> /\ ShowTalker(callsign)
      \/ /\ talkgroup = 0 /\ SelectTalkgroupInternal(tg, "RemoteActivation")
         /\ ShowTalker(callsign)
      \/ /\ priorityMode /\ SelectTalkgroupInternal(tg, "RemotePriorityActivation")
         /\ ShowTalker(callsign)
  BY DEF HandleTalkerStart, ShouldHandleTalkerStart
<1>2. ASSUME UNCHANGED <<talkgroup, counter, timer, priorityMode, server>>
      PROVE  Held' /\ SessionIsTold'
  <2>1. UNCHANGED selection
    BY <1>0, <1>2 DEF selection
  <2> QED BY <1>0, <2>1, SelectionStays
<1>3. ASSUME tg = talkgroup, ResetTimer(tg, timeout),
             UNCHANGED <<talkgroup, priorityMode, server>>
      PROVE  Held' /\ SessionIsTold'
  <2>1. priorityMode' \in BOOLEAN
    BY <1>0, <1>3 DEF SelectionOK
  <2>2. Moves(talkgroup)
    BY <1>0, <1>3, <2>1, ResetMoves
  <2>3. chosen' # 0 => talkgroup = chosen' /\ ~priorityMode'
    BY <1>0, <1>3 DEF ChoiceIsManual
  <2> QED BY <1>0, <2>2, <2>3, MovesHold
<1>4. ASSUME NEW origin, talkgroup = 0 \/ priorityMode, SelectTalkgroupInternal(tg, origin)
      PROVE  Held' /\ SessionIsTold'
  <2>1. Moves(tg)
    BY <1>0, <1>4, SelectMoves
  <2>2. chosen' = 0
    BY <1>0, <1>4 DEF ChoiceIsManual
  <2> QED BY <1>0, <2>1, <2>2, MovesHold
<1>5. Held' /\ SessionIsTold'
  BY <1>1, <1>2, <1>3, <1>4
<1>6. ShowTalker(callsign) \/ HideTalker \/ UNCHANGED shown
  BY <1>1
<1> QED BY <1>5, <1>6
\* Talkers that come and go, and the answer about a name.
LEMMA TalkersKeepIInv ==
  ASSUME IInv,
         \/ \E tg \in Talkgroups : \E callsign \in Callsigns : TalkerStarts(tg, callsign)
         \/ \E tg \in Talkgroups : TalkerStops(tg)
         \/ OnNameLookupFinished
  PROVE  IInv'
<1>0. ListsOK /\ ShownOK /\ LookupIsTheirs /\ OthersOK
  BY DEF IInv
<1>1. ASSUME NEW tg \in Talkgroups, NEW callsign \in Callsigns, TalkerStarts(tg, callsign)
      PROVE  IInv'
  <2>1. /\ UNCHANGED <<state, link, lists, ptt, receiving, chosen>> /\ Happens
        /\ air' = [air EXCEPT ![tg] = callsign]
    BY <1>1 DEF TalkerStarts, session, radio
  <2>2. OthersOK'
    BY <1>0, <2>1, EventsCount DEF OthersOK
  <2>3. callsign \in Names /\ LegacyCallsign(callsign) \in Names
    BY DEF Names, LegacyCallsign
  <2>4. CASE HandleTalkerStart(tg, callsign)
    <3>1. /\ Held' /\ SessionIsTold'
          /\ ShowTalker(callsign) \/ HideTalker \/ UNCHANGED shown
      BY <2>1, <2>3, <2>4, TalkerMoves
    <3>2. ShownOK' /\ LookupIsTheirs'
      BY <1>0, <2>3, <3>1, ShowingHolds
    <3> QED BY <1>0, <2>1, <2>2, <3>1, <3>2, ListsStay DEF IInv
  <2>5. CASE /\ UNCHANGED <<talkgroup, counter, timer, priorityMode, server>>
             /\ \/ \E c \in Names : ShowTalker(c)
                \/ HideTalker \/ UNCHANGED shown
    <3>1. UNCHANGED selection /\ UNCHANGED monitored
      BY <2>1, <2>5 DEF selection, lists
    <3>2. Held' /\ SessionIsTold'
      BY <2>1, <3>1, SelectionStays
    <3>3. ShownOK' /\ LookupIsTheirs'
      BY <1>0, <2>5, ShowingHolds
    <3> QED BY <1>0, <2>1, <2>2, <3>2, <3>3, ListsStay DEF IInv
  <2>6. \/ HandleTalkerStart(tg, callsign)
        \/ HandleTalkerStartV1(LegacyCallsign(callsign))
        \/ UNCHANGED <<shown, talkgroup, counter, timer, priorityMode, server>>
    BY <1>1 DEF TalkerStarts
  <2>7. CASE HandleTalkerStartV1(LegacyCallsign(callsign))
    BY <2>3, <2>5, <2>7 DEF HandleTalkerStartV1
  <2> QED BY <2>4, <2>5, <2>6, <2>7
<1>2. ASSUME NEW tg \in Talkgroups, TalkerStops(tg)
      PROVE  IInv'
  <2>1. /\ UNCHANGED <<state, link, selection, lists, ptt, receiving, events>>
        /\ air' = [air EXCEPT ![tg] = NoOne]
        /\ HideTalker \/ UNCHANGED shown
    BY <1>2 DEF TalkerStops, HandleTalkerStop, session, radio
  <2>2. OthersOK'
    BY <1>0, <2>1 DEF OthersOK
  <2>3. Held' /\ SessionIsTold'
    BY <2>1, SelectionStays DEF lists
  <2> QED BY <1>0, <2>1, <2>2, <2>3, ListsStay, ShowingHolds DEF IInv
<1>3. CASE OnNameLookupFinished
  <2>1. /\ UNCHANGED <<state, link, selection, lists, ptt, receiving, air, events, talker>>
        /\ lookup # NoLookup /\ lookup' = NoLookup /\ name' \in {name, lookup}
    BY <1>3 DEF OnNameLookupFinished, session, radio
  <2>2. OthersOK'
    BY <1>0, <2>1 DEF OthersOK
  <2>3. Held' /\ SessionIsTold'
    BY <2>1, SelectionStays DEF lists
  <2>4. ShownOK' /\ LookupIsTheirs'
    BY <1>0, <2>1 DEF ShownOK, LookupIsTheirs
  <2> QED BY <1>0, <2>1, <2>2, <2>3, <2>4, ListsStay DEF IInv
<1> QED BY <1>1, <1>2, <1>3

LEMMA StepKeepsIInv == IInv /\ [Next]_vars => IInv'
<1> SUFFICES ASSUME IInv, [Next]_vars PROVE IInv'
  OBVIOUS
<1>1. CASE User
  BY <1>1, SelectingKeepsIInv, UpdateKeepsIInv, SessionKeepsIInv, RadioKeepsIInv
  DEF User, SomeTg
<1>2. CASE Peer
  BY <1>2, SelectingKeepsIInv, TalkersKeepIInv, SessionKeepsIInv, RadioKeepsIInv
  DEF Peer, SomeTg
<1>3. CASE Client
  BY <1>3, SelectingKeepsIInv, TalkersKeepIInv, SessionKeepsIInv DEF Client
<1>4. CASE UNCHANGED vars
  <2>1. UNCHANGED <<state, link, selection, lists, shown, ptt, receiving, air, events>>
    BY <1>4 DEF vars, session, radio
  <2>2. ListsOK' /\ ShownOK' /\ LookupIsTheirs' /\ OthersOK'
    BY <2>1, ListsStay, ShownStays DEF IInv, OthersOK
  <2> QED BY <2>1, <2>2, SelectionStays DEF IInv, lists
<1> QED BY <1>1, <1>2, <1>3, <1>4 DEF Next

\* The inductive invariant holds in every behaviour of the user, the server and
\* the client.
THEOREM Invariance == Spec => []IInv
  BY InitHolds, StepKeepsIInv, PTL DEF Spec

\* In a session the server serves the talkgroup and the list the client shows, and
\* the variables keep their types.
THEOREM ServerIsTold == Spec => []ServerKnows
<1>1. IInv => ServerKnows
  BY PartsAreTypeOK DEF IInv, Held, SessionIsTold, ServerKnows
<1> QED BY <1>1, Invariance, PTL

\* What the user or a QSY chose no talker takes away.
THEOREM ChoiceIsKept == Spec => []ChoiceHolds
<1>1. IInv => ChoiceHolds
  BY DEF IInv, Held, ChoiceIsManual, ChoiceHolds
<1> QED BY <1>1, Invariance, PTL

\* No name is shown with a talker it is not the name of.
THEOREM NamesFit == Spec => []NameIsTheirs
<1>1. IInv => NameIsTheirs
  BY DEF IInv, LookupIsTheirs, NameIsTheirs
<1> QED BY <1>1, Invariance, PTL
=============================================================================
