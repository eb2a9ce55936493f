------------------------- MODULE Coordinator_proofs -------------------------
(***************************************************************************)
(* Proofs about Coordinator, for any devices, times and options: every device *)
(* in the table has a tracker, whatever restarts and outages there are; the  *)
(* grace period is honoured as long as the plugin is not restarted, and ends *)
(* as long as refreshes get through and nothing is held up; and once it is   *)
(* calm the trackers come to agree with the router.                         *)
(***************************************************************************)
EXTENDS Coordinator, TLAPS

\* A signal is sent only once there is data to add entities from, so a platform
\* that waits for signals must find self.data set.
PlatformsHaveData == entry \in {"platforms", "loaded"} => hasData

TrackerInv == hasData \in BOOLEAN /\ PlatformsHaveData /\ EveryDeviceHasATracker

LEMMA TrackerInit == Init => TrackerInv
BY DEF Init, TrackerInv, PlatformsHaveData, EveryDeviceHasATracker

LEMMA TrackerElsewhere ==
  TrackerInv /\ UNCHANGED haVars => TrackerInv'
BY DEF TrackerInv, PlatformsHaveData, EveryDeviceHasATracker, haVars

LEMMA TrackerApply == TrackerInv /\ ApplyAnswer => TrackerInv'
<1> SUFFICES ASSUME TrackerInv, ApplyAnswer PROVE TrackerInv'
  OBVIOUS
<1>1. DOMAIN devices' = DOMAIN answer BY DEF ApplyAnswer, Updated
<1>2. hasData' BY DEF ApplyAnswer
<1>3. EveryDeviceHasATracker'
  <2> SUFFICES ASSUME entry' = "loaded" PROVE DOMAIN devices' \subseteq tracked'
    BY DEF EveryDeviceHasATracker
  <2>1. entry = "loaded" BY DEF ApplyAnswer
  <2>2. hasData BY <2>1 DEF TrackerInv, PlatformsHaveData
  <2>3. CASE DOMAIN answer \ DOMAIN devices # {}
    <3>1. tracked' = tracked \union DOMAIN answer
      BY <2>1, <2>2, <2>3 DEF ApplyAnswer, SignalledDevices
    <3> QED BY <1>1, <3>1
  <2>4. CASE DOMAIN answer \ DOMAIN devices = {}
    <3>1. tracked' = tracked BY <2>4 DEF ApplyAnswer
    <3>2. DOMAIN devices \subseteq tracked
      BY <2>1 DEF TrackerInv, EveryDeviceHasATracker
    <3> QED BY <1>1, <2>4, <3>1, <3>2
  <2> QED BY <2>3, <2>4
<1> QED BY <1>2, <1>3 DEF TrackerInv, PlatformsHaveData, ApplyAnswer

LEMMA TrackerStep == TrackerInv /\ [Next]_vars => TrackerInv'
<1> SUFFICES ASSUME TrackerInv, [Next]_vars PROVE TrackerInv'
  OBVIOUS
<1>1. CASE Router
  BY <1>1, TrackerElsewhere DEF Router, Register, Delete, Connect, Disconnect, haVars
<1>2. CASE Tick BY <1>2, TrackerElsewhere DEF Tick, haVars
<1>3. CASE Plugin
  BY <1>3, TrackerElsewhere DEF Plugin, PluginRefresh, PluginRefreshPartly, Refresh,
                                Handlers, BusEvent, MarkSeen, PluginRestart
<1>4. CASE Entry
  BY <1>4 DEF Entry, SetUpEntry, SetUpTracker, UnloadEntry, TrackerInv,
              PlatformsHaveData, EveryDeviceHasATracker
<1>5. CASE BeginUpdate \/ Answer BY <1>5, TrackerElsewhere DEF BeginUpdate, Answer
<1>6. CASE UpdateFails
  BY <1>6 DEF UpdateFails, TrackerInv, PlatformsHaveData, EveryDeviceHasATracker
<1>7. CASE ApplyAnswer BY <1>7, TrackerApply
<1>8. CASE UNCHANGED vars BY <1>8, TrackerElsewhere DEF vars
<1> QED BY <1>1, <1>2, <1>3, <1>4, <1>5, <1>6, <1>7, <1>8 DEF Next, Update

\* However devices come and go around the set-up of the platform (add_new_devices,
\* device_tracker.py), each one in the table has a tracker.
THEOREM DevicesTracked == Spec => []EveryDeviceHasATracker
<1>1. TrackerInv => EveryDeviceHasATracker BY DEF TrackerInv
<1> QED BY <1>1, TrackerInit, TrackerStep, PTL DEF Spec

-----------------------------------------------------------------------------
(* Type correctness *)

LEMMA TimeIsNat == Time \subseteq Nat /\ 0 \in Time
BY TimesAssumption DEF Time

LEMMA BuiltMap ==
  ASSUME NEW S, NEW D \in SUBSET MAC, NEW f \in [D -> S]
  PROVE  f \in MapsTo(S)
BY DEF MapsTo

LEMMA MapDomain ==
  ASSUME NEW S, NEW f \in MapsTo(S)
  PROVE  DOMAIN f \in SUBSET MAC /\ f \in [DOMAIN f -> S]
BY DEF MapsTo

LEMMA EmptyMap == ASSUME NEW S PROVE Empty \in MapsTo(S)
<1>1. Empty \in [{} -> S] BY DEF Empty
<1> QED BY <1>1, BuiltMap

LEMMA TypeInit == Init => TypeOK
<1>1. Empty \in MapsTo(Served) /\ Empty \in MapsTo(SprDevice) BY EmptyMap
<1>2. 1 \in Time \ {0} BY TimesAssumption DEF Time
<1>3. Never \in [MAC -> Time] BY TimeIsNat DEF Never
<1> HIDE DEF Never
<1> QED BY <1>1, <1>2, <1>3 DEF Init, TypeOK

LEMMA TypeRouter == TypeOK /\ (Router \/ Tick) => TypeOK'
<1> SUFFICES ASSUME TypeOK, Router \/ Tick PROVE TypeOK'
  OBVIOUS
<1> USE DEF TypeOK, pluginVars, updateVars, haVars
<1>1. ASSUME NEW m \in MAC, Register(m) PROVE TypeOK' BY <1>1 DEF Register
<1>2. ASSUME NEW m \in MAC, Delete(m) PROVE TypeOK' BY <1>2, TimeIsNat DEF Delete
<1>3. ASSUME NEW m \in MAC, Connect(m) PROVE TypeOK' BY <1>3 DEF Connect
<1>4. ASSUME NEW m \in MAC, Disconnect(m) PROVE TypeOK' BY <1>4 DEF Disconnect
<1>5. CASE Tick
  <2>1. clock' \in Time \ {0} BY <1>5, TimesAssumption DEF Tick, Time
  <2>2. onlineAt' \in [MAC -> Time] BY <1>5, <2>1 DEF Tick
  <2> QED BY <1>5, <2>1, <2>2 DEF Tick
<1> QED BY <1>1, <1>2, <1>3, <1>4, <1>5 DEF Router

\* Whole or not, a refresh is one that finds some of the devices on the network.
LEMMA RefreshKinds ==
  PluginRefresh \/ PluginRefreshPartly
    => \E found \in SUBSET (registered \cap online) : Refresh(found)
BY DEF PluginRefresh, PluginRefreshPartly

LEMMA TypePlugin == TypeOK /\ Plugin => TypeOK'
<1> SUFFICES ASSUME TypeOK, Plugin PROVE TypeOK'
  OBVIOUS
<1> USE DEF TypeOK, routerVars, updateVars, haVars
<1>1. ASSUME NEW found \in SUBSET (registered \cap online), Refresh(found) PROVE TypeOK'
  <2>1. seen' \in [MAC -> Time] BY <1>1 DEF Refresh
  <2>2. served' = [m \in registered |-> [connected |-> m \in found,
                                         lastSeen |-> seen'[m]]]
    BY <1>1 DEF Refresh
  <2>3. served' \in [registered -> Served] BY <2>1, <2>2 DEF Served
  <2>4. served' \in MapsTo(Served) BY <2>3, BuiltMap
  <2>5. published' = [m \in MAC |-> IF m \in registered /\ seen'[m] > published[m]
                                      THEN seen'[m] ELSE published[m]]
    BY <1>1 DEF Refresh
  <2>6. published' \in [MAC -> Time] BY <2>1, <2>5
  <2> QED BY <1>1, <2>1, <2>4, <2>6 DEF Refresh
<1>2. ASSUME NEW m \in MAC, BusEvent(m) PROVE TypeOK' BY <1>2 DEF BusEvent
<1>3. ASSUME NEW m \in MAC, NEW t \in Time, MarkSeen(m, t) PROVE TypeOK'
  BY <1>3 DEF MarkSeen
<1>4. CASE PluginRestart BY <1>4, EmptyMap, TimeIsNat DEF PluginRestart, Never
<1> QED BY <1>1, <1>2, <1>3, <1>4, RefreshKinds DEF Plugin, Handlers

LEMMA TypeEntry == TypeOK /\ Entry => TypeOK'
<1> SUFFICES ASSUME TypeOK, Entry PROVE TypeOK'
  OBVIOUS
<1> USE DEF TypeOK, routerVars, pluginVars, updateVars
<1>1. CASE SetUpEntry BY <1>1, EmptyMap DEF SetUpEntry
<1>2. CASE SetUpTracker BY <1>2, MapDomain DEF SetUpTracker
<1>3. CASE UnloadEntry BY <1>3, EmptyMap, TimeIsNat DEF UnloadEntry, Never
<1> QED BY <1>1, <1>2, <1>3 DEF Entry

\* What an update computes for a device of the answer.
LEMMA LastSeenIsTime ==
  ASSUME TypeOK, NEW m \in DOMAIN answer
  PROVE  /\ answer[m] \in Served
         /\ OldLastSeen(m) \in Time
         /\ NewLastSeen(m) \in Time
<1>1. answer[m] \in Served BY MapDomain DEF TypeOK
<1>2. OldLastSeen(m) \in Time
  <2>1. ASSUME m \in DOMAIN devices PROVE devices[m] \in SprDevice
    BY <2>1, MapDomain DEF TypeOK
  <2> QED BY <2>1, TimeIsNat DEF OldLastSeen, SprDevice
<1> QED BY <1>1, <1>2 DEF NewLastSeen, TypeOK, Served

LEMMA TypeUpdate == TypeOK /\ Update => TypeOK'
<1> SUFFICES ASSUME TypeOK, Update PROVE TypeOK'
  OBVIOUS
<1> USE DEF TypeOK, routerVars, pluginVars, haVars
<1>1. CASE BeginUpdate BY <1>1 DEF BeginUpdate
<1>2. CASE Answer BY <1>2 DEF Answer
<1>3. CASE UpdateFails BY <1>3 DEF UpdateFails
<1>4. CASE ApplyAnswer
  <2>1. DOMAIN answer \in SUBSET MAC BY MapDomain
  <2>2. Updated \in [DOMAIN answer -> SprDevice]
    <3>1. \A m \in DOMAIN answer :
            /\ answer[m].connected \in BOOLEAN
            /\ (answer[m].connected \/ WithinGrace(m)) \in BOOLEAN
            /\ NewLastSeen(m) \in Time
      BY LastSeenIsTime DEF Served
    <3> QED BY <3>1 DEF Updated, SprDevice
  <2>3. devices' \in MapsTo(SprDevice) BY <1>4, <2>1, <2>2, BuiltMap DEF ApplyAnswer
  <2>4. tracked' \in SUBSET MAC BY <1>4, <2>1 DEF ApplyAnswer, SignalledDevices
  <2>5. answer' \in MapsTo(Served) /\ vouched' \in [MAC -> Time]
    BY <1>4, EmptyMap, TimeIsNat DEF ApplyAnswer, Never
  <2> QED BY <1>4, <2>3, <2>4, <2>5 DEF ApplyAnswer
<1> QED BY <1>1, <1>2, <1>3, <1>4 DEF Update

LEMMA TypeStep == TypeOK /\ [Next]_vars => TypeOK'
<1> SUFFICES ASSUME TypeOK, [Next]_vars PROVE TypeOK'
  OBVIOUS
<1>1. CASE UNCHANGED vars
  BY <1>1 DEF vars, routerVars, pluginVars, updateVars, haVars, TypeOK
<1> QED BY <1>1, TypeRouter, TypePlugin, TypeEntry, TypeUpdate DEF Next

\* Every variable of Coordinator keeps its type; in particular the tables hold
\* devices only, with times on the clock.
THEOREM TypeCorrect == Spec => []TypeOK
BY TypeInit, TypeStep, PTL DEF Spec

-----------------------------------------------------------------------------
(* The grace period. Until the plugin is restarted, a device with a published      *)
(* sighting stays in the snapshot and in the answer for as long as the router has  *)
(* it; and until a handler stores a time older than a published one, whatever      *)
(* sighting was published is still remembered, served and in the answer.           *)

ServedLists == \A m \in MAC : published[m] # 0 => m \in registered \cap DOMAIN served
AnswerLists == pc = "answered" => \A m \in MAC : vouched[m] # 0 => m \in DOMAIN answer

ListsInv == ServedLists /\ AnswerLists

SeenIsPast ==
  /\ \A m \in MAC : seen[m] <= clock
  /\ \A m \in MAC, t \in Time : <<m, t>> \in sightings => t <= clock
SeenKeepsUp == \A m \in MAC : published[m] <= seen[m]
ServedKeepsUp == \A m \in DOMAIN served : published[m] <= served[m].lastSeen
AnswerKeepsUp == \A m \in DOMAIN answer : vouched[m] <= answer[m].lastSeen

GraceInv == SeenIsPast /\ SeenKeepsUp /\ ServedKeepsUp /\ AnswerKeepsUp

Restarted == "restart" \in faults
Reordered == "reordered" \in faults

\* All that the grace period rests on.
PublishedInv == Restarted \/ (ListsInv /\ (Reordered \/ GraceInv))

LEMMA PublishedInit == Init => PublishedInv
BY TimeIsNat DEF Init, PublishedInv, ListsInv, ServedLists, AnswerLists, GraceInv,
                 SeenIsPast, SeenKeepsUp, ServedKeepsUp, AnswerKeepsUp, Never, Empty

LEMMA TablesTyped ==
  ASSUME TypeOK
  PROVE  /\ clock \in Nat
         /\ \A m \in MAC : seen[m] \in Nat /\ published[m] \in Nat /\ vouched[m] \in Nat
         /\ \A m \in DOMAIN served : m \in MAC /\ served[m].lastSeen \in Nat
         /\ \A m \in DOMAIN answer : m \in MAC /\ answer[m].lastSeen \in Nat
<1>1. ASSUME NEW f \in MapsTo(Served), NEW m \in DOMAIN f
      PROVE  m \in MAC /\ f[m].lastSeen \in Nat
  <2>1. m \in MAC /\ f[m] \in Served BY <1>1, MapDomain
  <2> QED BY <2>1, TimeIsNat DEF Served
<1>2. served \in MapsTo(Served) /\ answer \in MapsTo(Served) BY DEF TypeOK
<1>3. \A m \in DOMAIN served : m \in MAC /\ served[m].lastSeen \in Nat BY <1>1, <1>2
<1>4. \A m \in DOMAIN answer : m \in MAC /\ answer[m].lastSeen \in Nat BY <1>1, <1>2
<1> QED BY <1>3, <1>4, TimeIsNat DEF TypeOK

LEMMA ListsDelete ==
  ASSUME TypeOK, ListsInv, NEW d \in MAC, Delete(d)
  PROVE  ListsInv'
<1>1. \A m \in MAC : published'[m] = IF m = d THEN 0 ELSE published[m]
  BY DEF Delete, TypeOK
<1>2. \A m \in MAC : vouched'[m] = IF m = d THEN 0 ELSE vouched[m]
  BY DEF Delete, TypeOK
<1>3. registered' = registered \ {d} /\ UNCHANGED <<served, pc, answer>> BY DEF Delete
<1> QED BY <1>1, <1>2, <1>3 DEF ListsInv, ServedLists, AnswerLists

LEMMA ListsRefresh ==
  ASSUME TypeOK, ListsInv, NEW found \in SUBSET (registered \cap online), Refresh(found)
  PROVE  ListsInv'
<1>1. DOMAIN served' = registered /\ registered' = registered
  BY DEF Refresh, routerVars
<1>2. \A m \in MAC \ registered : published'[m] = published[m] BY DEF Refresh
<1>3. ServedLists' BY <1>1, <1>2 DEF ListsInv, ServedLists
<1>4. AnswerLists' BY DEF Refresh, updateVars, ListsInv, AnswerLists
<1> QED BY <1>3, <1>4 DEF ListsInv

\* What is listed, served and answered stays so in every step but a restart.
LEMMA ListsStep == TypeOK /\ ListsInv /\ [Next]_vars /\ ~PluginRestart => ListsInv'
<1> SUFFICES ASSUME TypeOK, ListsInv, [Next]_vars, ~PluginRestart PROVE ListsInv'
  OBVIOUS
<1>1. ASSUME NEW m \in MAC, Delete(m) PROVE ListsInv' BY <1>1, ListsDelete
<1>2. CASE PluginRefresh \/ PluginRefreshPartly BY <1>2, RefreshKinds, ListsRefresh
<1> USE DEF ListsInv, ServedLists, AnswerLists, pluginVars, updateVars, routerVars
<1>3. ASSUME NEW m \in MAC, Register(m) \/ Connect(m) \/ Disconnect(m)
      PROVE  ListsInv'
  BY <1>3 DEF Register, Connect, Disconnect
<1>4. CASE Tick BY <1>4 DEF Tick
<1>5. CASE Handlers BY <1>5 DEF Handlers, BusEvent, MarkSeen
<1>6. CASE Entry BY <1>6 DEF Entry, SetUpEntry, SetUpTracker, UnloadEntry
<1>7. CASE Update
  <2>1. CASE Answer BY <2>1 DEF Answer
  <2>2. CASE BeginUpdate \/ UpdateFails \/ ApplyAnswer
    BY <2>2 DEF BeginUpdate, UpdateFails, ApplyAnswer
  <2> QED BY <1>7, <2>1, <2>2 DEF Update
<1>8. CASE UNCHANGED vars BY <1>8 DEF vars
<1> QED BY <1>1, <1>2, <1>3, <1>4, <1>5, <1>6, <1>7, <1>8 DEF Next, Router, Plugin

LEMMA GraceDelete ==
  ASSUME TypeOK, GraceInv, NEW d \in MAC, Delete(d)
  PROVE  GraceInv'
<1>1. \A m \in MAC : published'[m] = IF m = d THEN 0 ELSE published[m]
  BY DEF Delete, TypeOK
<1>2. \A m \in MAC : vouched'[m] = IF m = d THEN 0 ELSE vouched[m]
  BY DEF Delete, TypeOK
<1>3. UNCHANGED <<clock, seen, sightings, served, answer>> BY DEF Delete
<1> QED BY <1>1, <1>2, <1>3, TablesTyped
        DEF GraceInv, SeenIsPast, SeenKeepsUp, ServedKeepsUp, AnswerKeepsUp

LEMMA GraceRefresh ==
  ASSUME TypeOK, GraceInv, NEW found \in SUBSET (registered \cap online), Refresh(found)
  PROVE  GraceInv'
<1>1. \A m \in MAC : seen'[m] = IF m \in found THEN clock ELSE seen[m]
  BY DEF Refresh
<1>2. \A m \in MAC : published'[m] = IF m \in registered /\ seen'[m] > published[m]
                                      THEN seen'[m] ELSE published[m]
  BY DEF Refresh
<1>3. /\ DOMAIN served' = registered
      /\ \A m \in registered : served'[m].lastSeen = seen'[m]
  BY DEF Refresh
<1>4. UNCHANGED <<clock, sightings, answer, vouched>> BY DEF Refresh, updateVars
<1>5. registered \subseteq MAC BY DEF TypeOK
<1>6. SeenIsPast' BY <1>1, <1>4, TablesTyped DEF GraceInv, SeenIsPast
<1>7. SeenKeepsUp'
  <2> SUFFICES ASSUME NEW m \in MAC PROVE published'[m] <= seen'[m]
    BY DEF SeenKeepsUp
  <2>1. seen[m] <= seen'[m] BY <1>1, TablesTyped DEF GraceInv, SeenIsPast
  <2>2. published[m] <= seen[m] BY DEF GraceInv, SeenKeepsUp
  <2>3. seen'[m] \in Nat BY <1>1, TablesTyped
  <2> QED BY <1>2, <2>1, <2>2, <2>3, TablesTyped
<1>8. ServedKeepsUp' BY <1>3, <1>5, <1>7 DEF ServedKeepsUp, SeenKeepsUp
<1>9. AnswerKeepsUp' BY <1>4 DEF GraceInv, AnswerKeepsUp
<1> QED BY <1>6, <1>7, <1>8, <1>9 DEF GraceInv

\* A handler stores a time of the past, and one that no published time has overtaken.
LEMMA GraceHandlers ==
  ASSUME TypeOK, GraceInv, Handlers, ~Reordered'
  PROVE  GraceInv'
<1>1. ASSUME NEW m \in MAC, BusEvent(m) PROVE GraceInv'
  <2>1. /\ sightings' = sightings \union {<<m, clock>>}
        /\ UNCHANGED <<clock, seen, served, published, answer, vouched>>
    BY <1>1 DEF BusEvent, updateVars
  <2>2. SeenIsPast' BY <2>1, TablesTyped DEF GraceInv, SeenIsPast
  <2> QED BY <2>1, <2>2 DEF GraceInv, SeenKeepsUp, ServedKeepsUp, AnswerKeepsUp
<1>2. ASSUME NEW m \in MAC, NEW t \in Time, MarkSeen(m, t) PROVE GraceInv'
  <2>1. /\ <<m, t>> \in sightings /\ sightings' \subseteq sightings
        /\ UNCHANGED <<clock, served, published, answer, vouched>>
    BY <1>2 DEF MarkSeen, updateVars
  <2>2. \A n \in MAC : seen'[n] = IF n = m THEN t ELSE seen[n]
    BY <1>2 DEF MarkSeen, TypeOK
  <2>3. ~(t < published[m]) BY <1>2 DEF MarkSeen, Reordered
  <2>4. SeenIsPast' BY <2>1, <2>2 DEF GraceInv, SeenIsPast
  <2>5. published[m] <= t BY <2>3, TablesTyped, TimeIsNat
  <2>6. SeenKeepsUp' BY <2>1, <2>2, <2>5 DEF GraceInv, SeenKeepsUp
  <2> QED BY <2>1, <2>4, <2>6 DEF GraceInv, ServedKeepsUp, AnswerKeepsUp
<1> QED BY <1>1, <1>2 DEF Handlers

LEMMA GraceElsewhere ==
  GraceInv /\ UNCHANGED <<clock, pluginVars, updateVars>> => GraceInv'
BY DEF GraceInv, SeenIsPast, SeenKeepsUp, ServedKeepsUp, AnswerKeepsUp, pluginVars,
       updateVars

LEMMA GraceUpdate == TypeOK /\ GraceInv /\ (Update \/ Entry) => GraceInv'
<1> SUFFICES ASSUME TypeOK, GraceInv, Update \/ Entry PROVE GraceInv'
  OBVIOUS
<1> USE DEF GraceInv, SeenIsPast, SeenKeepsUp, ServedKeepsUp, AnswerKeepsUp,
            pluginVars, routerVars
<1>1. CASE BeginUpdate BY <1>1 DEF BeginUpdate
<1>2. CASE Answer BY <1>2 DEF Answer
<1>3. CASE UpdateFails BY <1>3 DEF UpdateFails
<1>4. CASE ApplyAnswer BY <1>4 DEF ApplyAnswer, Empty
<1>5. CASE SetUpEntry BY <1>5 DEF SetUpEntry
<1>6. CASE SetUpTracker BY <1>6 DEF SetUpTracker, updateVars
<1>7. CASE UnloadEntry BY <1>7 DEF UnloadEntry, Empty
<1> QED BY <1>1, <1>2, <1>3, <1>4, <1>5, <1>6, <1>7 DEF Update, Entry

LEMMA GraceStep ==
  TypeOK /\ GraceInv /\ [Next]_vars /\ ~PluginRestart /\ ~Reordered' => GraceInv'
<1> SUFFICES ASSUME TypeOK, GraceInv, [Next]_vars, ~PluginRestart, ~Reordered'
             PROVE  GraceInv'
  OBVIOUS
<1>1. ASSUME NEW m \in MAC, Delete(m) PROVE GraceInv' BY <1>1, GraceDelete
<1>2. ASSUME NEW m \in MAC, Register(m) \/ Connect(m) \/ Disconnect(m)
      PROVE  GraceInv'
  BY <1>2, GraceElsewhere DEF Register, Connect, Disconnect
<1>3. CASE Tick
  <2>1. clock' = clock + 1 /\ UNCHANGED <<served, seen, sightings, published, updateVars>>
    BY <1>3 DEF Tick
  <2>2. SeenIsPast'
    <3>1. \A c \in Nat, t \in Nat : t <= c => t <= c + 1 OBVIOUS
    <3> QED BY <2>1, <3>1, TablesTyped, TimeIsNat DEF GraceInv, SeenIsPast
  <2> QED BY <2>1, <2>2 DEF GraceInv, SeenKeepsUp, ServedKeepsUp, AnswerKeepsUp,
                            updateVars
<1>4. CASE PluginRefresh \/ PluginRefreshPartly BY <1>4, RefreshKinds, GraceRefresh
<1>5. CASE Handlers BY <1>5, GraceHandlers
<1>6. CASE Update \/ Entry BY <1>6, GraceUpdate
<1>7. CASE UNCHANGED vars BY <1>7, GraceElsewhere DEF vars
<1> QED BY <1>1, <1>2, <1>3, <1>4, <1>5, <1>6, <1>7 DEF Next, Router, Plugin

\* Nothing that went wrong is forgotten, and a restart is noticed.
LEMMA FaultsStay ==
  [Next]_vars => faults \subseteq faults' /\ (PluginRestart => Restarted')
BY DEF Next, Router, Register, Delete, Connect, Disconnect, Tick, Plugin, PluginRefresh,
       PluginRefreshPartly, Refresh, Handlers, BusEvent, MarkSeen, PluginRestart, Entry,
       SetUpEntry, SetUpTracker, UnloadEntry, Update, BeginUpdate, Answer, UpdateFails,
       ApplyAnswer, vars, pluginVars, Restarted

LEMMA PublishedStep == TypeOK /\ PublishedInv /\ [Next]_vars => PublishedInv'
<1> SUFFICES ASSUME TypeOK, PublishedInv, [Next]_vars, ~Restarted'
             PROVE  (ListsInv /\ (Reordered \/ GraceInv))'
  BY DEF PublishedInv
<1>1. ~PluginRestart /\ ~Restarted /\ (Reordered => Reordered')
  BY FaultsStay DEF Restarted, Reordered
<1>2. ListsInv' BY <1>1, ListsStep DEF PublishedInv
<1>3. Reordered' \/ GraceInv' BY <1>1, GraceStep DEF PublishedInv
<1> QED BY <1>2, <1>3

\* What an update shows of a device that the answer lists.
LEMMA ListedKept ==
  ASSUME TypeOK, ApplyAnswer, NEW m \in DOMAIN answer, NEW t \in Nat, t # 0,
         clock - t < ConsiderHome, answer[m].connected \/ t <= NewLastSeen(m)
  PROVE  m \in DOMAIN devices' /\ devices'[m].connected
<1>1. /\ m \in DOMAIN devices'
      /\ devices'[m].connected = (answer[m].connected \/ WithinGrace(m))
  BY DEF ApplyAnswer, Updated
<1>2. NewLastSeen(m) \in Nat BY LastSeenIsTime, TimeIsNat
<1>3. t <= NewLastSeen(m) => WithinGrace(m)
  BY <1>2, TablesTyped, TimesAssumption DEF WithinGrace
<1> QED BY <1>1, <1>3

\* consider_home is honoured as long as the plugin is not restarted (_async_update_data),
\* and over reloads of the entry as long as no handler stores an older time (markSeen).
\* The first premise is needed, as the run coord_restart shows.
THEOREM GraceIsHonoured == Spec => GraceHonoured
<1>1. TypeOK /\ ListsInv /\ ApplyAnswer => RecordKept
  <2> SUFFICES ASSUME TypeOK, ListsInv, ApplyAnswer, NEW m \in Listed \cap DOMAIN devices,
                      devices[m].lastSeen # 0, clock - devices[m].lastSeen < ConsiderHome
               PROVE  m \in DOMAIN devices' /\ devices'[m].connected
    BY DEF RecordKept
  <2>1. m \in DOMAIN answer BY DEF ListsInv, AnswerLists, Listed, ApplyAnswer
  <2>2. answer[m].lastSeen \in Nat /\ OldLastSeen(m) \in Nat
    BY <2>1, LastSeenIsTime, TablesTyped, TimeIsNat
  <2>3. OldLastSeen(m) = devices[m].lastSeen BY DEF OldLastSeen
  <2>4. answer[m].connected \/ devices[m].lastSeen <= NewLastSeen(m)
    BY <2>2, <2>3 DEF NewLastSeen
  <2> QED BY <2>1, <2>2, <2>3, <2>4, ListedKept
<1>2. TypeOK /\ ListsInv /\ GraceInv /\ ApplyAnswer => PublishedKept
  <2> SUFFICES ASSUME TypeOK, ListsInv, GraceInv, ApplyAnswer, NEW m \in Listed,
                      clock - vouched[m] < ConsiderHome
               PROVE  m \in DOMAIN devices' /\ devices'[m].connected
    BY DEF PublishedKept
  <2>1. m \in DOMAIN answer BY DEF ListsInv, AnswerLists, Listed, ApplyAnswer
  <2>2. /\ answer[m].lastSeen \in Nat /\ OldLastSeen(m) \in Nat
        /\ vouched[m] \in Nat /\ vouched[m] # 0 /\ vouched[m] <= answer[m].lastSeen
    BY <2>1, LastSeenIsTime, TablesTyped, TimeIsNat DEF Listed, GraceInv, AnswerKeepsUp
  <2>3. answer[m].connected \/ vouched[m] <= NewLastSeen(m) BY <2>2 DEF NewLastSeen
  <2> QED BY <2>1, <2>2, <2>3, ListedKept
<1>3. TypeOK /\ PublishedInv /\ [Next]_vars =>
        [ApplyAnswer /\ "restart" \notin faults =>
           RecordKept /\ ("reordered" \notin faults => PublishedKept)]_vars
  BY <1>1, <1>2 DEF PublishedInv, Restarted, Reordered
<1> QED BY <1>3, PublishedInit, PublishedStep, TypeCorrect, PTL DEF Spec, GraceHonoured

-----------------------------------------------------------------------------
(* The grace period ends: as long as refreshes get through and nothing is held up, a *)
(* device shown as connected to the plugin, to the update in flight, or by the   *)
(* last_seen on which the grace period counts, was online at most one tick ago.  *)

Undisturbed == "late" \notin faults

OnlineIsNow ==
  \A m \in MAC : onlineAt[m] <= clock /\ (m \in online => onlineAt[m] = clock)
SeenOnline ==
  /\ \A m \in MAC : seen[m] <= onlineAt[m]
  /\ \A m \in MAC, t \in Time : <<m, t>> \in sightings => t <= onlineAt[m]
ServedOnline ==
  \A m \in DOMAIN served :
    /\ served[m].lastSeen <= onlineAt[m]
    /\ served[m].connected => \/ clock <= onlineAt[m]
                              \/ ~refreshed /\ clock <= onlineAt[m] + 1
AnswerOnline ==
  pc = "answered" =>
    \A m \in DOMAIN answer :
      /\ answer[m].lastSeen <= onlineAt[m]
      /\ answer[m].connected => clock <= onlineAt[m] + 1
DevicesOnline == \A m \in DOMAIN devices : devices[m].lastSeen <= onlineAt[m] + 1

RecentInv ==
  Undisturbed =>
    OnlineIsNow /\ SeenOnline /\ ServedOnline /\ AnswerOnline /\ DevicesOnline

LEMMA RecentInit == Init => RecentInv
BY TimeIsNat DEF Init, RecentInv, OnlineIsNow, SeenOnline, ServedOnline, AnswerOnline,
                 DevicesOnline, Never, Empty

LEMMA HistoryTyped ==
  ASSUME TypeOK
  PROVE  /\ \A m \in MAC : onlineAt[m] \in Nat
         /\ \A m \in DOMAIN devices : m \in MAC /\ devices[m].lastSeen \in Nat
<1>1. \A m \in DOMAIN devices : m \in MAC /\ devices[m] \in SprDevice
  BY MapDomain DEF TypeOK
<1> QED BY <1>1, TimeIsNat DEF TypeOK, SprDevice

LEMMA RecentElsewhere ==
  RecentInv /\ UNCHANGED <<clock, online, onlineAt, served, seen, sightings, refreshed,
                           faults, pc, answer, devices>>
    => RecentInv'
BY DEF RecentInv, Undisturbed, OnlineIsNow, SeenOnline, ServedOnline, AnswerOnline,
       DevicesOnline

LEMMA RecentRouter ==
  ASSUME TypeOK, RecentInv, NEW d \in MAC, Connect(d) \/ Disconnect(d)
  PROVE  RecentInv'
<1>1. \A m \in MAC : /\ onlineAt'[m] \in Nat /\ onlineAt[m] <= onlineAt'[m]
                     /\ onlineAt'[m] <= clock
                     /\ m \in online' => onlineAt'[m] = clock
      \/ ~Undisturbed
  <2> SUFFICES ASSUME Undisturbed, NEW m \in MAC
               PROVE  /\ onlineAt'[m] \in Nat /\ onlineAt[m] <= onlineAt'[m]
                      /\ onlineAt'[m] <= clock
                      /\ m \in online' => onlineAt'[m] = clock
    OBVIOUS
  <2>1. /\ onlineAt[m] <= clock /\ (m \in online => onlineAt[m] = clock)
        /\ onlineAt[m] \in Nat /\ clock \in Nat
    BY HistoryTyped, TablesTyped DEF RecentInv, OnlineIsNow
  <2>2. CASE Connect(d)
    <3>1. online' = online \union {d} /\ onlineAt' = [onlineAt EXCEPT ![d] = clock]
      BY <2>2 DEF Connect
    <3>2. onlineAt'[m] = IF m = d THEN clock ELSE onlineAt[m]
      BY <3>1 DEF TypeOK
    <3> QED BY <2>1, <3>1, <3>2
  <2>3. CASE Disconnect(d) BY <2>1, <2>3 DEF Disconnect
  <2> QED BY <2>2, <2>3
<1>2. UNCHANGED <<clock, served, seen, sightings, refreshed, faults, pc, answer, devices>>
  BY DEF Connect, Disconnect, pluginVars, updateVars, haVars
<1> SUFFICES ASSUME Undisturbed
             PROVE  OnlineIsNow' /\ SeenOnline' /\ ServedOnline' /\ AnswerOnline'
                      /\ DevicesOnline'
  BY <1>2 DEF RecentInv, Undisturbed
<1>3. OnlineIsNow' BY <1>1, <1>2 DEF OnlineIsNow
<1>4. SeenOnline'
  BY <1>1, <1>2, HistoryTyped, TablesTyped, TimeIsNat DEF RecentInv, SeenOnline
<1>5. ServedOnline'
  BY <1>1, <1>2, HistoryTyped, TablesTyped DEF RecentInv, ServedOnline
<1>6. AnswerOnline'
  BY <1>1, <1>2, HistoryTyped, TablesTyped DEF RecentInv, AnswerOnline
<1>7. DevicesOnline'
  BY <1>1, <1>2, HistoryTyped, TablesTyped DEF RecentInv, DevicesOnline
<1> QED BY <1>3, <1>4, <1>5, <1>6, <1>7

LEMMA RecentTick == TypeOK /\ RecentInv /\ Tick => RecentInv'
<1> SUFFICES ASSUME TypeOK, RecentInv, Tick, Undisturbed'
             PROVE  OnlineIsNow' /\ SeenOnline' /\ ServedOnline' /\ AnswerOnline'
                      /\ DevicesOnline'
  BY DEF RecentInv
<1>1. refreshed /\ pc = "idle" /\ Undisturbed BY DEF Tick, Undisturbed
<1>2. /\ clock' = clock + 1 /\ ~refreshed' /\ pc' = "idle"
      /\ UNCHANGED <<online, served, seen, sightings, answer, devices>>
  BY <1>1 DEF Tick, updateVars, haVars
<1>3. \A m \in MAC : onlineAt'[m] = IF m \in online THEN clock + 1 ELSE onlineAt[m]
  BY DEF Tick
<1>4. OnlineIsNow'
  BY <1>1, <1>2, <1>3, HistoryTyped, TablesTyped DEF RecentInv, OnlineIsNow
<1>5. \A m \in MAC : onlineAt[m] <= onlineAt'[m] /\ onlineAt'[m] \in Nat
  BY <1>1, <1>3, HistoryTyped, TablesTyped DEF RecentInv, OnlineIsNow
<1>6. SeenOnline'
  BY <1>1, <1>2, <1>5, HistoryTyped, TablesTyped, TimeIsNat DEF RecentInv, SeenOnline
<1>7. ServedOnline'
  BY <1>1, <1>2, <1>5, HistoryTyped, TablesTyped DEF RecentInv, ServedOnline
<1>8. DevicesOnline'
  BY <1>1, <1>2, <1>5, HistoryTyped, TablesTyped DEF RecentInv, DevicesOnline
<1> QED BY <1>2, <1>4, <1>6, <1>7, <1>8 DEF AnswerOnline

LEMMA RecentRefresh ==
  ASSUME TypeOK, RecentInv, NEW found \in SUBSET (registered \cap online), Refresh(found)
  PROVE  RecentInv'
<1> SUFFICES ASSUME Undisturbed'
             PROVE  OnlineIsNow' /\ SeenOnline' /\ ServedOnline' /\ AnswerOnline'
                      /\ DevicesOnline'
  BY DEF RecentInv
<1>1. Undisturbed /\ UNCHANGED <<clock, online, onlineAt, sightings, pc, answer, devices>>
  BY DEF Refresh, Undisturbed, routerVars, updateVars, haVars
<1>2. OnlineIsNow' /\ AnswerOnline' /\ DevicesOnline'
  BY <1>1 DEF RecentInv, OnlineIsNow, AnswerOnline, DevicesOnline
<1>3. \A m \in MAC : seen'[m] = IF m \in found THEN clock ELSE seen[m]
  BY DEF Refresh
<1>4. SeenOnline'
  BY <1>1, <1>3, HistoryTyped, TablesTyped DEF RecentInv, SeenOnline, OnlineIsNow
<1>5. /\ DOMAIN served' = registered
      /\ \A m \in registered : /\ served'[m].lastSeen = seen'[m]
                                /\ served'[m].connected = (m \in found)
  BY DEF Refresh
<1>6. registered \subseteq MAC /\ refreshed' /\ clock \in Nat
  BY TablesTyped DEF Refresh, TypeOK
<1>7. \A m \in registered : m \in MAC /\ seen'[m] <= onlineAt[m]
  BY <1>1, <1>4, <1>6 DEF SeenOnline
<1>8. \A m \in registered : m \in found => clock <= onlineAt[m]
  BY <1>1, <1>6 DEF RecentInv, OnlineIsNow
<1>9. ServedOnline' BY <1>1, <1>5, <1>6, <1>7, <1>8 DEF ServedOnline
<1> QED BY <1>2, <1>4, <1>9

LEMMA RecentPlugin == TypeOK /\ RecentInv /\ Plugin => RecentInv'
<1>1. ASSUME TypeOK, RecentInv, Handlers \/ PluginRestart PROVE RecentInv'
  <2> SUFFICES ASSUME Undisturbed'
               PROVE  OnlineIsNow' /\ SeenOnline' /\ ServedOnline' /\ AnswerOnline'
                        /\ DevicesOnline'
    BY DEF RecentInv
  <2>1. /\ Undisturbed /\ UNCHANGED <<clock, online, onlineAt, pc, answer, devices>>
        /\ refreshed' = refreshed
    BY <1>1 DEF Handlers, BusEvent, MarkSeen, PluginRestart, Undisturbed, routerVars,
                updateVars, haVars
  <2>2. OnlineIsNow' /\ AnswerOnline' /\ DevicesOnline'
    BY <1>1, <2>1 DEF RecentInv, OnlineIsNow, AnswerOnline, DevicesOnline
  <2>3. ASSUME NEW m \in MAC, BusEvent(m) PROVE SeenOnline' /\ ServedOnline'
    <3>1. /\ m \in online /\ sightings' = sightings \union {<<m, clock>>}
          /\ UNCHANGED <<seen, served>>
      BY <2>3 DEF BusEvent
    <3>2. onlineAt[m] = clock /\ clock \in Nat
      BY <1>1, <2>1, <3>1, TablesTyped DEF RecentInv, OnlineIsNow
    <3>3. clock <= onlineAt[m] BY <3>2
    <3>4. SeenOnline' BY <1>1, <2>1, <3>1, <3>3 DEF RecentInv, SeenOnline
    <3> QED BY <1>1, <2>1, <3>1, <3>4 DEF RecentInv, ServedOnline
  <2>4. ASSUME NEW m \in MAC, NEW t \in Time, MarkSeen(m, t)
        PROVE  SeenOnline' /\ ServedOnline'
    <3>1. /\ <<m, t>> \in sightings /\ sightings' \subseteq sightings
          /\ served' = served
      BY <2>4 DEF MarkSeen
    <3>2. \A n \in MAC : seen'[n] = IF n = m THEN t ELSE seen[n]
      BY <1>1, <2>4 DEF MarkSeen, TypeOK
    <3>3. SeenOnline' BY <1>1, <2>1, <3>1, <3>2 DEF RecentInv, SeenOnline
    <3> QED BY <1>1, <2>1, <3>1, <3>3 DEF RecentInv, ServedOnline
  <2>5. ASSUME PluginRestart PROVE SeenOnline' /\ ServedOnline'
    BY <1>1, <2>1, <2>5, HistoryTyped, TimeIsNat
       DEF PluginRestart, SeenOnline, ServedOnline, Never, Empty
  <2> QED BY <1>1, <2>2, <2>3, <2>4, <2>5 DEF Handlers
<1> QED BY <1>1, RefreshKinds, RecentRefresh DEF Plugin

LEMMA RecentApply == TypeOK /\ RecentInv /\ ApplyAnswer => RecentInv'
<1> SUFFICES ASSUME TypeOK, RecentInv, ApplyAnswer, Undisturbed'
             PROVE  OnlineIsNow' /\ SeenOnline' /\ ServedOnline' /\ AnswerOnline'
                      /\ DevicesOnline'
  BY DEF RecentInv
<1>1. /\ pc = "answered" /\ pc' = "idle"
      /\ UNCHANGED <<clock, online, onlineAt, served, seen, sightings, refreshed, faults>>
  BY DEF ApplyAnswer, routerVars, pluginVars
<1>2. Undisturbed BY <1>1 DEF Undisturbed
<1>3. OnlineIsNow' /\ SeenOnline' /\ ServedOnline' /\ AnswerOnline'
  BY <1>1, <1>2 DEF RecentInv, OnlineIsNow, SeenOnline, ServedOnline, AnswerOnline
<1>4. ASSUME NEW m \in DOMAIN answer
      PROVE  NewLastSeen(m) <= onlineAt[m] + 1
  BY <1>1, <1>2, <1>4, LastSeenIsTime, TimeIsNat, HistoryTyped, TablesTyped
     DEF RecentInv, AnswerOnline, DevicesOnline, NewLastSeen, OldLastSeen
<1>5. \A m \in DOMAIN devices' : m \in DOMAIN answer /\ devices'[m].lastSeen = NewLastSeen(m)
  BY DEF ApplyAnswer, Updated
<1>6. DevicesOnline' BY <1>1, <1>4, <1>5 DEF DevicesOnline
<1> QED BY <1>3, <1>6

LEMMA RecentUpdate == TypeOK /\ RecentInv /\ (Update \/ Entry) => RecentInv'
<1> SUFFICES ASSUME TypeOK, RecentInv, Update \/ Entry PROVE RecentInv'
  OBVIOUS
<1> USE DEF RecentInv, Undisturbed, OnlineIsNow, SeenOnline, ServedOnline, AnswerOnline,
            DevicesOnline, pluginVars, routerVars
<1>1. CASE BeginUpdate BY <1>1 DEF BeginUpdate, haVars
<1>2. CASE Answer
  BY <1>2, HistoryTyped, TablesTyped DEF Answer, haVars
<1>3. CASE UpdateFails BY <1>3 DEF UpdateFails
<1>4. CASE ApplyAnswer BY <1>4, RecentApply
<1>5. CASE SetUpEntry BY <1>5 DEF SetUpEntry, Empty
<1>6. CASE SetUpTracker BY <1>6 DEF SetUpTracker, updateVars
<1>7. CASE UnloadEntry BY <1>7 DEF UnloadEntry, Empty
<1> QED BY <1>1, <1>2, <1>3, <1>4, <1>5, <1>6, <1>7 DEF Update, Entry

LEMMA RecentStep == TypeOK /\ RecentInv /\ [Next]_vars => RecentInv'
<1> SUFFICES ASSUME TypeOK, RecentInv, [Next]_vars PROVE RecentInv'
  OBVIOUS
<1>1. ASSUME NEW m \in MAC, Register(m) \/ Delete(m) PROVE RecentInv'
  BY <1>1, RecentElsewhere DEF Register, Delete, pluginVars, updateVars, haVars
<1>2. ASSUME NEW m \in MAC, Connect(m) \/ Disconnect(m) PROVE RecentInv'
  BY <1>2, RecentRouter
<1>3. CASE UNCHANGED vars
  BY <1>3, RecentElsewhere DEF vars, routerVars, pluginVars, updateVars, haVars
<1> QED BY <1>1, <1>2, <1>3, RecentTick, RecentPlugin, RecentUpdate DEF Next, Router

\* A device is not held home for longer than consider_home, or the unit that a snapshot may
\* lag, after it was last on the network (_async_update_data), for every option and clock:
\* refreshes must get through and no update be held up, but refreshes may be partial,
\* handlers late, the plugin may restart and the entry be reloaded.
THEOREM GraceEnds == Spec => HomeIsRecent
<1>1. ASSUME TypeOK, RecentInv, ApplyAnswer, Undisturbed, NEW m \in DOMAIN devices',
             devices'[m].connected
      PROVE  clock - onlineAt[m] <= ConsiderHome \/ clock - onlineAt[m] <= 1
  <2>1. /\ m \in DOMAIN answer
        /\ devices'[m].connected = (answer[m].connected \/ WithinGrace(m))
        /\ devices'[m].lastSeen = NewLastSeen(m)
        /\ onlineAt' = onlineAt
    BY <1>1 DEF ApplyAnswer, Updated, routerVars
  <2>2. m \in MAC BY <2>1, <1>1, TablesTyped
  <2>3. clock \in Nat /\ onlineAt[m] \in Nat /\ ConsiderHome \in Nat
    BY <1>1, <2>2, TablesTyped, HistoryTyped, TimesAssumption
  <2>4. CASE answer[m].connected
    <3>1. clock <= onlineAt[m] + 1
      BY <1>1, <2>1, <2>4 DEF RecentInv, AnswerOnline, ApplyAnswer
    <3> QED BY <2>3, <3>1
  <2>5. CASE WithinGrace(m)
    <3>1. Undisturbed' BY <1>1 DEF ApplyAnswer, pluginVars, Undisturbed
    <3>2. NewLastSeen(m) <= onlineAt[m] + 1
      BY <1>1, <2>1, <3>1, RecentApply DEF RecentInv, DevicesOnline
    <3>3. NewLastSeen(m) \in Nat BY <1>1, <2>1, LastSeenIsTime, TimeIsNat
    <3> QED BY <2>3, <2>5, <3>2, <3>3 DEF WithinGrace
  <2> QED BY <1>1, <2>1, <2>4, <2>5
<1>2. TypeOK /\ RecentInv /\ [Next]_vars =>
        [ApplyAnswer /\ "late" \notin faults =>
           \A m \in DOMAIN devices' :
             devices'[m].connected =>
               clock - onlineAt[m] <= ConsiderHome \/ clock - onlineAt[m] <= 1]_vars
  BY <1>1 DEF Undisturbed
<1> QED BY <1>2, RecentInit, RecentStep, TypeCorrect, PTL DEF Spec, HomeIsRecent

-----------------------------------------------------------------------------
(* Convergence. The argument goes by stages: the plugin serves what the router has; *)
(* so does the answer under way; so does the table; the trackers are set up. While *)
(* it is calm no stage is left, and a step of one kind reaches each.              *)

Matches(table) ==
  /\ DOMAIN table = registered
  /\ \A m \in registered : table[m].connected <=> m \in online

AnswerAgrees == pc = "answered" => Matches(answer)
TableAgrees ==
  /\ entry \in {"platforms", "loaded"} /\ updateOK
  /\ DOMAIN devices = registered
  /\ \A m \in registered : /\ devices[m].rawConnected <=> m \in online
                           /\ m \in online => devices[m].connected
TrackersAgree == entry = "loaded"

\* Where the entry, or else its update, can be.
Unset == entry = "none"
Unfinished == entry = "platforms"
Ready == entry \in {"platforms", "loaded"} /\ pc = "idle"
Asking == pc = "awaiting"
Holding == pc = "answered"

\* Before the set-up is done, an update is under way just when it is the set-up's own.
SetUpRefreshes ==
  /\ entry = "none" => pc = "idle"
  /\ entry = "setup" => pc # "idle"

\* Weak fairness of an action A where E holds, E being a condition for it to be enabled.
FairWhere(E, A) == []<>~E \/ []<><<A>>_vars

\* What Fairness says, with the guard of each action in the place of ENABLED.
ExplicitFairness ==
  /\ FairWhere(Unset, SetUpEntry)
  /\ FairWhere(Unfinished, SetUpTracker)
  /\ FairWhere(Ready, BeginUpdate)
  /\ FairWhere(Asking, Answer \/ UpdateFails)
  /\ FairWhere(Holding, ApplyAnswer)

LEMMA SetUpStep == TypeOK /\ SetUpRefreshes /\ [Next]_vars => SetUpRefreshes'
BY DEF TypeOK, SetUpRefreshes, Next, Router, Register, Delete, Connect, Disconnect, Tick,
       Plugin, PluginRefresh, PluginRefreshPartly, Refresh, Handlers, BusEvent, MarkSeen,
       PluginRestart, Entry, SetUpEntry, SetUpTracker, UnloadEntry, Update, BeginUpdate, Answer, UpdateFails, ApplyAnswer,
       vars, updateVars, haVars

\* Everything that the steps of the argument need beside the stages.
ConvergeInv == TypeOK /\ TrackerInv /\ SetUpRefreshes

LEMMA ConvergeInvariant == Spec => []ConvergeInv
<1>1. Init => SetUpRefreshes BY DEF Init, SetUpRefreshes
<1>2. TypeOK /\ TrackerInv /\ SetUpRefreshes => ConvergeInv BY DEF ConvergeInv
<1> QED BY <1>1, <1>2, TypeInit, TypeStep, TrackerInit, TrackerStep, SetUpStep, PTL DEF Spec

\* The steps that calm allows.
CalmStep == ConvergeInv /\ ConvergeInv' /\ [Next]_vars /\ [Calm]_vars

LEMMA RouterRests == CalmStep => UNCHANGED <<registered, online>>
BY DEF CalmStep, Calm, vars, routerVars

\* What else a step may be.
LEMMA CalmKinds ==
  CalmStep =>
    \/ UNCHANGED <<served, updateVars, entry, hasData, devices, updateOK>>
    \/ PluginRefresh \/ SetUpEntry \/ SetUpTracker \/ BeginUpdate \/ Answer \/ ApplyAnswer
<1> SUFFICES ASSUME CalmStep
             PROVE  \/ UNCHANGED <<served, updateVars, entry, hasData, devices, updateOK>>
                    \/ PluginRefresh \/ SetUpEntry \/ SetUpTracker \/ BeginUpdate
                    \/ Answer \/ ApplyAnswer
  OBVIOUS
<1>1. CASE UNCHANGED vars
  BY <1>1 DEF vars, pluginVars, updateVars, haVars
<1>2. CASE Next /\ Calm
  <2>1. CASE \E m \in MAC : Delete(m)
    BY <1>2, <2>1 DEF Calm, Delete, ConvergeInv, CalmStep, TypeOK
  <2> QED BY <1>2, <2>1 DEF Calm, Next, Router, Register, Connect, Disconnect, Tick,
    Plugin, Handlers, BusEvent, MarkSeen, Entry, Update, pluginVars, updateVars, haVars
<1> QED BY <1>1, <1>2 DEF CalmStep

LEMMA ServedReached == ConvergeInv /\ PluginRefresh => Current'
<1> SUFFICES ASSUME PluginRefresh PROVE Current'
  OBVIOUS
<1>1. /\ DOMAIN served' = registered
      /\ \A m \in registered : served'[m].connected = (m \in online)
  BY DEF PluginRefresh, Refresh
<1> QED BY <1>1 DEF PluginRefresh, Refresh, Current, routerVars

LEMMA ServedStays == CalmStep /\ Current => Current'
BY RouterRests, CalmKinds, ServedReached
   DEF CalmStep, Current, SetUpEntry, SetUpTracker, BeginUpdate, Answer,
       ApplyAnswer, pluginVars

LEMMA AnswerStays == CalmStep /\ Current /\ AnswerAgrees => AnswerAgrees'
BY RouterRests, CalmKinds
   DEF Current, AnswerAgrees, Matches, PluginRefresh, Refresh, SetUpEntry, SetUpTracker,
       BeginUpdate, Answer, ApplyAnswer, updateVars

LEMMA TableReached ==
  CalmStep /\ AnswerAgrees /\ ApplyAnswer => TableAgrees'
<1> SUFFICES ASSUME CalmStep, AnswerAgrees, ApplyAnswer PROVE TableAgrees'
  OBVIOUS
<1>1. /\ DOMAIN answer = registered /\ registered' = registered /\ online' = online
      /\ \A m \in registered : answer[m].connected <=> m \in online
  BY RouterRests DEF AnswerAgrees, Matches, ApplyAnswer
<1>2. /\ DOMAIN devices' = registered
      /\ \A m \in registered :
           /\ devices'[m].rawConnected = answer[m].connected
           /\ devices'[m].connected = (answer[m].connected \/ WithinGrace(m))
  BY <1>1 DEF ApplyAnswer, Updated
<1>3. entry' \in {"platforms", "loaded"} /\ updateOK'
  BY DEF ApplyAnswer, CalmStep, ConvergeInv, TypeOK, SetUpRefreshes
<1> QED BY <1>1, <1>2, <1>3 DEF TableAgrees

LEMMA TableStays == CalmStep /\ AnswerAgrees /\ TableAgrees => TableAgrees'
BY RouterRests, CalmKinds, TableReached
   DEF TableAgrees, PluginRefresh, Refresh, SetUpEntry, SetUpTracker, BeginUpdate, Answer, haVars

LEMMA TrackersStay == CalmStep /\ TrackersAgree => TrackersAgree'
BY CalmKinds DEF TrackersAgree, PluginRefresh, Refresh, SetUpEntry, SetUpTracker, BeginUpdate,
                 Answer, ApplyAnswer, haVars

LEMMA StagesAgree == ConvergeInv /\ TableAgrees /\ TrackersAgree => Agrees
<1> SUFFICES ASSUME ConvergeInv, TableAgrees, TrackersAgree, NEW m \in MAC
             PROVE  IF m \notin registered THEN Shown(m) \in {"none", "unavailable"}
                    ELSE IF m \in online THEN Shown(m) = "home"
                    ELSE Shown(m) \in {"home", "not_home"} /\ ~devices[m].rawConnected
  BY DEF Agrees
<1>1. DOMAIN devices \subseteq tracked
  BY DEF ConvergeInv, TrackerInv, EveryDeviceHasATracker, TrackersAgree
<1> QED BY <1>1 DEF TableAgrees, Shown, Available, IsConnected
\* How an update and a set-up go on.
LEMMA UpdateGoesOn ==
  /\ CalmStep /\ Unset => Unset' \/ Asking'
  /\ CalmStep /\ Ready => Ready' \/ Asking'
  /\ CalmStep /\ Asking => Asking' \/ Holding'
  /\ CalmStep /\ Holding => Holding' \/ <<ApplyAnswer>>_vars
  /\ <<SetUpEntry>>_vars \/ <<BeginUpdate>>_vars => Asking'
  /\ CalmStep /\ <<Answer \/ UpdateFails>>_vars => Holding'
<1> USE DEF Unset, Ready, Asking, Holding, updateVars, haVars
<1>1. ApplyAnswer => <<ApplyAnswer>>_vars
  BY DEF ApplyAnswer, vars
<1>2. CalmStep /\ Unset => Unset' \/ Asking'
  BY CalmKinds DEF PluginRefresh, Refresh, SetUpEntry, SetUpTracker, BeginUpdate, Answer,
                   ApplyAnswer, CalmStep, ConvergeInv, SetUpRefreshes
<1>3. CalmStep /\ Ready => Ready' \/ Asking'
  BY CalmKinds DEF PluginRefresh, Refresh, SetUpEntry, SetUpTracker, BeginUpdate, Answer,
                   ApplyAnswer
<1>4. CalmStep /\ Asking => Asking' \/ Holding'
  BY CalmKinds DEF PluginRefresh, Refresh, SetUpEntry, SetUpTracker, BeginUpdate, Answer,
                   ApplyAnswer
<1>5. CalmStep /\ Holding => Holding' \/ <<ApplyAnswer>>_vars
  <2> HIDE DEF updateVars
  <2>1. CalmStep /\ Holding => Holding' \/ ApplyAnswer
    BY CalmKinds DEF PluginRefresh, Refresh, SetUpEntry, SetUpTracker, BeginUpdate, Answer,
      CalmStep, ConvergeInv, SetUpRefreshes, updateVars
  <2> QED BY <1>1, <2>1
<1>6. SetUpEntry \/ BeginUpdate => Asking' BY DEF SetUpEntry, BeginUpdate
<1>7. CalmStep /\ <<Answer \/ UpdateFails>>_vars => Holding'
  BY DEF Answer, CalmStep, Calm
<1> QED BY <1>2, <1>3, <1>4, <1>5, <1>6, <1>7

LEMMA UpdatePhases == ConvergeInv => Unset \/ Ready \/ Asking \/ Holding
BY DEF ConvergeInv, TypeOK, SetUpRefreshes, Unset, Ready, Asking, Holding

LEMMA StepIsCalm ==
  [Next]_vars /\ [Calm]_vars /\ ConvergeInv /\ ConvergeInv' => CalmStep
BY DEF CalmStep

\* Updates never end: while it is calm, answers are applied again and again.
LEMMA UpdatesRun ==
  ExplicitFairness /\ []ConvergeInv /\ [][Next]_vars /\ [][Calm]_vars
    => []<><<ApplyAnswer>>_vars
BY UpdateGoesOn, UpdatePhases, StepIsCalm, PTL DEF ExplicitFairness, FairWhere

\* The stages are reached one after the other.
LEMMA ServedConverges ==
  RefreshesGetThrough /\ []ConvergeInv /\ [][Next]_vars /\ [][Calm]_vars => <>[]Current
<1>1. ConvergeInv /\ <<PluginRefresh>>_vars => Current' BY ServedReached
<1> QED BY <1>1, ServedStays, StepIsCalm, PTL DEF RefreshesGetThrough

LEMMA TableConverges ==
  /\ []ConvergeInv /\ [][Next]_vars /\ [][Calm]_vars
  /\ []<><<ApplyAnswer>>_vars /\ <>[]Current
  => <>[](AnswerAgrees /\ TableAgrees)
<1>1. <<ApplyAnswer>>_vars => AnswerAgrees' BY DEF ApplyAnswer, AnswerAgrees
<1>2. CalmStep /\ AnswerAgrees /\ <<ApplyAnswer>>_vars => TableAgrees' BY TableReached
<1> QED BY <1>1, <1>2, AnswerStays, TableStays, StepIsCalm, PTL

LEMMA TrackersComplete ==
  /\ ExplicitFairness /\ []ConvergeInv /\ [][Next]_vars /\ [][Calm]_vars
  /\ <>[]TableAgrees
  => <>[]TrackersAgree
<1>1. <<SetUpTracker>>_vars => TrackersAgree' BY DEF SetUpTracker, TrackersAgree
<1>2. TableAgrees => Unfinished \/ TrackersAgree
  BY DEF TableAgrees, Unfinished, TrackersAgree
<1> QED BY <1>1, <1>2, TrackersStay, StepIsCalm, PTL DEF ExplicitFairness, FairWhere

\* The trackers come to show what the router has, and stay with it, for any devices and
\* times and from whatever state the entry, the update under way and the plugin are in
\* when it becomes calm (_async_update_data, add_new_devices). The fairness is Home
\* Assistant's; that refreshes get through is a premise of TrackersConverge.
THEOREM TrackersDoConverge == Spec /\ ExplicitFairness => TrackersConverge
<1>1. /\ ExplicitFairness => []ExplicitFairness
      /\ RefreshesGetThrough => []RefreshesGetThrough
  BY PTL DEF ExplicitFairness, FairWhere, RefreshesGetThrough
<1>2. /\ ExplicitFairness /\ RefreshesGetThrough
      /\ []ConvergeInv /\ [][Next]_vars /\ [][Calm]_vars
      => <>[]Agrees
  BY ServedConverges, UpdatesRun, TableConverges, TrackersComplete, StagesAgree, PTL
<1> QED BY <1>1, <1>2, ConvergeInvariant, PTL DEF Spec, TrackersConverge
=============================================================================
