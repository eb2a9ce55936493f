---------------------------- MODULE Coordinator ----------------------------
(***************************************************************************)
(* Home Assistant's side: SprCoordinator keeps a table of devices from the   *)
(* snapshots it polls, layers the consider_home grace period on top, and the *)
(* device_tracker platform adds an entity for every device that appears      *)
(* (coordinator.py, device_tracker.py, button.py, __init__.py).             *)
(*                                                                          *)
(* The plugin is reduced to what it serves and to the two writers of the last *)
(* sightings, refreshes and bus handlers: RefreshState has the detail of a   *)
(* refresh, which is one step here. Home Assistant runs the updates of one   *)
(* coordinator one at a time, and everything after the await of get_state    *)
(* without interruption. Router and Home Assistant share a clock.           *)
(***************************************************************************)
EXTENDS Naturals, FiniteSets

CONSTANTS
  MAC,           \* client devices
  ConsiderHome,  \* the consider_home option
  MaxTime,       \* bound on the clock
  MaxHandlers    \* bound on the bus handlers that wait for the lock

ASSUME TimesAssumption == MaxTime \in Nat \ {0} /\ ConsiderHome \in Nat

VARIABLES
  clock,      \* Unix seconds; 0 is kept for "never"
  registered, \* router: macs in the device table
  online,     \* router: macs on the network
  served,     \* plugin: the devices of the snapshot
  seen,       \* plugin: gState.lastSeen, 0 for no entry
  sightings,  \* plugin: macs and times that bus handlers have yet to store in it
  entry,      \* config entry: not loaded, its platforms being set up, loaded
  pc,         \* where _async_update_data is
  answer,     \* local: the devices of the answer to get_state
  hasData,    \* self.data is not None
  devices,    \* self._devices, which every SprData shares
  tracked,    \* device_tracker: macs that have an entity
  updateOK,   \* last_update_success
  refreshed,  \* history: whether a refresh got through since the last tick
  faults,     \* history: what has gone wrong so far
  onlineAt,   \* history: last instant a mac was online
  published,  \* history: newest last_seen published while a mac is registered
  vouched     \* history: `published` when the answer was given

routerVars == <<registered, online, onlineAt>>
pluginVars == <<served, seen, sightings, refreshed, faults, published>>
updateVars == <<pc, answer, vouched>>
haVars == <<entry, hasData, devices, tracked, updateOK>>
vars == <<clock, routerVars, pluginVars, updateVars, haVars>>

Time == 0..MaxTime
Served == [connected : BOOLEAN, lastSeen : Time]
SprDevice == [rawConnected : BOOLEAN, connected : BOOLEAN, lastSeen : Time]
MapsTo(S) == UNION {[D -> S] : D \in SUBSET MAC}
Empty == [m \in {} |-> FALSE]
Never == [m \in MAC |-> 0]

TypeOK ==
  /\ clock \in Time \ {0}
  /\ registered \in SUBSET MAC /\ online \in SUBSET MAC
  /\ served \in MapsTo(Served) /\ seen \in [MAC -> Time]
  /\ entry \in {"none", "setup", "platforms", "loaded"}
  /\ pc \in {"idle", "awaiting", "answered"}
  /\ answer \in MapsTo(Served)
  /\ hasData \in BOOLEAN /\ updateOK \in BOOLEAN
  /\ devices \in MapsTo(SprDevice)
  /\ tracked \in SUBSET MAC
  /\ sightings \in SUBSET (MAC \X Time)
  /\ refreshed \in BOOLEAN
  /\ faults \subseteq {"restart", "late", "reordered"}
  /\ onlineAt \in [MAC -> Time]
  /\ published \in [MAC -> Time] /\ vouched \in [MAC -> Time]

Init ==
  /\ clock = 1
  /\ registered = {} /\ online = {} /\ onlineAt = Never
  /\ served = Empty /\ seen = Never /\ sightings = {} /\ refreshed = FALSE
  /\ faults = {} /\ published = Never
  /\ pc = "idle" /\ answer = Empty /\ vouched = Never
  /\ entry = "none" /\ hasData = FALSE /\ devices = Empty /\ tracked = {}
  /\ updateOK = FALSE

-----------------------------------------------------------------------------
(* The router *)

Register(m) ==
  /\ m \notin registered
  /\ registered' = registered \union {m}
  /\ UNCHANGED <<clock, online, onlineAt, pluginVars, updateVars, haVars>>

Delete(m) ==
  /\ m \in registered
  /\ registered' = registered \ {m}
  /\ published' = [published EXCEPT ![m] = 0]
  /\ vouched' = [vouched EXCEPT ![m] = 0]
  /\ UNCHANGED <<clock, online, onlineAt, served, seen, sightings, refreshed, faults,
                 pc, answer, haVars>>

Connect(m) ==
  /\ m \notin online
  /\ online' = online \union {m}
  /\ onlineAt' = [onlineAt EXCEPT ![m] = clock]
  /\ UNCHANGED <<clock, registered, pluginVars, updateVars, haVars>>

Disconnect(m) ==
  /\ m \in online
  /\ online' = online \ {m}
  /\ UNCHANGED <<clock, registered, onlineAt, pluginVars, updateVars, haVars>>

Tick ==
  /\ clock < MaxTime
  /\ clock' = clock + 1
  /\ onlineAt' = [m \in MAC |-> IF m \in online THEN clock + 1 ELSE onlineAt[m]]
  /\ refreshed' = FALSE
  /\ faults' = IF refreshed /\ pc = "idle" THEN faults ELSE faults \union {"late"}
  /\ UNCHANGED <<registered, online, served, seen, sightings, published, updateVars,
                 haVars>>

-----------------------------------------------------------------------------
(* The plugin, as Home Assistant sees it *)

\* An event about a device on the network: its handler takes the time.
BusEvent(m) ==
  /\ m \in online
  /\ Cardinality(sightings) < MaxHandlers
  /\ sightings' = sightings \union {<<m, clock>>}
  /\ UNCHANGED <<clock, routerVars, served, seen, refreshed, faults, published,
                 updateVars, haVars>>

\* markSeen stores it, over whatever was stored meanwhile.
MarkSeen(m, t) ==
  /\ <<m, t>> \in sightings
  /\ sightings' = sightings \ {<<m, t>>}
  /\ seen' = [seen EXCEPT ![m] = t]
  /\ faults' = IF t < published[m] THEN faults \union {"reordered"} ELSE faults
  /\ UNCHANGED <<clock, routerVars, served, refreshed, published, updateVars, haVars>>

\* A refreshState that gets through and finds the devices `found` on the network.
Refresh(found) ==
  LET stamped == [m \in MAC |-> IF m \in found THEN clock ELSE seen[m]]
  IN /\ seen' = stamped
     /\ served' = [m \in registered |-> [connected |-> m \in found,
                                         lastSeen |-> stamped[m]]]
     /\ published' = [m \in MAC |->
                        IF m \in registered /\ stamped[m] > published[m]
                          THEN stamped[m] ELSE published[m]]
     /\ refreshed' = TRUE
     /\ UNCHANGED <<clock, routerVars, sightings, faults, updateVars, haVars>>

\* Every part of SPR's API answers.
PluginRefresh == Refresh(registered \cap online)

\* The device table is there, but a read that presence depends on comes back empty. (One
\* that finds the device table unavailable leaves everything as it is.)
PluginRefreshPartly ==
  \E found \in SUBSET (registered \cap online) :
    found # registered \cap online /\ Refresh(found)

\* The API listens again before the first refresh has a snapshot to give.
PluginRestart ==
  /\ served' = Empty
  /\ seen' = Never /\ sightings' = {}
  /\ faults' = faults \union {"restart"}
  /\ UNCHANGED <<clock, routerVars, refreshed, published, updateVars, haVars>>

-----------------------------------------------------------------------------
(* The config entry *)

\* async_setup_entry, up to the first refresh.
SetUpEntry ==
  /\ entry = "none"
  /\ entry' = "setup"
  /\ devices' = Empty /\ hasData' = FALSE /\ updateOK' = FALSE
  /\ pc' = "awaiting"
  /\ UNCHANGED <<clock, routerVars, pluginVars, answer, vouched, tracked>>

\* The platform is set up: it connects to the signal and adds what is there.
SetUpTracker ==
  /\ entry = "platforms"
  /\ tracked' = tracked \union DOMAIN devices
  /\ entry' = "loaded"
  /\ UNCHANGED <<clock, routerVars, pluginVars, updateVars, hasData, devices,
                 updateOK>>

UnloadEntry ==
  /\ entry = "loaded"
  /\ entry' = "none"
  /\ tracked' = {} /\ devices' = Empty /\ hasData' = FALSE /\ updateOK' = FALSE
  /\ pc' = "idle" /\ answer' = Empty /\ vouched' = Never
  /\ UNCHANGED <<clock, routerVars, pluginVars>>

-----------------------------------------------------------------------------
(* _async_update_data *)

\* The timer, or an event from the stream. As soon as any platform has entities
\* the timer runs, also while the others are still being set up.
BeginUpdate ==
  /\ entry \in {"platforms", "loaded"}
  /\ pc = "idle"
  /\ pc' = "awaiting"
  /\ UNCHANGED <<clock, routerVars, pluginVars, answer, vouched, haVars>>

\* The plugin answers GET /ha/v1/state.
Answer ==
  /\ pc = "awaiting"
  /\ answer' = served
  /\ vouched' = published
  /\ pc' = "answered"
  /\ UNCHANGED <<clock, routerVars, pluginVars, haVars>>

\* SprApiError or a timeout; the first refresh makes the set-up fail with it.
UpdateFails ==
  /\ pc = "awaiting"
  /\ pc' = "idle"
  /\ updateOK' = FALSE
  /\ entry' = IF entry = "setup" THEN "none" ELSE entry
  /\ UNCHANGED <<clock, routerVars, pluginVars, answer, vouched, hasData,
                 devices, tracked>>

OldLastSeen(m) == IF m \in DOMAIN devices THEN devices[m].lastSeen ELSE 0

\* Faulty variants of NewLastSeen: what the plugin reports is not looked at; a
\* time that has not come yet.
OwnLastSeen(m) == IF answer[m].connected THEN clock ELSE OldLastSeen(m)
RoundedUpLastSeen(m) == IF answer[m].connected THEN clock + 1 ELSE OldLastSeen(m)

\* device.last_seen after an answer.
NewLastSeen(m) ==
  IF answer[m].connected THEN clock
  ELSE IF answer[m].lastSeen > OldLastSeen(m) THEN answer[m].lastSeen
  ELSE OldLastSeen(m)

\* Faulty variant of WithinGrace: whoever was home stays home.
GraceFromFirst(m) == m \in DOMAIN devices /\ devices[m].connected
\* device.connected: the grace period of consider_home.
WithinGrace(m) == NewLastSeen(m) # 0 /\ clock - NewLastSeen(m) < ConsiderHome

\* Faulty variant of Updated: devices deleted on the router stay.
UpdatedKeepingDeleted ==
  [m \in DOMAIN answer \union DOMAIN devices |->
     IF m \notin DOMAIN answer THEN devices[m]
     ELSE [rawConnected |-> answer[m].connected,
           connected |-> answer[m].connected \/ WithinGrace(m),
           lastSeen |-> NewLastSeen(m)]]

\* self._devices after an answer.
Updated ==
  [m \in DOMAIN answer |-> [rawConnected |-> answer[m].connected,
                            connected |-> answer[m].connected \/ WithinGrace(m),
                            lastSeen |-> NewLastSeen(m)]]

\* Faulty variant of SignalledDevices: the table as it was.
PreviousDevices == DOMAIN devices
\* What add_new_devices finds in coordinator.data.devices when the signal calls
\* it: self.data is still the previous SprData, but its table is self._devices.
SignalledDevices == DOMAIN answer

ApplyAnswer ==
  /\ pc = "answered"
  /\ devices' = Updated
  /\ tracked' = IF /\ hasData /\ entry = "loaded"
                   /\ DOMAIN answer \ DOMAIN devices # {}
                  THEN tracked \union SignalledDevices ELSE tracked
  /\ hasData' = TRUE
  /\ updateOK' = TRUE
  /\ entry' = IF entry = "setup" THEN "platforms" ELSE entry
  /\ pc' = "idle" /\ answer' = Empty /\ vouched' = Never
  /\ UNCHANGED <<clock, routerVars, pluginVars>>

-----------------------------------------------------------------------------

Router == \E m \in MAC : Register(m) \/ Delete(m) \/ Connect(m) \/ Disconnect(m)
Handlers == \E m \in MAC : BusEvent(m) \/ \E t \in Time : MarkSeen(m, t)
Plugin == PluginRefresh \/ PluginRefreshPartly \/ Handlers \/ PluginRestart
Entry == SetUpEntry \/ SetUpTracker \/ UnloadEntry
Update == BeginUpdate \/ Answer \/ UpdateFails \/ ApplyAnswer

Next == Router \/ Tick \/ Plugin \/ Entry \/ Update

Spec == Init /\ [][Next]_vars

\* Home Assistant keeps setting the entry up and updating, and is answered or gets an
\* error. Nothing is assumed of the router, of the plugin or of what succeeds: pollLoop
\* only guarantees that refreshes are tried.
Fairness ==
  /\ WF_vars(SetUpEntry) /\ WF_vars(SetUpTracker)
  /\ WF_vars(BeginUpdate) /\ WF_vars(Answer \/ UpdateFails) /\ WF_vars(ApplyAnswer)

FairSpec == Spec /\ Fairness

-----------------------------------------------------------------------------
(* Properties *)

\* Every device in the table has a tracker once the entry is loaded, however it
\* came there: before the platform was set up, while it was, by the signal, or
\* again after it was deleted on the router.
EveryDeviceHasATracker == entry = "loaded" => DOMAIN devices \subseteq tracked

\* SprDeviceEntity.available, and SprScannerEntity.is_connected.
Available(m) == updateOK /\ m \in DOMAIN devices
IsConnected(m) == m \in DOMAIN devices /\ devices[m].connected

\* What the tracker of m shows: nothing before there is one.
Shown(m) ==
  IF m \notin tracked THEN "none"
  ELSE IF ~Available(m) THEN "unavailable"
  ELSE IF IsConnected(m) THEN "home" ELSE "not_home"

\* The devices that the router has had ever since a sighting of them was published.
Listed == {m \in MAC : vouched[m] # 0}

\* The grace period counts from the last_seen in Home Assistant's own table.
RecordKept ==
  \A m \in Listed \cap DOMAIN devices :
    devices[m].lastSeen # 0 /\ clock - devices[m].lastSeen < ConsiderHome
      => m \in DOMAIN devices' /\ devices'[m].connected

\* It counts from the newest last_seen that the plugin has published.
PublishedKept ==
  \A m \in Listed :
    clock - vouched[m] < ConsiderHome => m \in DOMAIN devices' /\ devices'[m].connected

\* No update drops a device, or shows it away, less than consider_home after Home
\* Assistant recorded it as seen (const.py: "seconds a device stays home after last
\* seen"), unless it was deleted on the router, as coordinator.py has it ("devices
\* deleted on the router: drop them").
GraceAlwaysHonoured == [][ApplyAnswer => RecordKept]_vars

\* So it is while the plugin is not restarted, whatever bus handlers and failed reads do.
\* The grace period then counts from the newest sighting that the plugin has published,
\* also when Home Assistant has reloaded the entry and lost its own record, as long as
\* no bus handler has stored a time older than a published one over it.
GraceHonoured ==
  [][ApplyAnswer /\ "restart" \notin faults =>
       RecordKept /\ ("reordered" \notin faults => PublishedKept)]_vars

\* And it ends (same comment): as long as each unit of time sees a refresh that gets
\* through and no update left waiting, no update has a device home for longer than
\* consider_home after it was last on the network, or than the unit that the snapshot may
\* lag if that is longer. (Such a snapshot may have the device dated a unit late, but the
\* grace period is over as soon as consider_home is reached, not one unit after.)
HomeIsRecent ==
  [][ApplyAnswer /\ "late" \notin faults =>
       \A m \in DOMAIN devices' :
         devices'[m].connected =>
           clock - onlineAt[m] <= ConsiderHome \/ clock - onlineAt[m] <= 1]_vars

Agrees ==
  \A m \in MAC :
    IF m \notin registered THEN Shown(m) \in {"none", "unavailable"}
    ELSE IF m \in online THEN Shown(m) = "home"
    ELSE Shown(m) \in {"home", "not_home"} /\ ~devices[m].rawConnected

\* The router is left alone, refreshes and updates find it whole, and nobody restarts or
\* unloads. A refresh may still fail for want of the device table.
Calm == /\ UNCHANGED <<registered, online>>
        /\ ~PluginRefreshPartly /\ ~PluginRestart /\ ~UnloadEntry /\ ~UpdateFails

\* The snapshot shows what the router has.
Current == /\ DOMAIN served = registered
           /\ \A m \in registered : served[m].connected <=> m \in online

\* What pollLoop alone does not give: a refresh gets through again and again, unless it
\* would find nothing new.
RefreshesGetThrough == []<>Current \/ []<><<PluginRefresh>>_vars

\* Once both are so for good, the trackers come to show what the router has: home whoever
\* is on the network, home in a grace period at most whoever is not, nobody who was
\* deleted.
TrackersConverge == RefreshesGetThrough /\ <>[][Calm]_vars => <>[]Agrees
=============================================================================
