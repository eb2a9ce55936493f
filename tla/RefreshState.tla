---------------------------- MODULE RefreshState ----------------------------
(***************************************************************************)
(* Presence in the ha_sync plugin: the store gState, the refresh that       *)
(* rebuilds it from the SPR API, and the sprbus handlers that write to it   *)
(* concurrently (refresh.go, state.go, events.go).                          *)
(*                                                                          *)
(* refreshState runs in one goroutine (pollLoop) and is a sequence of HTTP  *)
(* reads, each at an instant of its own, followed by two critical sections  *)
(* on gState.mtx (copy, then publish) and by the broadcasts. Every read and *)
(* every critical section is an action here, so SPR and the bus handlers    *)
(* may move between any two of them. The WAN accounting done by the same    *)
(* refresh is module WanTraffic; when the refresh runs is module PollLoop.  *)
(***************************************************************************)
EXTENDS Naturals, FiniteSets

CONSTANTS
  MAC,       \* client devices, by normalised MAC address
  AP,        \* enabled access points (an interface or its guest BSS)
  Topics,    \* sprbus subscriptions whose events record a sighting
  MaxTime    \* bound on the wall clock, in seconds

ASSUME NamesAssumption == "none" \notin AP /\ "none" \notin MAC
ASSUME TimeAssumption == MaxTime \in Nat \ {0}

VARIABLES
  clock,          \* wall clock (Unix seconds); 0 is kept for "never"
  registered,     \* SPR: macs in the device table
  stationed,      \* SPR: the AP whose station list holds the mac, or "none"
  learned,        \* SPR: macs with a learned, complete LAN ARP entry
  lastSeen,       \* gState.lastSeen, 0 where the Go map has no entry
  snapshot,       \* gState.snapshot: its timestamp and its devices
  pc,             \* where refreshState is
  now,            \* local: time.Now() at its entry
  devices,        \* local: macs of the fetched device table
  toAsk,          \* local: APs whose station list is still to be read
  present,        \* local: macs found connected so far
  seenCopy,       \* local: copy of lastSeen taken under the lock
  prevConnected,  \* local: Connected of the snapshot being replaced
  toNotify,       \* local: transitions not yet broadcast
  sighting,       \* per bus handler: the markSeen call it is about to make
  truth,          \* history: last instant a mac was in a table or on the bus
  told            \* history: what a client that polls for new and deleted
                  \*   devices and otherwise follows the events believes

sprVars == <<registered, stationed, learned>>
storeVars == <<lastSeen, snapshot>>
localVars ==
  <<pc, now, devices, toAsk, present, seenCopy, prevConnected, toNotify>>
vars == <<clock, sprVars, storeVars, localVars, sighting, truth, told>>

Time == 0..MaxTime
Phases == {"idle", "devices", "interfaces", "topology", "stations", "copy",
           "publish", "notify"}
Belief == {"gone", "up", "down"}
Device == [connected : BOOLEAN, lastSeen : Time]
NoCall == [mac |-> "none", when |-> 0]
Call == [mac : MAC, when : Time]
NoConnected == [m \in {} |-> FALSE]
EmptySnapshot == [at |-> 0, devices |-> [m \in {} |-> FALSE]]

\* Functions from some subset of MAC to S: Go maps keyed by MAC.
MapsTo(S) == UNION {[D -> S] : D \in SUBSET MAC}

TypeOK ==
  /\ clock \in Time \ {0}
  /\ registered \in SUBSET MAC
  /\ stationed \in [MAC -> AP \union {"none"}]
  /\ learned \in SUBSET MAC
  /\ lastSeen \in [MAC -> Time]
  /\ snapshot \in [at : Time, devices : MapsTo(Device)]
  /\ pc \in Phases
  /\ now \in Time
  /\ devices \in SUBSET MAC
  /\ toAsk \in SUBSET AP
  /\ present \in SUBSET MAC
  /\ seenCopy \in [MAC -> Time]
  /\ prevConnected \in MapsTo(BOOLEAN)
  /\ toNotify \in SUBSET MAC
  /\ sighting \in [Topics -> Call \union {NoCall}]
  /\ truth \in [MAC -> Time]
  /\ told \in [MAC -> Belief]

Never == [m \in MAC |-> 0]

ResetLocals ==
  /\ now' = 0
  /\ devices' = {}
  /\ toAsk' = {}
  /\ present' = {}
  /\ seenCopy' = Never
  /\ prevConnected' = NoConnected
  /\ toNotify' = {}

\* A fresh process: gState as it is declared, no refresh under way.
Init ==
  /\ clock = 1
  /\ registered = {} /\ learned = {} /\ stationed = [m \in MAC |-> "none"]
  /\ lastSeen = Never
  /\ snapshot = EmptySnapshot
  /\ pc = "idle"
  /\ now = 0 /\ devices = {} /\ toAsk = {} /\ present = {}
  /\ seenCopy = Never /\ prevConnected = NoConnected /\ toNotify = {}
  /\ sighting = [t \in Topics |-> NoCall]
  /\ truth = Never
  /\ told = [m \in MAC |-> "gone"]

-----------------------------------------------------------------------------
(* The world outside the plugin *)

OnWifi == {m \in MAC : stationed[m] # "none"}
InTables == OnWifi \union learned

\* SPR's device table, station lists and ARP table change at any time; a device
\* may roam from one access point to another without leaving the network.
Register(m) ==
  /\ registered' = IF m \in registered THEN registered \ {m}
                                        ELSE registered \union {m}
  /\ UNCHANGED <<clock, stationed, learned, storeVars, localVars, sighting,
                 truth, told>>

Station(m, ap) ==
  /\ stationed' = [stationed EXCEPT ![m] = ap]
  /\ truth' = [truth EXCEPT ![m] = clock]
  /\ UNCHANGED <<clock, registered, learned, storeVars, localVars, sighting,
                 told>>

Learn(m) ==
  /\ learned' = IF m \in learned THEN learned \ {m} ELSE learned \union {m}
  /\ truth' = [truth EXCEPT ![m] = clock]
  /\ UNCHANGED <<clock, registered, stationed, storeVars, localVars, sighting,
                 told>>

Tick ==
  /\ clock < MaxTime
  /\ clock' = clock + 1
  /\ truth' = [m \in MAC |-> IF m \in InTables THEN clock + 1 ELSE truth[m]]
  /\ UNCHANGED <<sprVars, storeVars, localVars, sighting, told>>

-----------------------------------------------------------------------------
(* sprbus handlers *)

\* "wifi:auth:success" or "dhcp:request" for m: handleBusEvent evaluates
\* time.Now() and is about to call markSeen.
BusEvent(t, m) ==
  /\ sighting[t] = NoCall
  /\ sighting' = [sighting EXCEPT ![t] = [mac |-> m, when |-> clock]]
  /\ truth' = [truth EXCEPT ![m] = clock]
  /\ UNCHANGED <<clock, sprVars, storeVars, localVars, told>>

\* markSeen's critical section: an unconditional store.
MarkSeen(t) ==
  /\ sighting[t] # NoCall
  /\ lastSeen' = [lastSeen EXCEPT ![sighting[t].mac] = sighting[t].when]
  /\ sighting' = [sighting EXCEPT ![t] = NoCall]
  /\ UNCHANGED <<clock, sprVars, snapshot, localVars, truth, told>>

-----------------------------------------------------------------------------
(* refreshState *)

BeginRefresh ==
  /\ pc = "idle"
  /\ now' = clock
  /\ pc' = "devices"
  /\ UNCHANGED <<clock, sprVars, storeVars, devices, toAsk, present, seenCopy,
                 prevConnected, toNotify, sighting, truth, told>>

\* Faulty variant of Decoded: the table is decoded over the previous one.
DecodedOverPrevious(table) == table \union DOMAIN snapshot.devices
\* What a decoded device table leaves in the local map.
Decoded(table) == table

\* GET /devices, or the public copy of the same table.
FetchDevices ==
  /\ pc = "devices"
  /\ devices' = Decoded(registered)
  /\ pc' = "interfaces"
  /\ UNCHANGED <<clock, sprVars, storeVars, now, toAsk, present, seenCopy,
                 prevConnected, toNotify, sighting, truth, told>>

\* Neither answered: the refresh is abandoned, the old snapshot stays.
DevicesUnavailable ==
  /\ pc = "devices"
  /\ pc' = "idle"
  /\ ResetLocals
  /\ UNCHANGED <<clock, sprVars, storeVars, sighting, truth, told>>

\* GET /interfacesConfiguration names the access points; on a failure there are
\* none to ask.
FetchInterfaces(aps) ==
  /\ pc = "interfaces"
  /\ toAsk' = aps
  /\ pc' = "topology"
  /\ UNCHANGED <<clock, sprVars, storeVars, now, devices, present, seenCopy,
                 prevConnected, toNotify, sighting, truth, told>>

InterfacesAvailable == FetchInterfaces(AP)
InterfacesUnavailable == FetchInterfaces({})

\* GET /topology: SPR's own merge of its tables.
FetchTopology ==
  /\ pc = "topology"
  /\ present' = InTables
  /\ toAsk' = {}
  /\ pc' = "copy"
  /\ UNCHANGED <<clock, sprVars, storeVars, now, devices, seenCopy,
                 prevConnected, toNotify, sighting, truth, told>>

\* The endpoint failed or has no nodes: fall back to the legacy merge.
TopologyUnavailable ==
  /\ pc = "topology"
  /\ pc' = "stations"
  /\ UNCHANGED <<clock, sprVars, storeVars, now, devices, toAsk, present,
                 seenCopy, prevConnected, toNotify, sighting, truth, told>>

\* GET /hostapd/<ap>/all_stations, one request per AP; a read that fails counts
\* as an empty list.
AskStations(ap, found) ==
  /\ pc = "stations"
  /\ ap \in toAsk
  /\ toAsk' = toAsk \ {ap}
  /\ present' = present \union found
  /\ UNCHANGED <<clock, sprVars, storeVars, pc, now, devices, seenCopy,
                 prevConnected, toNotify, sighting, truth, told>>

FetchStations(ap) == AskStations(ap, {m \in MAC : stationed[m] = ap})
StationsUnavailable(ap) == AskStations(ap, {})

\* GET /arp: the learned entries join the stations; a failed read adds none.
\* `learned` has what passes the filters: complete entries, and none of the uplink. When the
\* interfaces are unavailable the uplink is not known and its entries pass as well, so the
\* model takes the devices of the table to have none there.
AskArp(entries) ==
  /\ pc = "stations"
  /\ toAsk = {}
  /\ present' = present \union entries
  /\ pc' = "copy"
  /\ UNCHANGED <<clock, sprVars, storeVars, now, devices, toAsk, seenCopy,
                 prevConnected, toNotify, sighting, truth, told>>

FetchArp == AskArp(learned)
ArpUnavailable == AskArp({})

\* First critical section: copy lastSeen and the previous Connected flags.
CopyUnderLock ==
  /\ pc = "copy"
  /\ seenCopy' = lastSeen
  /\ prevConnected' = [m \in DOMAIN snapshot.devices |->
                         snapshot.devices[m].connected]
  /\ pc' = "publish"
  /\ UNCHANGED <<clock, sprVars, storeVars, now, devices, toAsk, present, toNotify,
                 sighting, truth, told>>

\* Faulty variants of SightingTime: stamped when it is published; rounded up.
SightingTimeAtPublish == clock
SightingTimeRoundedUp == now + 1
\* The time a device found connected by this refresh is stamped with.
SightingTime == now

\* The local lastSeen map once every device has been looked at.
SeenByRefresh ==
  [m \in MAC |-> IF m \in devices \cap present THEN SightingTime
                                               ELSE seenCopy[m]]

\* Faulty variant of MergedSighting: what events wrote meanwhile is lost.
OverwritingSighting(old, new) == new
\* Second critical section, the entry written back for one mac.
MergedSighting(old, new) == IF new > old THEN new ELSE old

\* Faulty variant of Transitions: disconnects are forgotten.
ConnectsOnly ==
  {m \in devices \cap DOMAIN prevConnected :
     ~prevConnected[m] /\ m \in present}
\* The known devices whose Connected flag this refresh changes.
Transitions ==
  {m \in devices \cap DOMAIN prevConnected :
     prevConnected[m] # (m \in present)}

BeliefOf(connected) == IF connected THEN "up" ELSE "down"

Publish ==
  /\ pc = "publish"
  /\ lastSeen' = [m \in MAC |-> MergedSighting(lastSeen[m], SeenByRefresh[m])]
  /\ snapshot' = [at |-> now,
                  devices |-> [m \in devices |->
                                 [connected |-> m \in present,
                                  lastSeen |-> SeenByRefresh[m]]]]
  /\ toNotify' = Transitions
  /\ told' = [m \in MAC |->
                IF m \notin devices THEN "gone"
                ELSE IF m \in DOMAIN prevConnected THEN told[m]
                ELSE BeliefOf(m \in present)]
  /\ pc' = "notify"
  /\ UNCHANGED <<clock, sprVars, now, devices, toAsk, present, seenCopy,
                 prevConnected, sighting, truth>>

\* gHub.broadcast of one device_connected or device_disconnected event.
Broadcast(m) ==
  /\ pc = "notify"
  /\ m \in toNotify
  /\ told' = [told EXCEPT ![m] = BeliefOf(m \in present)]
  /\ toNotify' = toNotify \ {m}
  /\ UNCHANGED <<clock, sprVars, storeVars, pc, now, devices, toAsk,
                 present, seenCopy, prevConnected, sighting, truth>>

EndRefresh ==
  /\ pc = "notify"
  /\ toNotify = {}
  /\ pc' = "idle"
  /\ ResetLocals
  /\ UNCHANGED <<clock, sprVars, storeVars, sighting, truth, told>>

-----------------------------------------------------------------------------

\* The container is restarted: nothing of gState is kept anywhere else.
Restart ==
  /\ lastSeen' = Never
  /\ snapshot' = EmptySnapshot
  /\ pc' = "idle"
  /\ ResetLocals
  /\ sighting' = [t \in Topics |-> NoCall]
  /\ told' = [m \in MAC |-> "gone"]
  /\ UNCHANGED <<clock, sprVars, truth>>

\* One step of the goroutine that runs refreshState; every HTTP call ends, with
\* an answer or with an error (15 s client timeout).
Refresh ==
  \/ BeginRefresh
  \/ FetchDevices \/ DevicesUnavailable
  \/ InterfacesAvailable \/ InterfacesUnavailable
  \/ FetchTopology \/ TopologyUnavailable
  \/ \E ap \in AP : FetchStations(ap) \/ StationsUnavailable(ap)
  \/ FetchArp \/ ArpUnavailable
  \/ CopyUnderLock \/ Publish
  \/ \E m \in MAC : Broadcast(m)
  \/ EndRefresh

World ==
  \/ Tick
  \/ \E m \in MAC : \/ Register(m)
                   \/ \E ap \in AP \union {"none"} : Station(m, ap)
                   \/ Learn(m)

Bus == \E t \in Topics : MarkSeen(t) \/ \E m \in MAC : BusEvent(t, m)

Next == Refresh \/ World \/ Bus \/ Restart

\* pollLoop never stops calling refreshState, and a bus handler that has taken
\* its timestamp gets the lock. Nothing is assumed of SPR, of the bus, of the
\* clock, or of restarts.
Fairness == WF_vars(Refresh) /\ \A t \in Topics : WF_vars(MarkSeen(t))

Spec == Init /\ [][Next]_vars
FairSpec == Spec /\ Fairness

-----------------------------------------------------------------------------
(* Properties *)

Reported(m) ==
  IF m \in DOMAIN snapshot.devices
    THEN BeliefOf(snapshot.devices[m].connected) ELSE "gone"

\* Every sighting is real: neither gState.lastSeen nor a published last_seen is
\* ever later than the last instant at which SPR's tables or the bus showed the
\* device. The refresh dates what it finds by its entry time, before any read.
SightingsAreReal ==
  /\ \A m \in MAC : lastSeen[m] <= truth[m]
  /\ \A m \in DOMAIN snapshot.devices :
       snapshot.devices[m].lastSeen <= truth[m]

\* The events are exactly the difference between consecutive snapshots: a client
\* that learns of new and deleted devices by polling and otherwise applies the
\* events it is sent agrees with the snapshot, except about the transitions the
\* refresh under way has still to broadcast, whatever reads failed on the way.
FollowerInSync ==
  \A m \in MAC : told[m] = Reported(m) \/ m \in toNotify

\* Publishing a refresh never takes back a sighting that a bus event recorded
\* after the refresh copied the map (refresh.go, "without clobbering fresher
\* event-driven updates").
NoClobber ==
  [][Publish => \A m \in MAC : lastSeen'[m] >= lastSeen[m]]_vars

\* A read of the refresh that does not give what SPR holds (a failed read of an empty
\* list gives it).
ReadFails ==
  \/ DevicesUnavailable
  \/ InterfacesUnavailable /\ ~InterfacesAvailable
  \/ \E ap \in AP : StationsUnavailable(ap) /\ ~FetchStations(ap)
  \/ ArpUnavailable /\ ~FetchArp

\* SPR's tables rest, every read succeeds, and the plugin is not restarted.
Calm == ~ReadFails /\ ~Restart /\ UNCHANGED sprVars

InSync ==
  /\ DOMAIN snapshot.devices = registered
  /\ \A m \in registered : snapshot.devices[m].connected <=> m \in InTables

\* Once that is so for good, the snapshot comes to agree with SPR and stays so, through
\* /topology or through the legacy merge.
SnapshotConverges == <>[][Calm]_vars => <>[]InSync
=============================================================================
