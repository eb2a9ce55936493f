# Verification of spr-home-assistant

TLA+ models of the SPR plugin for Home Assistant and of the Home Assistant
integration that reads it, model-checked with TLC, with theorems checked by TLAPS.
`PROJECT.json` lists the components, the runs, the faulty variants that show that
each property can fail, the source lines that each definition models, the findings,
the hazards and the theorems.

## The system

Two programs talk over HTTP, through SPR's own proxy.

**The plugin** (Go, `src/code`) runs in a container on the router. Its goroutines:

- `pollLoop` (`state.go`) calls `refreshState` on a ticker, or earlier when woken
  through `gRefreshNow`, a channel of one place;
- `refreshState` (`refresh.go`) reads SPR's API request by request (devices,
  interfaces, topology or else stations and ARP, traffic, addresses, versions), then
  copies `gState.lastSeen` in one critical section, publishes a new snapshot in
  another, and broadcasts the transitions to the SSE hub;
- `sprbusListener` (`events.go`) starts one goroutine per sprbus topic; a handler
  records a sighting (`markSeen`) and wakes `pollLoop`;
- the HTTP server (`api.go`) serves the snapshot, the router's identity, wake-on-LAN
  and the event stream, one goroutine per request;
- `loadConfig` (`config.go`) runs before all of them, reads `config.json`, generates
  what is missing, and saves it.

They share `gState` (snapshot, last sightings, previous WAN counters) under one
mutex, the hub's set of subscribed channels under another, and the channel. Only
the configuration is persistent.

**The integration** (Python, `src/custom_components/spr`) runs in Home Assistant's
event loop, so everything between two `await`s is atomic:

- `SprCoordinator._async_update_data` fetches the snapshot and updates one table of
  devices in place, applying the `consider_home` grace period;
- its `_event_loop` reads the event stream, asks for an update at each event, and
  connects again, with a back-off, when the stream ends;
- `device_tracker` and `button` add an entity for each new device, at set-up and at
  a dispatcher signal that the coordinator sends;
- `config_flow` adds a router by hand or after a broadcast, and takes a new token when
  the coordinator meets a rejected one; several flows are in progress at once;
- `handle_wake` asks the routers that know a device, one after the other, to wake it;
- sensors, diagnostics and the rest are views.

### Inventory

| component | state | operations | what makes it correct | module |
|---|---|---|---|---|
| state store and refresh | snapshot, lastSeen | refreshState, markSeen | snapshot follows SPR; sightings are real and not lost; events are the difference of snapshots | `RefreshState` |
| poll loop | channel, ticker, `last` | pollLoop, requestRefresh | no wakeup lost, floor kept, latency bounded, polls not starved | `PollLoop`, `OnDemandRefresh` |
| WAN accounting | previous totals and time | two reads, rates | a rate counts only bytes that were carried | `WanTraffic` |
| configuration | config.json | loadConfig, saveConfigLocked | one id for ever; file never torn | `RouterIdentity` |
| event push | subscribers, channels, connections, listener | broadcast, handleEvents, listen_events, _event_loop | a dropped event is made up for; nobody blocks a broadcast; the listener comes back | `EventStream` |
| coordinator and trackers | table, last_seen, entities | _async_update_data, set-up, unload | each device has a tracker; grace period holds and ends; trackers follow the router | `Coordinator` |
| config flow | entries, flows in progress | user, zeroconf, confirm and reauth steps | one entry per router, never overwritten; a broadcast moves nothing | `ConfigFlow`, `EntryRegistry` |
| entry, its token and its jobs | stored and held token, poll timer, listener | set-up, poll, event loop, reauth, reload | never quiet with nobody told; polling and push recover | `EntryLifecycle` |
| wake-on-LAN | the list of a call under way | handle_wake, async_press, handleWake | the right routers are asked, each one; a success is real | `WakeOnLan` |
| version check, mDNS, sensors, diagnostics, packaging | a cache; none | | not modelled | |

Hard behaviours: a refresh is not atomic against SPR or the bus; any of its reads may
fail on its own; two mutexes and a lossy channel; crashes around the only file;
restarts that lose the store while Home Assistant keeps its own; an update that sends
a signal before its result is assigned; connections that stall, break and overlap;
tokens that are rejected for a moment or for good; flows and calls that overlap with
everything else.
`PROJECT.json` lists these as hazards, each at its line.

## The modules

### RefreshState

SPR's three tables (`registered`, `stationed`, `learned`) change freely. Every HTTP
request of `refreshState` and both critical sections are actions, ordered by `pc`
as in the code, with the local variables of the function as variables. A station list
is asked for one access point at a time. Failure of a read is an action of its own
(`DevicesUnavailable` abandons the refresh, the others go on with less). A topology
answer stands for SPR's own merge of the same tables. `handleBusEvent` is two
actions, because it takes its timestamp before it has the lock: `BusEvent`,
`MarkSeen`. `Restart` empties the store. Two history variables serve the properties:
`truth` (last instant a device really was there), and `told` (what a client believes
that polls for new and deleted devices and applies events otherwise).

`ReadFails` is a read that loses something. `StationsUnavailable` and its like are also
what a successful read of an empty list does to the state, so only where they lose a
device do they count as failures that `SnapshotConverges` excludes; otherwise the merge
of stations and ARP would be excluded with them.

Abstracted: names, addresses, signal, byte counters per device, and what VPN-only or
malformed entries are filtered by; an interface configuration is the set of enabled
access points it names. `learned` has the ARP entries that pass the filters of the code,
those of the uplink not among them; while the interfaces are unavailable the code does not
know the uplink and lets them pass, so no device of the table is taken to be on its side.

Runs: `refresh` (`FollowerInSync`, `SightingsAreReal`, `NoClobber`, and
`SnapshotConverges` under weak fairness of the refresh goroutine and of `MarkSeen`:
`pollLoop` has no exit, each request has a timeout of 15 seconds, and Go's mutex is
starvation-free). One device is enough for these: the refresh
treats devices independently, the properties speak of one at a time, and the theorems
cover any number. Two access points are needed for a device that roams between two
reads, two subscriptions for sightings out of order, and two seconds for a sighting
taken after the refresh that publishes began.

### PollLoop and OnDemandRefresh

`OnDemandRefresh` is what the bus handlers are promised: each change is read by a
refresh that begins after it. `PollLoop` has the select, the floor, the sleep, the
drain, the ticker (one place, drops ticks) and time in units, kept as countdowns so
that runs are unbounded. `PollLoop` implements `OnDemandRefresh` (`stale` is
`unserved`, `working` is "inside refreshState"), liveness included.

Run: `poll_loop` (`NoLostWakeup`, `EventFloor`, `ServedInTime`, `PolledInTime`,
`ServesEveryRequest`, `ScheduledPollsRun`). The goroutine may be delayed anywhere; the
history `late` tells whether time passed while it could have run and a request was waiting,
and `ServedInTime` bounds the wait when it did not. `PolledInTime` does the same for polls
that nobody asks for: `gap` is the time since the last refresh began, `tardy` whether
time passed since then while the goroutine could have run; if it did not, the next refresh
begins within `PollBound`: the interval or, if that is longer, the longest refresh with the
floor behind it. The first interval counts from the start of the ticker; the refresh that
`pollLoop` begins with is outside the claim. It takes the tick that the ticker keeps while a refresh is under way.
Fairness: weak for the goroutine and
the clock; strong for taking a tick, because a Go select chooses at random among the
ready channels. Durations in the run are small but keep the order floor < interval, and
include refreshes longer than the floor; counters are relative, so the run is unbounded.

### WanTraffic

Words of `Modulus` values, as they wrap; counters that SPR clears; reads that fail and
count as nothing. The rate is kept as the difference and the seconds it is computed
from. `RatesAreTraffic` compares the difference with the bytes really carried between
the two reads (history `between`, `measured`). A word of two values wraps within two
bytes, and two units of time make two rates; the theorem covers all sizes.

### RouterIdentity

Start, read, fill, truncate the temporary file, fill it, rename, announce, with a crash
possible between any two, edits by the operator at any time and saves that fail at any
step. Edits keep the id and leave JSON: a file that the operator makes unreadable, or
removes, is started with as a new one, with a new id. `NeverTorn`: `config.json` is never a part of what was saved.
`AnnouncedOnceIfSaved`: the id told to Home Assistant does not change until a save has
failed (history `saveFailed`); afterwards it may. Two ids are enough to see a second one
announced; the run `identity` has four, so that crashes before the first save can repeat. A write that fails may leave a truncated
temporary file, which nothing reads.

### EventStream

The hub, one handler per connection, the listener. A connection's handler goes through
its select, its write and back, so that a broadcast may find it anywhere; the stream
between them holds one message, standing for whatever the sockets buffer. The handler
of a broken connection may outlive it, and may be beside that of the next one: hence
two connections. Capacities of one or two stand for 16; what matters is full, not full
and empty. Transitions are numbered and a message is its number; versions stand for the
snapshot, published before the broadcast as in `refreshState`.

Run: `stream` (`LooksAgain`, `SubscribersEnd`, `PushRecovers`), with three transitions,
enough for one held by the handler, one in the channel and one dropped; the bound on them
also makes refreshes stop publishing in the end, without which nobody would ever be up to
date (a hypothesis of the theorem). Fairness: the
goroutines and the event loop run; the end of a request is strongly fair, since the
handler's select chooses at random. Nothing is assumed of the network, of restarts, of
the user or of the token.
That the listener notices a dead connection is justified by its 60 s read timeout
against the plugin's 30 s keepalive. Delays and the size of the back-off are left out.
Home Assistant's debouncer, through which `async_request_refresh` goes, is not in this
repository: `looked` is the instant at which the update is asked for, and an answer
already on its way at that instant may be the one that is used.

### Coordinator

The router, a plugin reduced to what it serves and to the two writers of the last
sightings, the config entry, and `_async_update_data` split at its `await`: the
answer is fixed when the plugin gives it (`Answer`) and applied later (`ApplyAnswer`),
so the world may move in between. `device_tracker`'s `tracked` set and the signal are
part of it; `button.py` repeats them.

On the plugin's side a refresh is one step (`RefreshState` has its detail). It finds every
device that is there (`PluginRefresh`), or fewer when a read fails on the way
(`PluginRefreshPartly`), or nothing happens when the device table is unavailable. A bus
handler takes its time in one step (`BusEvent`) and stores it in another, over whatever is
there (`MarkSeen`), so that a last sighting may go back.

History: `published` is the newest sighting the plugin published, `vouched` that at the
time of the answer, `onlineAt` the last instant on the network, `refreshed` whether a refresh
got through in this unit of time. What has gone wrong so far is in `faults`: `restart` of the
plugin, `late` when a unit of time passed without a refresh that got through or with an
update left waiting, `reordered` when a handler stored a time older than a published one.
Each property names the faults it does not survive. One clock for router and Home Assistant
is assumed.

- `GraceHonoured` needs that the plugin was not restarted. It has two parts. `RecordKept`:
  an update keeps a device home within `consider_home` of the `last_seen` in Home
  Assistant's own table, whatever failed reads and handlers do. `PublishedKept`: it does so
  within `consider_home` of the newest published sighting, also when a reload has lost that
  table. This part needs that nothing was `reordered`: without the premise TLC finds a
  handler delayed past a refresh, the device gone, the entry set up again, and the device
  away at once.
- `HomeIsRecent` needs that nothing was `late`. A snapshot that lags a unit may have Home
  Assistant date a device a unit late; the bound is `consider_home` all the same, or that unit
  if `consider_home` is zero.
- `TrackersConverge` has its premises in its text. `Calm`: in the end nobody changes the
  router, restarts or reloads, and what is read and answered is whole. `RefreshesGetThrough`:
  refreshes succeed again and again, unless the snapshot shows what the router has anyway.
  `pollLoop` gives attempts only, so this is not fairness of the model; `FairSpec` is
  fair to Home Assistant alone, which keeps setting the entry up, updating on a timer, and
  ends each request with an answer or an error.

Runs: `coordinator` (`EveryDeviceHasATracker`, `GraceHonoured`, `HomeIsRecent`,
`TrackersConverge`; everything may happen), and `coord_restart` for the finding below. Devices
are treated one by one, so one is enough; a grace period of one unit within three instants
has it begin, end and begin again. One waiting handler (`MaxHandlers`) is enough to store an
old time over a refresh's; the theorems cover any number.

### ConfigFlow and EntryRegistry

One record per flow: how far it is, where it came from, its unique id, and what it is
trying. Every request ends in an action of its own (`DiscoveryAnswers`, `ProbeAnswers`,
`ValidationFails`), and any router may answer at any URL, so that the router that was
discovered and the one that accepts the token may differ, as they may for the code. What
Home Assistant does is in the module's comment: `async_set_unique_id` aborts a flow while
another one has the id, reauthentications aside, and creating an entry aborts the flows
that have its id. `EntryRegistry` is the promise: entries are made once, never
overwritten, and changed in one of two ways (`Repoint`, `Rekey`).

Runs: `config_flow` (`FlowsUnique`, `ImplementsRegistry`, `DiscoveryNeverRepoints`), with
two routers, URLs and tokens, interchangeable, and three flows: an offer, a
reauthentication and a user step can be about one router at once. `manual_setup` is a
finding.

### EntryLifecycle

One entry and one token: set-up and its retries, polling with its timer, the event loop
reduced to whether it runs, reauthentication, reload. `accepted` is what the router
accepts at present; the entry stores a token and the client of a loaded entry holds
one, and the three may differ at any time.

Run: `entry_lifecycle` (`NeverSilent`, `PollingRecovers`, `PushRecoversToo`). Two tokens
are enough for a rotation and its reversal. Fairness: Home Assistant runs what is due and
every request ends. The premises of the liveness properties are in their text (`Settles`):
the router settles for a token, requests get through, and the user answers the
reauthentications. `PushRecoversToo` needs one more, that no token is accepted again after
it was rejected (history `relented`), see below.

### WakeOnLan

One call of the service or of a button at a time, since calls share nothing. `todo` is the
rest of the list that `handle_wake` made at its beginning, in whatever order Home Assistant
lists the entries (`Ordered`), while entries are unloaded, loaded and polled beside it. The
set of entries is the parameter, and its being finite the only assumption. A request to a router outlives the wait for it: `serving` has
the routers that still work on one, so that a packet may be sent after the answer was given
up. A router answers that the packet is sent, that the token is rejected, with another error,
or with what is not JSON; the last is SPR's proxy in the plugin's place. Each of these but the
rejection has a body, which is read outside the `try` of `_get`, so that the call may break on
it (`AnswerBreaksOff`). Two entries are enough for a first failure and a second try, in the right and the
wrong domain.

Run: `wake_on_lan` (`RightDomain`, `SuccessIsReal`, `EveryRouterTried`, `BreaksForAReason`,
`CallsEnd`, the last because a request ends after ten seconds at the latest, in whatever way:
`RequestEnds`).

## Findings

Each is a run that TLC ends with a counterexample; `PROJECT.json` quotes the lines.

- `wan_failed_read`: a failed traffic read makes the next rate count everything since
  the counters were cleared. Nothing else makes a rate count too much
  (`RatesWrongOnlyAfterAFailedPoll`).
- `coord_restart`: an update that meets the empty snapshot of a plugin that has just
  restarted drops a device that is home, with its record, although the router has had it
  all the while. When it is listed again it is away at once, if it sleeps. The loop is
  meant for "devices deleted on the router" (coordinator.py:148). Until a restart nothing
  else does this (`GraceHonoured`).
- `manual_setup`: while the form that discovery opened for a router is pending, the router
  cannot be added by hand, although its token was accepted. Nothing else turns such a user
  away (`OnlyOffersTurnAway`).

Other disagreements with comments and documents, seen in the models and not runs:

- A device that first appears connected is not announced, and waits for the next poll
  (`Transitions`; events.go:18-20 speaks of about a second).
- An id that could not be saved is announced, and another one after a restart
  (`AnnouncedOnceIfSaved` needs its premise; config.go:25 calls it stable).
- While SPR's API is down the plugin serves its last snapshot, and every update stamps the
  connected devices as seen now, so that devices which left stay home (`HomeIsRecent`
  needs that nothing was `late`; const.py:21).
- A momentary 401 or 403 that only the event loop meets ends push for good, while polls
  go on (`PushRecoversToo` needs `~relented`; README.md:20-21 promises about a second).
- `markSeen` lets an older sighting replace a newer one, since it takes its timestamp
  before the lock and compares nothing (refresh.go:13). Home Assistant's own record does not
  go back with it; a reload loses that record, and the grace period of a device that has
  left meanwhile may be cut (`GraceHonoured` needs `reordered` for its second part).
- An event waits for up to the floor of two seconds and the refresh under way
  (`ServedInTime`), not "within a second" (state.go:130).
- `handle_wake` ends with an exception that is not its own error when an entry it had
  listed was unloaded, or the body of an answer, be it an error's, breaks off, takes too long
  or is not JSON (`BreaksForAReason`).

## What is proved

For every value of the constants, with only the named assumptions of the modules.

- `RefreshState_proofs`: types; `NoClobber`; `SightingsAreReal`; `FollowerInSync`.
  A time is real only if every place it was copied from was: `SightingsInv` follows it
  from the bus handler's local and from `now` through the copy of the map into the
  store and the snapshot. `FollowerInv` adds that the flags being compared are those
  of the snapshot being replaced, which no other goroutine replaces.
  `PresenceRecent` joins `SightingsAreReal` with the stamp of the snapshot: who is connected
  in it was there when its refresh began, or later.
- `PollLoop_proofs`: types; `NoLostWakeup`; `EventFloor` (the invariant relates the nap
  to the time since the last refresh); `ServedInTime` (it
  splits the age of a request by where `pollLoop` is, while `late` is false); `PolledInTime`,
  whose invariant `PollInv` bounds the gap and the countdown to the tick together until the
  tick is there; the safety of the refinement.
- `WanTraffic_proofs`: types; `RatesAreTraffic`. The invariant bounds each counter by
  the previous total and what was carried, unless it wrapped or was cleared, in which
  case it is found lower. `RatesWrongOnlyAfterAFailedPoll` needs less than the premise of
  `RatesAreTraffic`: only the reads of the previous refresh, since what this one fails to
  read counts as zero and makes no rate.
- `RouterIdentity_proofs`: types and `NeverTorn` whatever fails; `AnnouncedOnceIfSaved`.
  The invariant, until a save has failed: a serving process has its id in the file, and so has
  whoever was ever announced.
- `EventStream_proofs`: types, and `LooksAgain`, which needs two facts beside it: what is
  broadcast is in the snapshot, and whoever is subscribed has a handler. `EventsInOrder`:
  wire, handler and channel of a connection hold, in this order, ever later events, all
  broadcast since it was subscribed, though connections are used again; it rests on
  lemmas about what sending, taking and writing do to such a sequence (`InOrder`).
- `Coordinator_proofs`: types; `EveryDeviceHasATracker`, with the fact that platforms have
  data; `GraceHonoured`, from `PublishedInv`: until a restart whoever is `Listed` is in the
  snapshot and in the answer (`ListsInv`), which is all that `RecordKept` needs, and until a
  published time is stored over by an older one the plugin remembers, serves and has answered
  with every sighting it has published (`GraceInv`); `HomeIsRecent`: whoever is connected in the snapshot,
  the answer or by the last_seen that the grace period counts from was online at most one
  unit ago (`RecentInv`), the unit being what a snapshot lags before the next refresh.
- `ConfigFlow_proofs`: types; `FlowsUnique`; that every step is one of `EntryRegistry` or a
  stutter; `DiscoveryNeverRepoints`. The invariant relates flows and entries: an offer is
  only pending for a router without an entry, a reauthentication only for one with it, so
  that the entry is still missing when the confirmation creates it. From the same invariant,
  a user step with an accepted token fails to leave an entry exactly if an offer for its
  router is pending.
- `Entries_proofs`, for `EntryLifecycle`: types; `NeverSilent`; that the event loop has
  returned only if its token is rejected now, or one was accepted again after a rejection
  (`LoopStopsForAReason`). For `WakeOnLan`, whatever
  the number of entries: types; `RightDomain`; `SuccessIsReal`; `EveryRouterTried`;
  `BreaksForAReason`. `ListInv` splits the list that was chosen into what was asked and what
  is left, and ties the answer that is waited for to the head of the list, whose router has
  then done with the request; `ChoiceInv` keeps
  the list within the entries that were loaded, and within the owners if there were any.

### Liveness

The prover knows neither ENABLED nor WF, so each liveness theorem takes its fairness as an
explicit hypothesis: for an action A with guard E, `[]<>~E \/ []<><<A>>_vars`
(`FairWhere(E, A)`), and `<>[]~E \/ []<><<A>>_vars` (`StrongFairWhere`) where the module has
SF. Where E implies that A is enabled, and each E below is the guard of A or stronger, this
follows from the fairness of the module; TLC has also found that `FairSpec` implies each
hypothesis on instances of the size of the runs (or smaller). Two hypotheses are of another
kind, since what gives them is a
countdown or a loop, which takes induction: a refresh's loops over access points and
devices end (`RefreshRuns`, `[]<>~Looping`), and a `time.Sleep` returns
(`[]<>~At("sleep")` in `PollLoop_proofs`). A third is a premise that MaxVersion supplies in
the run: that no more is published in the end (`PushDoesRecover` of `EventStream_proofs`).

- `SnapshotDoesConverge`: every phase of a refresh is left for the next, so refreshes begin
  and publish again and again; one that began when SPR was already at rest (`Fresh`)
  publishes what the tables say, and the next ones do not undo it.
- `PollsDoRun`, `RequestsDoGetServed`: the loop goes round while there is a tick or a
  request; the strongly fair select takes the tick, and `NoLostWakeup` leads a request to a
  refresh. With `SafetyRefined` the second is what `ServesEveryRequest` says.
- `SubscribersDoEnd`: a write to a connection that is gone does not block, so the handler
  comes back to its select again and again. `PushDoesRecover`: that frees a place to connect
  to; the stream that is up has a handler whose held message, channel or wire leads to a
  read, unless nothing is owed (`LooksAgain`), and a look at the last snapshot stays good.
- `TrackersDoConverge`: the snapshot comes to show what the router has, by the premise
  `RefreshesGetThrough` of the property and not by fairness, and stays so while it is calm,
  also over refreshes that fail; then the answer agrees, then the table, then the
  trackers, each stage stable once those before it are.
- `PollingDoesRecover`: a stored token that does not work is found out by a set-up or a poll
  (`NeverSilent`), and replaced; the client gets it by a reload (`HeldIsStored`: it is the
  stored one unless a reload is due or a set-up about to begin); then nothing asks for
  another, and the entry is set up. `PushDoesRecover` (`Entries_proofs`): a loop that has
  returned belongs to a client whose token is rejected, or was once (`LoopRuns`).
- `CallsGetOn`: a call of the wake-on-LAN service with n routers left ends, or comes to have
  fewer left, for every n (`CallInv`: a call that is to ask has a router left to ask).
  `PressesDoEnd`: the list of a button has one router, so a press ends.

Only model-checked: `CallsEnd`, of which `CallsGetOn` lacks the induction on the length of
the list (out of the prover's reach), the fairness of the refinement in `ServesEveryRequest`, which is stated
with WF, and that the fairness of each module implies the hypotheses above.

## Not modelled

mDNS (one fixed registration), the version check (one cached request inside the refresh),
sensors, binary sensors, update entity, diagnostics (views of the coordinator's data),
packaging; SPR, sprbus and Home Assistant themselves, which are in the modules only as
what they may do. In the modules: clock differences, exceptions in the middle of an update,
and the delays of the back-off.

## Plan

Done, in this order: `RefreshState`, `PollLoop` with `OnDemandRefresh`, `WanTraffic`,
`RouterIdentity`, `Coordinator`, `EventStream` and their proofs; then `ConfigFlow` with
`EntryRegistry`, `EntryLifecycle`, `WakeOnLan`, `Coordinator` with every fault in one run, and the proofs of `HomeIsRecent` and of the new modules; then the proofs
about `WakeOnLan` for any entries, and the liveness theorems; then the latency of polls, the
order of events, and what exactly it takes for two of the findings to show; then the bus
handlers and partial refreshes of `Coordinator`, and every way in which a wake-on-LAN call
can break.

Left:

1. `EventLoop`: keepalive, read timeout and back-off with time, as a timed companion of
   `EventStream`.
2. `SprSystem`: the plugin's snapshots, the stream and the coordinator composed, against an
   abstract presence specification: a device is home while on the network and for the
   grace period after it, within stated delays.
3. The comparison of versions as a pure operator against a reference order.

The project keeps to a dozen runs, each asking all that its module promises: a new
module's run takes the place of the least telling of the runs above.
