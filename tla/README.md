# TLA+ models of the OnePlus 3 location HAL

The repository is an Android device tree for the OnePlus 3. Most of it is
configuration: makefiles, overlays, policies, audio and Wi-Fi tables. Its program logic
is the GNSS location HAL under `gps/`, about 30 000 lines of C++ and C; beside it there
are a lights HAL, a recovery updater and a few boot helpers. This directory holds TLA+
models of the location HAL, the TLC configurations that check them on small instances,
and proofs that TLAPS checks for every value of the constants.

| File | What it is |
| --- | --- |
| `Agps.tla`, `MCAgps.tla`, `agps_*.cfg` | the AGPS manager: data links of the modem over three network interfaces |
| `AgpsProofs.tla` | proofs about `Agps`: machines, subscribers, connections and links agree |
| `Tracking.tla`, `MCTracking.tla`, `tracking_*.cfg` | LocationAPI clients and the tracking sessions of `GnssAdapter` |
| `TrackingProofs.tla` | proofs about `Tracking`: the fix, the clients and the sessions |
| `ClientSessions.tla`, `ClientGeofences.tla`, `BiDict.tla` | a client of LocationAPI: how it matches responses with requests |
| `GnssConfig.tla`, `MCConfig.tla`, `pending_config.cfg` | configuration and power vote, from the HIDL service to the engine |
| `Reports.tla`, `Nmea.tla` | position and satellite reports, and the NMEA sentences made of them |
| `SystemStatus.tla`, `OsObserver.tla`, `XtraObserver.tla` | the status cache, the observer of data items, what the XTRA daemon is told |
| `LocApi.tla` | the adapters, their event masks and the engine |
| `Lights.tla` | the lights HAL |
| `MCServices.tla`, `services.cfg` | one instance of each of these for TLC |
| `ServicesProofs.tla` | proofs about these: adapters, XTRA daemon, lights, reports, status cache, observer |
| `ClientProofs.tla`, `ConfigProofs.tla` | more of them: sessions and geofences of a client; configuration and power vote |
| `Odcpi.tla`, `NiSession.tla` | two protocols of `GnssAdapter` with timeouts: coarse positions, network-initiated requests |
| `LocTimer.tla`, `LocHeap.tla`, `PrioritySet.tla` | timers; their heap and what it implements |
| `LocThread.tla`, `MsgTask.tla`, `Fifo.tla` | a message task with its thread and queue, and what it implements |
| `MCRuntime.tla`, `runtime.cfg` | one instance of each of these for TLC, with fairness |
| `RuntimeProofs.tla`, `MsgTaskProofs.tla`, `HeapProofs.tla` | proofs about these: requests and timers; the message task; the heap |
| `PROJECT.json` | components, runs, mutants, map to the source, findings, hazards, theorems |

To repeat a result, in this directory: `tlc -config agps_ds.cfg MCAgps`,
`tlc -config tracking_fix.cfg MCTracking`, `tlc -config runtime.cfg MCRuntime`,
`tlapm AgpsProofs.tla`.


## 1. The system

```
 HIDL services (gps/android)      one client object per framework interface
        |  calls                                    ^ callbacks
 LocationAPIClientBase            matches responses with the commands they answer
        |                                           ^ responses, reports
 LocationAPI                      client table under gDataMutex; chooses the interface
        |  GnssInterface                            ^
 GnssAdapter  <---- messages ---- other threads: callers, modem, framework, timers
   |     |  \                     one message thread handles them in order
   |     |   AgpsManager, NI sessions, ODCPI, power vote, system status
   |   UlpProxyBase
 LocApiBase                       adapter table, event masks, engine down and up
        |
   the GNSS engine (modem; its driver is not in the repository)
```

Almost everything `GnssAdapter` does happens in the thread of its message task. A call
from another thread becomes a `LocMsg` in a FIFO, so handlers do not interleave with one
another. What does interleave is the order of the messages: callers, the modem, the
Android framework, the engine's restart and the timers all post into the same queue, and
each acts on what it knew when it posted. Some code runs outside that thread and shares
state with it: the DS retry timer, the thread that waits for the user's answer to an NI
request, and LocationAPI itself (under a mutex of its own).

### Inventory

**AGPS manager** (`gps/gnss/Agps.cpp`, `Agps.h`; `GnssAdapter.cpp` 2697-3002). *State*:
for each of the network interfaces AGNSS, INTERNET and DS a state machine (RELEASED,
PENDING, ACQUIRED, RELEASING) with a list of subscribers, one per connection handle of
the modem; the number of retries of the DS data call. *Operations*: request and release
of a link by the modem; granted, denied and released reports of whoever provides the
connection; the retry timer. *Interacts with* the modem through status callbacks, with
the framework and the modem's data services through connect and disconnect requests.
*Hard*: reports of one request arrive after the next was made; releases cross grants;
several subscribers share a connection and want different things; the DS client is busy,
has no profile or fails; the timer thread reads the list without a lock. *Correct if*
states and subscriber lists agree, a machine waits only for something that will come, and
the modem gets an answer. **Modelled: `Agps`.**

**LocationAPI** (`gps/location/LocationAPI.cpp`). *State*: the callbacks of each live
client object, the interfaces that are loaded. *Operations*: create, update callbacks,
destroy; start, update and stop of tracking, batching, geofences; NI responses; the
control API. *Hard*: a client's address is used again while its messages are queued; which
interface is told of a client's end depends on its latest callbacks. *Correct if* the
adapter's view of the clients catches up, and nothing outlives a destroyed client.
**Modelled for tracking: `Tracking`.**

**GnssAdapter, tracking sessions** (`gps/gnss/GnssAdapter.cpp` 1097-1245, 1333-1771).
*State*: the adapter's client table, the map of sessions with their options. *Operations*:
start, update and stop; removal of a client; restart after the engine came back. *Hard*:
many sessions over the one fix the engine has, with four pieces of code that each decide
which session is the active one; the engine may refuse any command and may go down at any
time. *Correct if* the fix is the one the sessions need. **Modelled: `Tracking`.**

**GnssAdapter, NI sessions** (1842-1937, 2323-2480). *State*: two sessions with a request
id, a countdown, a thread and a lock each. *Operations*: a request of the modem, the
user's response, the timeout. *Hard*: the answer races the timeout, the thread clears
fields after it released the lock, and an emergency request cancels the other one.
*Correct if* a request ends, its payload is freed once, and its slot can be used again.
**Modelled: `NiSession`.**

**GnssAdapter, ODCPI** (2540-2695). *State*: request active, emergency, the timer.
*Operations*: start and stop by the modem, expiry, injection. *Hard*: the expiry is a
message that may be handled after the timer was restarted. *Correct if* an active request
is renewed and an emergency passed on as one. **Modelled: `Odcpi`.**

**Configuration and power vote** (`Gnss.cpp`, `GnssConfiguration.cpp`, `AGnss.cpp`,
`LocationAPIControlClient`; `GnssAdapter.cpp` 331-1096 and 1940-2028). *State*: the pending
configuration of the service, the queues of the control client, `mGps_conf`, the vote.
*Hard*: calls before the callback, refusals and restarts of the engine, a lock that is
configured while the vote is held. *Correct if* what was asked for is stored and the
engine has what is stored. **Modelled: `GnssConfig`.**

**Reports** (`GnssAdapter.cpp` 193-330 and 2030-2322, `loc_nmea.cpp`). *State*: the
satellites of the last fix. *Hard*: they are used in the report after it. *Correct if* a
flag belongs to the fix delivered just before, and NMEA lists what is in view.
**Modelled: `Reports`, `Nmea`.**

**Location API clients** (`LocationAPIClientBase.cpp`, `.h`). *State*: queues of requests
that wait for a response, for tracking, sessions by id, NI responses and geofences; maps
of session and geofence ids. *Hard*: responses are matched with requests by position in a
queue, so a response that never comes, or comes first, shifts all that follow; a response
acts after the unlock; a command may be refused when the client has forgotten the session
already. *Correct if* each response reaches the command it answers, and what an interface
runs can be stopped. **Modelled: `ClientSessions`, `ClientGeofences`,
`BiDict`.**

**LocApiBase and adapters** (`gps/core/LocApiBase.cpp`, `LocAdapterBase.cpp`). *State*: an
array of `MAX_ADAPTERS` adapters without holes, the union of their event masks. *Hard*:
registration and removal while the engine restarts. *Correct if* the engine reports what
the adapters want, and each is reached once. **Modelled: `LocApi`.**

**System status and OS observer** (`SystemStatus.cpp`, `SystemStatusOsObserver.cpp`,
`LocUnorderedSetMap.h`). *State*: the last reports of each item; two maps between clients
and data items, a cache of the items, counts of turn-on requests. *Hard*: what is a change
is decided in two places; whether the framework is asked depends on which keys are new.
*Correct if* a client knows the latest value of what it wants, and the framework reports
it. **Modelled: `SystemStatus`, `OsObserver`.**

**XTRA observer** (`XtraSystemStatusObserver.cpp`). *State*: a copy of lock, connections,
TAC and MCC/MNC. *Hard*: datagrams to a daemon that is down are lost. *Correct if* a daemon
that was answered knows them as they are. **Modelled: `XtraObserver`.**

**Timers** (`gps/utils/LocTimer.cpp`, `LocHeap.cpp`). *State*: a heap of timers, the
operating system timer, a poll task. *Hard*: two threads arm and disarm the same timer; a
timer is stopped while its expiry is queued. *Correct if* each timer ends and its delegate
is deleted once. **Modelled: `LocTimer`, `LocHeap`.**

**Threads and queues** (`LocThread.cpp`, `MsgTask.cpp`, `msg_q.c`, `linked_list.c`). *Hard*:
stop before the spawned thread has started; destruction while a receiver blocks. *Correct
if* messages are handled in order, and a task that is destroyed ends. **Modelled:
`LocThread`, `MsgTask`.**

**Lights HAL** (`liblight/lights.c`). *State*: three lights that share one LED, the files
of the driver. *Hard*: steady and blinking use different files. *Correct if* what is shown
depends on the lights that are on, not on those before. **Modelled: `Lights`.**

**The rest.** HIDL glue, parsing of configuration files, sockets, recovery and boot
helpers: see section 9.

`PROJECT.json` lists the components with their sources, and under "hazards" the places
where the code is hard to test, with the properties that cover them, or a note.


## 2. The AGPS manager: `Agps`

### State and actions

| In the model | In the code |
| --- | --- |
| `created`, `Creating` | `createAgpsStateMachines`; the DS machine exists only if its client initialises |
| `mState[n]`, `subs[n]` | `AgpsStateMachine::mState`, `mSubscriberList` |
| `mRetries`, `timers`, `retry` | `DSStateMachine::mRetries`, armed `loc_timer`s, what `retryCallback` has read and not yet posted |
| `msgQ` | the queue of the adapter's message task |
| `fwReq[n]`, `conn[n]` | external: requests the connection provider has not served, whether the connection is up |
| `modem[h]` | external: what the modem thinks of its link |
| `requestATL`, `releaseATL`, `report(e)` | `AgpsManager::requestATL`, `releaseATL`, `reportAtl...`, `reportDataCall...` |
| `processAgpsEvent...` | the methods of the same name; each sets every variable it touches in one step |
| `StartDataCall` | `DSStateMachine::requestOrReleaseDataConn(true)` with the retry and the fallback to SUPL |
| `retryRead`, `retryPost` | `DSStateMachine::retryCallback` in the timer thread, two steps as the message thread can run between them |
| `ModemRequest`, `ModemRelease`, `Provider`, `ConnectionLost` | external, from how the code uses them |

A handler is one step because one thread runs all handlers and no lock or wait occurs
inside one. A subscriber list is a function from handles to the status of their
subscriber: `addSubscriber` never lists a handle twice. The order of a list matters only
for "the first active subscriber", which is therefore any active one, and for the order of
the messages a denial posts, which is any order (`Orders`). APN names and bearers are not
kept. `handleModemSSR` has no caller in the repository.

### Runs

- `agps_framework` (pass): two handles, each of any type, `USE_EMERGENCY_PDN` off, so SUPL
  and emergency requests share the AGNSS machine. This is where subscribers that wait for
  the close and subscribers that do not meet. It checks the agreement of machines with
  subscribers (`StateMatchesSubscribers`, `FrameworkReleasedIsEmpty`), that a machine waits
  only for something still to come (`FrameworkPendingHasRequest`, `ReleasingWillEnd`), that
  an acquired connection exists or its loss is queued (`AcquiredIsBacked`), that HAL and
  modem agree on the links (`LinkAgreement`), and that each open request is answered
  (`OpenAnswered`). Two requests, a release and the reports of the one before fit into
  `MaxOutstanding = 3`. With two handles every pair of subscriber statuses meets in one
  list; the code tells lists apart only by whether they hold an active and an inactive
  subscriber, and the proofs of section 6 cover any number of handles.
- `agps_ds` (pass): one emergency handle on the DS machine and one SUPL handle. The data
  client may be busy, succeed or have no emergency profile, and may fail to initialise.
  `MaxRetries = 4` is the code's value; `MaxTimers = 2` lets one timer be read while
  another is armed. `TypeOK` bounds the retries; `OpenAnswered` covers the whole chain of
  busy, retry, fallback and SUPL.
- `agps_closing`, `agps_pending`, `agps_fallback` (violations): see section 7.

Deadlock is checked, except in `agps_fallback`, where both handles may end in a state in
which nobody has anything to do.

### Fairness

`WF(MsgThread)`: the message task takes messages as long as there are any.
`WF(retryRead)`, `WF(retryPost)`: an armed timer expires, and its callback runs to the end.
`WF(Provider(n))` for each interface: the framework or the data services serve what they
were asked for. The last is an assumption on code outside the repository; the HAL has no
timeout of its own for a missing report and would wait forever.


## 3. Tracking sessions: `Tracking`

### State and actions

| In the model | In the code |
| --- | --- |
| `clientData` | `gData.clientData` of LocationAPI: callbacks of live objects |
| `mClientData`, `mTrackingSessions`, `mSessionIdCounter` | the members of `GnssAdapter` and `LocAdapterBase` |
| `createInstance`, `updateCallbacks`, `destroy`, `startTracking`, `updateTrackingOptions`, `stopTracking` | the methods of `LocationAPI` under `gDataMutex`, with the command of `GnssAdapter` they call, which posts a message |
| `saveClient`, `handleStartTracking`, `handleUpdateTracking`, `handleStopTracking` | `MsgAddClient` and the messages of the tracking commands |
| `handleRemoveClient`, `stopClientSession`, `eraseClient` | `MsgRemoveClient`: the loop of `stopClientSessions`, one session per step, then `eraseClient`; no other message is handled in between |
| `startTrackingMultiplex`, `updateTrackingMultiplex`, `stopTrackingMultiplex`, `Smallest` | the functions of the same names and their search for the smallest interval |
| `StartFix`, `StopFix`, `fix`, `engine` | `startTracking` and `stopTracking` of the adapter, down to the engine (external), which may refuse |
| `EngineDown`, `EngineUp`, `handleEngineUpEvent` | engine down and up: `LocApiBase::handleEngineUpEvent` posts `LocSsrMsg`, the adapter then posts its restart message; others may post between the two |
| `handleSsr`, `restartSessions` | the two messages |
| `unanswered`, `stopRefused` | history: starts with no response yet; the engine refused a stop during a removal |

A client is the address of its object, and an address may be used again. Callbacks keep
only their kind: "tracking" can track, "ni" belongs to the GNSS interface but cannot
track, "batching" belongs to another interface. Options keep the interval and the mode;
`NoSize` stands for options that fail the size check.

Left out: the FLP interface, which is not in the repository (the model has it absent and
the GNSS interface loaded); the ULP proxy, whose base class returns false; the event mask,
a function of `mClientData` recomputed whenever that changes; responses to updates and
stops.

### Runs

- `tracking_fix` (pass): two clients, two intervals, an engine that refuses anything at
  any time and goes down and up. `ActiveIsSmallest`: a fix that runs has the smallest
  interval of all sessions, and none runs for no session. `NoOrphanSession`: a destroyed
  client leaves a session only if the engine refused to stop it. Two ids per client (the
  limit 3) and two intervals cover smaller, equal and larger in each comparison.
- `tracking_clients` (pass): one address used over and over, with callbacks that change
  between "tracking" and "ni" while commands are queued, and an engine that refuses only
  while it is down. `ClientsAgree`: once the adapter has caught up, its table says what
  LocationAPI's says. `SessionsAreServed`: sessions have a fix unless the engine is not
  up or the restart is queued. `StartAnswered`: every start gets a response, with or
  without the callback it needs.
- `tracking_destroy`, `tracking_mode` (violations): see section 7.

`MaxQueue = 2` is the number of messages LocationAPI and `EngineUp` leave in the queue;
the restart message comes on top of it. Two are enough for a command between the two
messages of the engine's return, for a creation behind a removal of the same address, and
for an update or a stop behind a start.

The counter of session ids goes round a range of two or three ids instead of 2^32 - 2.
`Unused` keeps an id from coming up again while its session or a command for it exists,
as the code's range does in practice; without it the small range would show
collisions the program can meet only after four thousand million sessions.

### Fairness

`WF(Handle)`: the message task handles what is queued. `WF(handleEngineUpEvent)`: the
thread that reports the engine up goes from its first message to its second. Nothing is
assumed of the callers, or of the engine coming back.


## 4. Services: `MCServices`

Nine models whose parts do not act on one another within what they check. Each is a module
of its own with `Init`, `Next` and `Spec`; `MCServices` makes one instance of each and lets
a behaviour run one of them, its `part`, while the variables of the others keep their
initial values. The states of the run are thus the sum of those of the nine models, not
their product, and a property is about one part. Where components do interact the
interaction is inside a module: the observer extends the status cache, the reports extend
the NMEA generator, the configuration spans service, client, adapter and engine.

The inputs and bounds of the parts are constants of `MCServices`, since theorems are proved
about all of them. `ServicesAssumption` and `ReportsAssumption` give their types: the values
of an item are numbers, SUPL versions are 1 to 3, colors are bytes, a satellite has a
constellation and a number, the ids of NI requests are numbers, those of geofences are
finitely many and not 0, and the debug sentences are those `SystemStatus` has a parser for.
`services.cfg` gives them

- sessions: one id of the caller, two session ids, two NI ids of which one is that of the
  second session, three modes, two commands and three waiting requests for each interface;
- geofences: two ids, two masks, two sessions, two commands;
- configuration: three commands and one restart of the engine;
- reports: four fixes, three satellite reports and a limit of six satellites;
- status: one debug sentence, two positions and one network type with six events;
- observer: two clients, two items, one value, one event and three requests;
- daemon: two fields with three updates and two starts;
- lights: five light states; adapters: three for an array of two.

### `ClientSessions` and `BiDict`

`queue`, `mTracking` and `dict` are `mRequestQueues`, `mTracking` and `mSessionBiDict`;
each `locAPI...` method is an action. An interface is a thread that takes the commands of
LocationAPI in order, answers and calls `responseCb`: `Serve` takes the request out of its
queue under `mMutex`, `onResponse` runs it after the unlock. The GNSS interface is
`GnssAdapter` (1450-1771): it says nothing of a stop or an update of a session it does not
know, and a start, a stop or an update that the engine refuses is answered with a failure
and leaves its sessions as they are (`GnssAnswers`, `RunningAfter`). The FLP interface is
external; it answers everything, as `LocationAPI.h` says (`FlpAnswers`). A call on a session by id
finds the id and reads its entity in two lookups, between which a response or a completed
trip may remove the session (`FindSession`, then the call); an update writes its entry in
a third step. A lookup of a missing id inserts session 0, as the code's `map[]` does.

`usage` is who calls: the HAL's GNSS client tracks and answers NI requests; its batching
client has one session, batches only and waits for no answer, as `GnssBatching` passes each
call straight on; "sessions" calls anything.

`SessionAnswersMatch`. For the first, resetting the tracking queue with each new session
throws an unanswered stop away, so responses reach their requests whatever comes late, is
refused or is not answered. For the second the shared queue is in step until a response comes
when its session is gone from the dictionary, for instance that of the second of two stops:
it takes no request, the request stays in the queue (`LeftOver`), nothing resets that queue,
and from then on responses reach the requests before theirs. The property speaks of the time
up to there. For the third the queue gets out of step in more ways, and the property does
not speak of it.

`SessionsAreKnown`: a session that an interface runs is known to its client, by `mTracking`
or by its id, or its stop is on the way, and the directions of the dictionary agree. Two
things alone put a session out of reach, and the formula names them. One is a stop that the
GNSS interface refused: `locAPIStopTracking` has cleared `mTracking` whatever the answer, the
client may start another session, and the first runs on (`refused` remembers such stops). The
other is a request left over in the batching queue: the success of a later command is then
taken for that of a stop and ends the session in the dictionary. See section 7.

A response names its id and no kind, and the ids of sessions and of NI requests come from
two counters, so an NI id may be that of the tracking session, as the 2 of `services.cfg`
may be. A response for either is then given to the tracking queue, which is searched first;
`Ambiguous` names these ids, and `SessionAnswersMatch` speaks of responses for the others.
What the wrong responses do to the queue stays in the behaviours that are checked, and later
responses for ids that are not ambiguous are right all the same.

### `ClientGeofences`

`locAPIAddGeofences` to `locAPIResumeGeofences`, the interface that answers them in order
(external), the collective response in two steps and the translation of breaches. Requests
are matched by order alone; `GeofencesAreKnown` says that this suffices, that the ids told
are those of the call or 0 for a geofence removed meanwhile, that a removed geofence reports
no breach, and that what is watched can be removed. The framework does not use an id again
that it believes to exist.

### `GnssConfig`

`pending` is `Gnss::mPendingConfig`, `enabled`, `config`, `control`, `deletion`, `configQ`
are the control client, `conf` is `mGps_conf`, `vote` the power vote, `engine` what the
engine was last told. `updateConfiguration`, `setCallback`, `cleanup`, `deleteAidingData` are
calls of the framework; `readConfig`, `setConfig`, `updateConfig`, `enable`, `disable` and
`deleteAiding` the adapter's messages. The engine may refuse any item and restart.
`setCallback` reads the cached capabilities in the framework's thread without a lock and
passes them on in a step of its own (`passCapabilities`), between which the adapter may report
new ones (`onCapabilitiesCb`). `EngineFollowsConfig`: with no configuration waiting the engine has what is stored, and is
unlocked exactly while enabled. `ControlAgrees`: responses reach their requests although the
queue is reset, and client and adapter agree on the vote. `WantedIsConfigured`: what the
framework asked for ends up stored and the callback knows the modes, unless the older
capabilities overtook the report of the newer ones (`stale`). Items have small
sets of inputs, some equal to what gps.conf has, which the code treats as no change.

### `Reports` and `Nmea`

`reportPosition` judges, delivers and remembers the satellites used; `reportSv` flags them.
A sentence is a record of what it tells: talker, counts, satellites, which fields it has.
The shift `1 << (svId - 1)` of a 32-bit integer is modelled with its sign extension and,
beyond 32, as either outcome of the undefined shift. `FixFlagsSatellites`: a satellite that
comes without the flag "used in fix" gets it exactly if it was used in the fix delivered just
before. One that comes with the flag keeps it, used or not: the code never clears it, against
its own comment (section 7), and some satellites of `MCSvReports` come flagged. The property
holds for ids the shift can express; above 31 the code may flag satellites of BeiDou that
were not used. `GsvListsInView`: the sentences of each of GP, GL and GA are one series that
lists the satellites in view once, in order, and numbers and counts itself right. QZSS and
BeiDou share the talker PQ; its sentences are two such series, that of QZSS and then that of
BeiDou, each numbered from 1 (section 7). It is checked for no satellite, a full sentence and
more than one, with both constellations of PQ in view, and proved for every report. `Where` is a recursive function rather than `SelectSeq` because the proof
needs its recursion.

### `SystemStatus` and `OsObserver`

The cache keeps the last five different reports of each item. A report is a pair of what
its `equals` compares and the rest. Network reports are collated with the last one.
`StatusIsCurrent`: the last report of an item is what was last said, and the networks in it
are those that are up, if the first report was of a connection: `collate` is not called for
the first report, so a disconnection that comes first is stored as a connected type.
Six events are one more than the cache holds.

`OsObserver` adds the two maps of `LocUnorderedSetMap`, the value cache, the framework's
subscription and the turn-on counts; a request is one message and one step.
`trimOrRemove` and `removeAndReturnInterset` read what they have just erased, and the model
lets them return any part of the right result. `ClientsAreCurrent` and
`FrameworkIsSubscribed` are about clients that subscribe and unsubscribe.

### `XtraObserver`, `LocApi`, `Lights`

`XtraObserver`: the observer's copy, the daemon that dies and starts (external), datagrams
that are lost, a request of a dead daemon that arrives late. `DaemonIsCurrent` covers the
four fields of the answer; the throttle flag is not in it and a restarted daemon does not
learn of it.

`LocApi`: three adapters over an array of two, so that one finds it full; masks, messages
that open the engine, the engine down and up. `AdaptersAreServed`: with the queue empty the
engine reports what the registered adapters want and no more, and each is reached once.

`Lights`: the files of the LED driver, with the light states that are steady, blinking,
dimmed to nothing, and off with a blink left in their timing. `LedShowsTopLight` compares
what is in the files with what was requested, not with what the code computed.


## 5. Threads and timers: `MCRuntime`

Packed like `MCServices`, with fairness: the threads of the part go on. Each part has at
most three such threads, so the fairness is that of three disjunctions over the parts; as
a behaviour stays in one part, that is the fairness of each thread.

- **`Odcpi`**: the messages of the modem, the framework and the timer; `timerRunning` is
  the LocTimer under `OdcpiTimer`, `timerActive` its own flag, which stays up after an
  expiry. `RequestIsWatched`: while a request is active its timer runs or its expiry is
  queued, and an emergency was passed on as one. `RequestIsRenewed` (liveness): a request
  that stays active is renewed again and again. Fairness: the timer expires and the
  message task runs.
- **`NiSession`**: the adapter's thread and one thread per request. The adapter finds the
  slot without its lock and stores the response under it (`gnssNiResponseCommand`,
  `StoreResponse`); the thread clears `reqID` after the unlock (`niThreadClears`).
  The timeout may come at any time, also when the answer is stored and the thread has not yet
  taken the lock again: `NO_RESPONSE` then replaces it.
  `NiRequestsAreSound`: a payload is freed once, the modem told at most once, and a slot
  with a request has the thread that empties it. `RequestEnds` (liveness): each request
  that was shown ends. Two requests use a slot one after the other or both slots at once.
  What is not claimed: that the user's answer is used. The late clearing may hide the id
  of the next request in the slot, whose answer is then refused with ID_UNKNOWN.
- **`LocTimer`**: clients, the timer task and the poll thread over the kernel's timer `fd`.
  `TimersAreWatched`: a timer in the heap has a wake-up on its way, and a delegate is
  deleted once; `TimerEnds` (liveness): each started timer ends. Two clients, three
  starts and a stop give a timer that is added, removed or due between the steps of an
  expiry. The property does not say that a timer is never early: an expiry
  message pops the top of the heap whatever its time.
- **`LocHeap`** implements `PrioritySet` (`ImplementsPrioritySet`, a refinement with the set
  of the tree's data as mapping), and each of its steps leaves a tree that is in order and
  whose sizes are right (`StaysSound`, what `checkNodes` checks); five objects, two pairs
  of equal rank, make trees of three levels that pops have unbalanced. The methods that
  call themselves on a subtree are functions over the depth they go down to. `remove` goes by
  the address of the object: `PrioritySet` says so, and an absent object is not found although
  one of its rank is there, against `LocHeap.h` (section 7). `LocTimer` uses what
  `PrioritySet` promises and not the tree.
- **`MsgTask`** on `LocThread`: the mutex and condition variable, spurious wake-ups, the
  doubly linked list with its links, joinable and detached threads, a creation that fails.
  `ImplementsFifo`: a refinement of `Fifo`, with the messages from the
  tail to the head as the queue. `TaskIsSound`: a walk by `p_next` from the head and one by
  `p_prev` from the tail meet the same messages, those accepted and neither handled nor
  freed; nothing is left behind, and the delegate that parent and thread share is deleted
  by the last of them. `TaskEnds`
  (liveness): a destroyed task ends. A thread that reads `mRunnable` for the first time
  after a stop leaves without deleting its runnable; the model has it, no property is about it.

The bounds are constants of `MCRuntime`, so that what is proved of it holds for any of
them. `runtime.cfg` gives two requests and a queue of one beside their own messages
(`NiRequests`, `NiQueue`), two timer clients with three starts, one stop and timeouts 0
and 2 up to time 3, five objects in the heap with the ranks of `MCRank` (`HeapItems`,
`HeapRank`), and four messages of a task (`MaxSends`): enough for a message in
the middle of the list, which has neighbours on both sides.

Deadlock is not checked in `services` and `runtime`: commands, events and starts are
bounded, and a part that has used them up rests.


## 6. What is proved

Eight modules hold proofs. They are for any finite set of handles and any clients, adapters,
options, limits, retries, requests, timers, messages, configuration items, fixes, satellite
reports, status reports, data fields, light states, clients of the observer, sessions and
geofences, under the named assumptions of the
modules they are about (`BoundsAssumption` of `Tracking` and its like, `LocApiAssumption`,
`RuntimeAssumption`, `ServicesAssumption`, `ReportsAssumption`), which only give the
constants their types; of `SessionIdLimit` they say that it is above 2, where the code has
0xFFFFFFFF. Where a theorem assumes more it is said below. Each inductive invariant holds in TLC's small instances, too.
No proof uses fairness.

### `AgpsProofs`

- `TypeCorrect`: `[]TypeOK`, one lemma for each `processAgpsEvent...` method. It
  includes `mRetries \in 0..MaxRetries`: the count-up before the comparison does not pass
  the limit, since the fallback that follows resets it.
- `StatesMatch`: `[]StateMatchesSubscribers`, and `NobodyForgotten`:
  `[]FrameworkReleasedIsEmpty`. The inductive invariant `AllMatched` says for each
  machine that its state and its list match, including that a framework machine in
  RELEASED has an empty list, so that both theorems come from one induction. What carries
  it is that each branch of `processAgpsEvent...` changes state and list together. A step
  changes the state and list of one machine only; lemma `OneMachine` reduces each handler to that
  machine. The DS machine is exempt from the second part because its failed start leaves
  subscribers in RELEASED on purpose, to be retried.
- `PendingHasOutcome`: `[]FrameworkPendingHasRequest`, `NoStaleConnection`:
  `[]AcquiredIsBacked`, and `ReleasingEnds`: `[]ReleasingWillEnd`, from one invariant,
  `AllBacked`. The three do not stand alone: a report handled now was queued for a
  request made earlier, and a grant may be stale. The strengthening `GrantBacked` says that
  it then has the report of the connection's end behind it in the queue, so a machine that
  it moves to ACQUIRED will leave that state. Lemmas on queues (a report stays when a message is
  appended, and when another one is taken) carry the rest.
- `LinksAgree`: `[]LinkAgreement`, assuming `~UseEmergencyPdn`. The invariant `AllLinked`
  says where a handle can be: in one list, or in one queued request, and if the modem has
  given the link up, a release stands behind it. With the emergency PDN it
  is false: a handle the modem releases while the DS retry timer is armed stays a
  subscriber of the DS machine.

### `TrackingProofs`

- `TypeCorrect`: `[]TypeOK`, including that the id counter stays below the limit,
  which the code uses as the id of requests without a session.
- `SmallestIsActive`: `[]ActiveIsSmallest`. `ActiveIsSmallest` is not inductive
  alone: a start whose key already is a session would overwrite that session and leave
  the fix at an interval nobody has. The invariant adds `FreshStarts`: the key of a queued
  start is neither a session nor the key of another queued start. Lemmas `StartServes`,
  `UpdateServes` and `StopServes` say what each multiplexing function does to a fix that
  is smallest, and rest on `SmallestIsLeast`: a non-empty set of sessions has one with the
  smallest interval, since intervals are natural numbers, so the set of sessions need not
  be finite. `ConsumeFresh`, `AppendFresh` and `ShrinkFresh` carry `FreshStarts` over the
  changes to queue and sessions.
- `SessionsServed`: `[]SessionsAreServed`. The message that ends the fix may be handled
  after sessions were started; the invariant adds `RestartFollows`: such a message is
  never queued without a restart of the sessions behind it, unless the engine is not up.
- `ClientsWillAgree`: `[]ClientsAgree`, and `DestroyedLeaveNoSession`: `[]NoOrphanSession`,
  both assuming `OnlyGnssClients`, that every set of callbacks a client passes is one of
  the GNSS interface; without it they are false (run `tracking_destroy`). The first follows
  the messages about a client: the last one queued says what `LocationAPI` knows, and
  if there is none both tables agree. The second says of every session and every queued
  start of a destroyed client that something later will stop it: a queued removal, or the
  rest of the removal under way, which visits ids in order.

### `MsgTaskProofs`

- `DelegateShared`: `[]DelegateIsShared`, from `Counted`: `mRefCount` is the number of
  sides that still hold the delegate.
- `MessagesStayLinked`, for any natural `MaxSends`: the messages between tail and head
  are linked to their neighbours in both directions, and those handled are 1, 2, ... in order.
- `MessagesAreSound`: `[]ListIsSound`. Here the walk itself is computed for a list of any
  length. `Walk` is a recursive function; `SameFrom`, an induction by way of the smallest
  counterexample (`WFMin` of the library), shows that a function that starts and goes on
  like the walk is the walk.
- `TaskImplementsFifo`: `Spec => ImplementsFifo`. Each step is a step of `Fifo` or leaves its
  variables alone; the refinement needs `Closing`, the order in which unblocking, the end
  of the loop and the deletion of the task come.

### `RuntimeProofs`

These are about the parts of `MCRuntime`, whose properties the run checks.

- `ActiveIsWatched`: `[]RequestIsWatched`, with `OdcpiTyped`, both of `Odcpi` alone. The
  invariant `OdcpiInv` speaks of the timer whether or not a request is active, because a start
  that finds `timerActive` left over from a request that was stopped starts no timer and relies
  on that one.
- `NiRequestsSound`: `[]NiRequestsAreSound`. That a payload is freed once depends on who
  has it, so the invariant says that it has one holder at a time: the request in its slot,
  the thread that has taken it out, or one `inform` message; and nobody, once it is freed.
- `TimersWatched`: `[]TimersAreWatched`. That a delegate is deleted once needs that a
  removal is the last message that names it and that its client has let go of it; that
  the heap is watched needs that its top is in it and that a timer is never due at time 0,
  which stands for a disarmed fd.
- `TaskSound`: `[]TaskIsSound`, and `TaskIsFifo`: `MCSpec => ImplementsFifo`. The results of
  `MsgTaskProofs`, carried over: the module is instantiated, the two instances of the
  next-state relation are shown to be the same, and the lemmas are cited.

### `HeapProofs`

- `HeapIsPrioritySet`: `MCSpec => ImplementsPrioritySet`, for any objects, any ranks and trees of
  any size. The invariant is `Tree(tree)`: sizes add up, and an object outranks or equals
  those below it and is not among them. `push`, `pop` and `remove` call themselves on a
  subtree, so each needs an induction over trees. The library's induction theorems take an
  operator as a parameter, which the provers cannot use; what replaces them is the least
  element of a set of numbers (`SetInduction`, from `WFMin`), and from it `NodeInduction`:
  a set that has a node as soon as it has its children has them all. A second induction, on size,
  shows that the recursive functions of the model exist (`PopDefined`, `PushDefined`,
  `RemoveDefined`); without it nothing can be said of what they return. `PopNodeRight`,
  `PushNodeRight` and `RemoveNodeRight` say what each returns: a tree, with one node more or
  less and with the data it should have. `remove` does not search below a node the object
  outranks: that it finds the object nevertheless follows from the order (`RemoveNodeRight`),
  that sizes add up and no node ranks below a child from `TreesAreSound`.

### `ServicesProofs`

About `LocApi` and the composition `MCServices`; `PartSteps` gives a step of it to the
component that takes it.

- `EveryoneIsServed`: `[]AdaptersAreServed`, with `AdaptersTyped`. The array is read up to
  its first NULL, so the invariant is that it is compact and has no adapter twice
  (`ArrayIsCompact`), and holds exactly the adapters that were not turned away.
- `DaemonCurrent`: `[]DaemonIsCurrent`. An update reaches the daemon only if the status was
  requested, which is remembered across the daemon's restarts and never reset; the
  invariant adds that a daemon which is up and synced had requested it.
- `LedTrue`: `[]LedShowsTopLight`. The invariant says what each file holds, computed from
  the one light that is shown now, and that the lights are what was requested, the
  notification dimmed. That the LED then shows what was asked for is arithmetic over bytes
  and milliseconds: a component that is off stays dark through dimming and the duty ramp,
  and the ramp's time is off by less than one step of each ramp, for every time and color.
- `FixFlagged`: `[]FixFlagsSatellites`, for any fixes, any lists of satellites and any limit
  on their number. The flags of a satellite report are computed from what the adapter kept of
  the fix before it. `ReportsInv` says when that is the fix the clients got: what is kept is
  in force only while the last report is a fix that was delivered with satellites, and a fix
  that was not delivered leaves none.
- `GsvComplete`: `[]GsvListsInView`, for satellite reports of any length and order. It is
  inductive as it stands, given the shape of the last report (`ReportsInv`); the proof is
  about the sequences. The recursions behind `Where` and `FlattenSeq` have solutions for
  every length (`FoundExists`, `FlatExists`), which is shown by induction stated over a set of
  numbers (`SetInduction`). Pieces of four, the last one shorter, are put together
  to the list they were cut from (`Pieces`); of the sentences of all constellations those of
  a talker are those of its one constellation (`WherePart`, `TalkersOwn`), and those of PQ are
  those of QZSS and behind them those of BeiDou (`TalkersShare`); and flagging satellites does
  not change what is listed (`ToldAreReported`).
- `StatusCurrent`: `[]StatusIsCurrent`, for any items, values, network types and number of
  events. `ItemReported` is the heart of the first half: after a report the latest in the
  history does not differ from it, be it appended, appended to a full history or left out.
  The networks need `NetworksInv`: a report is collated with the last one, so what is up is
  what the history holds from the first report on, and before that nothing is up.

- `ClientsCurrent`: `[]ClientsAreCurrent`, for any clients, items and values, and any number
  of events and requests. `ObserverInv` adds that nobody was told anything of an item that
  is not cached: subscribing to it then tells the client nothing, and it is still current.
- `FrameworkSubscribed`: `[]FrameworkIsSubscribed`. The property is about clients that never
  called `updateSubscription`, but is inductive only as `ItemsAreReported`, about every item
  that has a client whatever the client called: an unsubscription may leave the item to
  another client, and the framework goes on if there is one.

### `ClientProofs`

About the instances of `ClientSessions` and `ClientGeofences` in `MCServices`, for any ids, any
number of sessions and commands and any length of the queues.

- `GeofencesKnown`: `[]GeofencesAreKnown`. `FencesInv` says that requests wait in the order of
  the commands, each with the ids its command named; that a session the interface watches,
  will watch, or has just refused is the current one of its id as long as the dictionary
  has it; and that the dictionary has it until a removal is on its way. An id may be used
  again while the removal of its old session waits: numbers of sessions are not used
  again (`FenceNumbering`), so the old one names a session that is gone and is told as 0.
- `AnswersMatch`: `[]SessionAnswersMatch`. Commands reach an interface in order and requests
  of a session wait in order, but the tracking queue is emptied by each new session and
  shared with the NI requests that have the same id, so the two are not in step.
  `Aligned` is what is left: as long as the session lives, its requests are those of the
  commands that name it, in order, at increasing positions `f` of the commands. Taking a
  command shifts `f` (`AlignedOwn`, `AlignedOther`); once a session has ended at the
  interface it is not answered and needs no alignment (`TrackingCommands`, `Lives`), which
  is why an unanswered stop does no harm. A batching client has one shared queue
  without ids. `BatchLine`: there are at least as many requests as commands, and as long as
  there are not more, they are those of the commands one to one; once a request is left over,
  one always is. That a response runs for a session that has ended needs the order of the
  commands of a session, its start first and once (`BatchCommands`).
- `SessionsKnown`: `[]SessionsAreKnown`. That the dictionary's directions agree is inductive
  by itself for every use (`DictInv`). That a running session is known follows from the same
  two invariants: `TrackingCommands` says of a session that runs that it is watched, its stop is on
  its way or was refused, and `BatchKept` that it is in the dictionary as long as no
  request is left over.

### `ConfigProofs`

About `GnssConfig` in `MCServices`, with any number of commands and restarts and any length
of the adapter's queue. None of the three properties is inductive: each speaks of the time
when some kind of message no longer waits, and what will then hold is decided by the
messages in between. `ConfigInv` follows them along the queue.

- `ControlAgreed`: `[]ControlAgrees`. `Votes` says that there is a course of the power vote,
  one value for each waiting message, which starts at the adapter's vote, turns at every
  enable from 0 to its id and at every disable back, and ends at what the client believes;
  posting a command extends the course, handling a message takes its first value off.
  That a response reaches its own request needs `Apart` and `Requests`: ids in the queue
  are those the counter gave out, a session's enable is before its disable, and the
  requests that wait in the client are those of its session in the queue.
- `EngineFollows`: `[]EngineFollowsConfig`. `Early` is what makes it true of the start:
  gps.conf is read before a value is sent, and the reading has a `setConfig` behind it.
- `WantedConfigured`: `[]WantedIsConfigured`. What is cached is the mode that is stored, unless
  an older mask was passed on behind a report. `Ends` says of each item that the last waiting
  configuration which has it carries the value asked for last, or, if none does, that it is
  stored. A configuration the client suppresses because it equals the last one is harmless
  because what the client holds as its last one is what was asked for last.

### Model-checked only

Every invariant and every refinement that a passing run checks is proved, and so is each
action property. What is left to TLC:

- Liveness (`OpenAnswered`, `StartAnswered`, `RequestIsRenewed`, `RequestEnds`,
  `TimerEnds`, `TaskEnds`): the prover handles neither fairness nor `ENABLED`.
- The six properties of section 7, which do not hold.


## 7. Where code and documents disagree

Each is a run in which TLC finds the property violated; `PROJECT.json` quotes the lines.

- `agps_closing`, `ClosingIsWaiting` (`Agps.cpp` 280). A subscriber that waits for the
  close is inactive; while another subscriber keeps the machine in PENDING, a denial
  notifies all, deletes the inactive one too, and tells it of a failed open. Its close is
  never reported.
- `agps_pending`, `PendingHasRequest` (`Agps.cpp` 231). From RELEASING the machine goes to
  PENDING whether or not the data call could be started. With a busy DS client it waits
  in PENDING for a call that was not made, and the retry is not made there either.
- `agps_fallback`, `OpenAnswered` (`Agps.cpp` 637). The fallback to SUPL leaves the
  emergency subscriber in the list, so the next fallback is made for it again and the
  second handle is never answered. `agps_ds` shows that one emergency handle is.
- `tracking_destroy`, `DestroyLeavesNoSession` (`LocationAPI.cpp` 205). A client that
  changed to callbacks of another interface is not removed from the adapter when it is
  destroyed, and its session goes on. The passing runs leave that change out, which is
  why `NoOrphanSession` and `ClientsAgree` hold there.
- `tracking_mode`, `ActiveIsRequested` (`GnssAdapter.cpp` 1670). Only intervals are
  compared; with equal intervals the engine may keep a mode that no session has any more.
- `pending_config`, `PendingServerIsConfigured` (`Gnss.cpp` 163). A server that is set before
  the framework's callback keeps its port and loses its host name, which is copied only if
  one is there already.

These were met while modelling, too. The models have what the code does, and the properties
are stated so that they hold of it; they have no run of their own.

- **A flag that is not cleared** (`GnssAdapter.cpp` 2229-2230): "If SV ID was used in previous
  position fix, then set USED_IN_FIX flag, else clear the USED_IN_FIX flag." There is no
  `else`: a satellite that the engine reports with the flag keeps it, used in the fix or not.
  `FixFlagsSatellites` therefore speaks of satellites that come without it.
- **A talker with two series** (`loc_nmea.cpp` 128-145 and 1098-1111): QZSS and BeiDou are both
  PQ, and each constellation's GSV sentences are numbered from 1 and counted for themselves. A
  reader that goes by talker and number gets two sentences 1 and two counts.
  `GsvListsInView` says which sentences they are.
- **What remove finds** (`LocHeap.h` 84-87): "navigating through the tree and find the node that
  ranks the same as the input data". `LocHeap.cpp` 161-173 compares addresses ("this is the node,
  by address"), and its own comment says so. The timers need the address; `PrioritySet` has it.
- **A session nobody can stop** (`LocationAPIClientBase.cpp` 327-342): `locAPIStopTracking` clears
  `mTracking` before it is known whether the stop succeeds. If the engine refuses it,
  `GnssAdapter` keeps the session (1703-1711); a stop can be sent again as long as the client has
  not started the next session, which resets the queue to the next id. From then on the
  first session goes on and no call of the client names it.
- **Stops that are not answered** (`LocationAPI.h` 801-811): the responses of
  `updateTrackingOptions` and `stopTracking` are said to have `ID_UNKNOWN` "if id is not
  associated with a tracking session". `GnssAdapter` does not respond then (1638-1640, 1713-1715),
  for a reason its comment gives. In the tracking queue this does no harm.
- **A request left over** (`LocationAPIClientBase.cpp` 893-914): a response whose session is no
  longer in `mSessionBiDict` takes no request, and the request it was for stays at the head of
  the queue of all sessions by id, which nothing resets. Two stops of a batching session are
  enough. The next successful start is then taken for that stop and its session is removed from the
  dictionary: it batches on, and `locAPIStopSession` does not find it.
- **An older mask behind a newer one** (`GnssAPIClient.cpp` 278-291): `requestCapabilities` reads
  the mask in the caller's thread while the adapter's thread may be writing the next one, and
  then stores what it has read.
- **An answer that is thrown away** (`GnssAdapter.cpp` 2367-2377): if the wait of the NI thread
  times out while the user's answer is being stored, `NO_RESPONSE` replaces it.
- The masks of QZSS and BeiDou are exchanged on the way to the GSA sentences (`loc_nmea.cpp`
  507-512).
- A debug sentence with too few fields leaves its item with what the memory held
  (`SystemStatus.cpp` 298, and the like).
- In the observer (`SystemStatusOsObserver.cpp`), `turnOn` posts itself where the framework's
  object is meant (408), and a one-shot request for a data item keeps a later subscription from
  reaching the framework (104-124). After `updateSubscription` the two maps disagree, because
  what `update` returns is what is kept and not what is gone (`LocUnorderedSetMap.h` 173-185).
- The ids of sessions and of NI requests are numbers of two counters, and a response for a
  number that is both may take the other's request (`LocationAPIClientBase.cpp` 897-904,
  `LocAdapterBase.cpp` 53-61, `GnssAdapter.cpp` 2455).


## 8. Plan

The models planned are written, and every invariant, action property and refinement that a
passing run checks is proved. What could be added is the destruction of client objects while
their calls are under way.

## 9. What is not modelled, and why

- Measurements, data reports and batched positions, and the values of fields in the
  conversions between HIDL, API and modem structures: passed through, with no state to
  get wrong.
- Configuration parsing (`loc_cfg.cpp`), logging, the receiving side of `LocIpc.cpp`, the
  structures of `loc_gps.h` and `gps_extended_c.h`: data and I/O.
- `SystemStatus::getReport`, which copies the cache; the backhaul calls of the XTRA
  observer, which are compiled only with USE_GLIB.
- The destruction of a client object while its calls are under way.
- Batching and geofence engines, the modem's driver, the data services client: not in
  the repository; where the HAL talks to them they are external actions.
- `init/`, `recovery/`, `vr/`, `gnsspps/`, `libshims/`: straight-line code on properties,
  sysfs files and devices.
- Makefiles, overlays, policies, audio and media tables: no program logic.
