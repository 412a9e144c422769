----------------------------- MODULE MCServices ------------------------------
(***************************************************************************)
(* The services of the location stack, each on its own, and the lights:    *)
(* one instance of the model of every component, of which a behaviour runs *)
(* one, its `part', while the others rest in their initial states.         *)
(***************************************************************************)
EXTENDS LocApi

CONSTANTS
  \* ClientSessions
  SessionIds, NiIds, Modes, LastSession, SessionCommands, SessionRequests,
  \* ClientGeofences
  FenceIds, Masks, LastFence, FenceCommands,
  \* GnssConfig
  Inputs, FileConf, INJECT, ConfigCommands, ConfigRestarts,
  \* XtraObserver
  Fields, Values, Unsaid, MaxUpdates, MaxStarts,
  \* Lights
  States,
  \* Reports
  Fixes, SvReports, INTERMEDIATE_POS, NMEA_AP, MaxSvs,
  \* SystemStatus
  Talkers, DataItems, StatusValues, NetworkTypes, MaxEvents,
  \* OsObserver
  Observers, ObservedItems, ObservedValues, ObserverEvents, ObserverRequests

\* BiDict returns 0 for no id, so a geofence has another one.  An item has the numbers an
\* interface passes for it, and the lock, the mode and the server are items; a color and the
\* brightness are bytes.
ASSUME ServicesAssumption ==
  /\ NiIds \subseteq Nat
  /\ IsFiniteSet(FenceIds) /\ 0 \notin FenceIds
  /\ IsFiniteSet(DOMAIN Inputs) /\ {"GPS_LOCK", "SUPL_MODE", "SERVER"} \subseteq DOMAIN Inputs
  /\ \A i \in DOMAIN Inputs : Inputs[i] \subseteq IF i = "SUPL_VER" THEN 1 .. 3 ELSE Nat
  /\ FileConf \in [DOMAIN Inputs -> Nat] /\ INJECT \in BOOLEAN
  /\ ConfigCommands \in Nat /\ ConfigRestarts \in Nat
  /\ MaxUpdates \in Nat /\ MaxStarts \in Nat
  /\ States \subseteq [alpha : 0 .. 255, rgb : [1 .. 3 -> 0 .. 255], mode : {"NONE", "TIMED"},
                       on : Nat, off : Nat]

VARIABLES
  part,
  \* ClientSessions
  usage, api, requestQueues, mTracking, dict, calling, commands, running, popped, nextId,
  refusedStops,
  \* ClientGeofences
  started, geofenceQueue, geofences, geofenceCommands, monitored, collective, nextFence, known,
  \* GnssConfig
  pending, hasApi, enabled, config, control, deletion, configQ, msgQ, ids, vote, conf,
  serverUrl, modem, refused, cached, toldModes, passing, stale, wrong, wanted, configCommands,
  restarts,
  \* Reports
  callbacks, tracking, svUsedAvail, svUsed, location, svStatus, nmea, lastReport, used,
  \* SystemStatus
  reportCache, reported, lastReported, connected, connectedFirst,
  \* OsObserver
  cache, events, last, up, upFirst,
  mClientToDataItems, mDataItemToClients, mDataItemCache, mSubscriptionObj, framework,
  requests, wants, seen, updated, oneShot, mFrameworkActionReqObj, mActiveRequestCount, actions,
  \* XtraObserver
  mine, mReqStatusReceived, daemon, asking, synced, updates, daemonStarts,
  \* Lights
  lights, requested, rgb_blink, led, blinkLed, panel

sessionVars == <<usage, api, requestQueues, mTracking, dict, calling, commands, running,
  popped, nextId, refusedStops>>
geofenceVars == <<started, geofenceQueue, geofences, geofenceCommands, monitored,
  collective, nextFence, known>>
configVars == <<pending, hasApi, enabled, config, control, deletion, configQ, msgQ, ids,
  vote, conf, serverUrl, modem, refused, cached, toldModes, passing, stale, wrong, wanted,
  configCommands, restarts>>
reportVars == <<callbacks, tracking, svUsedAvail, svUsed, location, svStatus, nmea,
  lastReport, used>>
statusVars == <<reportCache, reported, lastReported, connected, connectedFirst>>
observerVars == <<cache, events, last, up, upFirst, mClientToDataItems, mDataItemToClients,
  mDataItemCache, mSubscriptionObj, framework, requests, wants, seen, updated, oneShot,
  mFrameworkActionReqObj, mActiveRequestCount, actions>>
xtraVars == <<mine, mReqStatusReceived, daemon, asking, synced, updates, daemonStarts>>
lightVars == <<lights, requested, rgb_blink, led, blinkLed, panel>>

-----------------------------------------------------------------------------
(* The instances and their bounds                                          *)

Ses == INSTANCE ClientSessions WITH
  Ids <- SessionIds, MaxSession <- LastSession, MaxCommands <- SessionCommands,
  MaxQueue <- SessionRequests, queue <- requestQueues, refused <- refusedStops

Geo == INSTANCE ClientGeofences WITH
  Ids <- FenceIds, MaxSession <- LastFence, MaxCommands <- FenceCommands,
  requests <- geofenceQueue, dict <- geofences, commands <- geofenceCommands,
  popped <- collective, nextId <- nextFence

\* gps.conf has SUPL 1.0 and mode 1; the framework sets values that are there already too.
MCInputs ==
  [GPS_LOCK |-> {3}, SUPL_VER |-> {1, 3}, LPPE_UP_TECHNOLOGY |-> {3}, SUPL_MODE |-> {1, 3},
   SERVER |-> {5}]
MCFileConf ==
  [GPS_LOCK |-> 0, SUPL_VER |-> 65536, LPPE_UP_TECHNOLOGY |-> 0, SUPL_MODE |-> 1, SERVER |-> 0]

Cfg == INSTANCE GnssConfig WITH
  MaxCommands <- ConfigCommands, MaxRestarts <- ConfigRestarts,
  api <- hasApi, engine <- modem, told <- toldModes, commands <- configCommands

\* A fix of two constellations, one that is not delivered, an intermediate one, one of QZSS.
Fix(status, tech, accurate, constellations) ==
  [status |-> status, tech |-> tech, accurate |-> accurate, located |-> accurate,
   fields |-> {"LAT_LONG", "ALTITUDE", "SPEED", "ACCURACY", "DOP"},
   used |-> [c \in {"GPS", "GLONASS", "GALILEO", "QZSS", "BEIDOU"} |->
               IF c \in constellations THEN {2, 5} ELSE {}]]
MCFixes ==
  {Fix("SUCCESS", "SATELLITE", TRUE, {"GPS", "GLONASS"}), Fix("SUCCESS", "CELL", TRUE, {"GPS"}),
   Fix("INTERMEDIATE", "SATELLITE", FALSE, {}), Fix("SUCCESS", "SENSORS", TRUE, {"QZSS"})}

\* No satellite, a full sentence of them, and all constellations with more than a sentence;
\* some satellites come with the flag that they are used in the fix.
Sv(type, svId) == [type |-> type, svId |-> svId, used |-> FALSE]
SvInUse(type, svId) == [Sv(type, svId) EXCEPT !.used = TRUE]
MCSvReports ==
  {<<>>, [k \in 1 .. 4 |-> Sv("GPS", k)],
   <<Sv("GPS", 1), Sv("GLONASS", 2), Sv("GPS", 2), Sv("QZSS", 2), Sv("GPS", 3),
     SvInUse("GPS", 4), SvInUse("GPS", 5), Sv("BEIDOU", 2), Sv("BEIDOU", 32), Sv("BEIDOU", 33)>>}

Rep == INSTANCE Reports

\* Two positions at the same place.
MCStatusValues == {<<"a", "x">>, <<"a", "y">>}

Sta == INSTANCE SystemStatus WITH
  Values <- StatusValues, cache <- reportCache, events <- reported,
  last <- lastReported, up <- connected, upFirst <- connectedFirst

\* Satellites are of the constellations and have numbers; the debug sentences are known.
ASSUME ReportsAssumption ==
  /\ SvReports \subseteq Seq([type : Rep!Constellation, svId : Nat, used : BOOLEAN])
  /\ MaxSvs \in Nat
  /\ Talkers \subseteq DOMAIN Sta!Parser

MCObservedValues == {<<"a", "x">>}

Obs == INSTANCE OsObserver WITH
  Talkers <- {}, DataItems <- ObservedItems, Values <- ObservedValues,
  MaxEvents <- ObserverEvents, Clients <- Observers, MaxRequests <- ObserverRequests

Xtr == INSTANCE XtraObserver WITH Unset <- Unsaid, MaxRestarts <- MaxStarts, restarts <- daemonStarts

Light(alpha, rgb, mode, on, off) ==
  [alpha |-> alpha, rgb |-> rgb, mode |-> mode, on |-> on, off |-> off]
MCStates ==
  {Light(0, <<0, 0, 0>>, "NONE", 0, 0), Light(255, <<255, 128, 0>>, "NONE", 0, 0),
   Light(128, <<0, 255, 0>>, "TIMED", 1000, 500), Light(128, <<1, 0, 0>>, "NONE", 0, 0),
   Light(0, <<0, 0, 255>>, "TIMED", 100, 500)}

Lig == INSTANCE Lights

-----------------------------------------------------------------------------
(* A behaviour of one part                                                 *)

\* What the other parts do in a step of part p
Rest(p) ==
  /\ IF p = "sessions" THEN TRUE ELSE UNCHANGED sessionVars
  /\ IF p = "geofences" THEN TRUE ELSE UNCHANGED geofenceVars
  /\ IF p = "config" THEN TRUE ELSE UNCHANGED configVars
  /\ IF p = "reports" THEN TRUE ELSE UNCHANGED reportVars
  /\ IF p = "status" THEN TRUE ELSE UNCHANGED statusVars
  /\ IF p = "observer" THEN TRUE ELSE UNCHANGED observerVars
  /\ IF p = "xtra" THEN TRUE ELSE UNCHANGED xtraVars
  /\ IF p = "lights" THEN TRUE ELSE UNCHANGED lightVars
  /\ IF p = "adapters" THEN TRUE ELSE UNCHANGED vars

Part(p) == part = p /\ UNCHANGED part /\ Rest(p)

MCInit ==
  /\ part \in {"sessions", "geofences", "config", "reports", "status", "observer", "xtra",
              "lights", "adapters"}
  /\ Ses!Init /\ (part # "sessions" => usage = "gnss_hal")
  /\ Geo!Init
  /\ Cfg!Init
  /\ Rep!Init /\ (part # "reports" => callbacks = {} /\ ~tracking)
  /\ Sta!StatusInit
  /\ Obs!Init
  /\ Xtr!Init
  /\ Lig!Init
  /\ Init

MCNext ==
  \/ Part("sessions") /\ Ses!Next
  \/ Part("geofences") /\ Geo!Next
  \/ Part("config") /\ Cfg!Next
  \/ Part("reports") /\ Rep!Next
  \/ Part("status") /\ Sta!StatusNext
  \/ Part("observer") /\ Obs!Next
  \/ Part("xtra") /\ Xtr!Next
  \/ Part("lights") /\ Lig!Next
  \/ Part("adapters") /\ Next

mcvars ==
  <<part, sessionVars, geofenceVars, configVars, reportVars, statusVars, observerVars, xtraVars, lightVars,
    vars>>
MCSpec == MCInit /\ [][MCNext]_mcvars

-----------------------------------------------------------------------------
(* Properties                                                              *)

\* A response reaches the request it answers, for a client that tracks and answers network-
\* initiated requests, and for a batching client until a response comes too late for its
\* session (LocationAPIClientBase.cpp 302-582 and 893-914).
SessionAnswersMatch == Ses!TrackingResponsesMatch /\ Ses!BatchingResponsesMatch

\* A session that an interface runs can still be stopped by its client, unless a stop of it
\* was refused or a request was left over, and the two directions of the client's dictionary
\* agree (LocationAPIClientBase.cpp 302-466 and 887-891, LocationAPIClientBase.h 270-381,
\* GnssAdapter.cpp 1703-1711).
SessionsAreKnown == Ses!RunningIsKnown /\ Ses!DictAgrees

\* Collective responses and breaches reach the framework under the ids it knows, and a
\* geofence that is watched can be removed (LocationAPIClientBase.cpp 584-884).
GeofencesAreKnown == Geo!ToldRightIds /\ Geo!BreachIsKnown /\ Geo!MonitoredHasId

\* When no configuration is waiting the engine has what is stored, and is locked as
\* configured unless GNSS is enabled (GnssAdapter.cpp 624-923 and 1940-2028).
EngineFollowsConfig == Cfg!EngineFollowsConfig

\* The control client and the adapter agree on the power vote and on which request a
\* response is for (LocationAPIClientBase.cpp 42-222, GnssAdapter.cpp 1940-2028).
ControlAgrees == Cfg!ControlAgrees

\* What the framework asked for before or after its callback ends up configured, and its
\* callback knows the mode unless an older mask overtook it (Gnss.cpp 62-203, GnssAPIClient.cpp
\* 278-291, GnssAdapter.cpp 700-923).
WantedIsConfigured == Cfg!WantedIsConfigured

\* A satellite report flags what was used in the fix that was delivered just before it, and
\* beyond that only what came with the flag (GnssAdapter.cpp 2105-2250).
FixFlagsSatellites == Rep!FixFlagsSatellites

\* The GSV sentences of each constellation name each satellite in view once and count
\* themselves right; talker PQ has two such series (loc_nmea.cpp 330-476 and 995-1114).
GsvListsInView == Rep!GsvListsInView

\* The latest report of an item is what was last said of it, and the networks in it are
\* those that are up (SystemStatus.cpp 1308-1541, SystemStatus.h 463-508).
StatusIsCurrent == Sta!LatestIsCurrent /\ Sta!NetworksAreUp

\* A client has been told the latest value of what it subscribed to
\* (SystemStatusOsObserver.cpp 92-374 and 513-572).
ClientsAreCurrent == Obs!ClientsAreCurrent

\* The framework reports on what the clients subscribed to (SystemStatusOsObserver.cpp
\* 62-292, LocUnorderedSetMap.h 41-185).
FrameworkIsSubscribed == Obs!FrameworkIsSubscribed

\* A daemon that was answered knows the status as it is, across its crashes
\* (XtraSystemStatusObserver.cpp 59-170).
DaemonIsCurrent == Xtr!DaemonIsCurrent

\* The LED shows the first light that is lit, whatever was shown before (lights.c).
LedShowsTopLight == Lig!LedShowsTopLight
=============================================================================
