----------------------------- MODULE GnssConfig ------------------------------
(***************************************************************************)
(* Configuration and power vote, from the HIDL service to the engine       *)
(* (gps/android/Gnss.cpp, GnssConfiguration.cpp, AGnss.cpp,                *)
(* GnssAPIClient.cpp; LocationAPIControlClient of                          *)
(* gps/location/LocationAPIClientBase.cpp; the commands of LocationControl-*)
(* API in gps/gnss/GnssAdapter.cpp; ContextBase.cpp).                      *)
(*                                                                         *)
(* The framework sets configuration items one at a time, at times before   *)
(* it has passed a callback: then there is no GnssAPIClient yet and the    *)
(* items are kept in mPendingConfig.  The client passes a configuration to *)
(* the adapter, which stores it in mGps_conf and sends the engine what     *)
(* changed.  A restarted engine gets the whole of mGps_conf again.  While  *)
(* GNSS is enabled (a power vote is held) the engine is unlocked and the   *)
(* configured lock waits for the disable.                                  *)
(*                                                                         *)
(* A call that the client makes under its mutex, and the messages it posts,*)
(* are one step; the adapter's thread handles messages in order.  The      *)
(* engine may refuse any call.  Left out: the C2K server, sensor and NMEA  *)
(* settings (sent, never stored), and a client that is destroyed.          *)
(***************************************************************************)
EXTENDS Naturals, Sequences, FiniteSets

CONSTANTS
  Inputs,       \* the values the framework passes for each item: a function
  FileConf,     \* gps.conf: the value of each item, in the form of mGps_conf
  INJECT,       \* mGps_conf.AGPS_CONFIG_INJECT
  MaxCommands,  \* bound: commands of the framework
  MaxRestarts   \* bound: restarts of the engine

VARIABLES
  pending,    \* Gnss::mPendingConfig: a function on the items that are flagged
  api,        \* Gnss::mApi was created
  enabled,    \* LocationAPIControlClient::mEnabled
  config,     \* LocationAPIControlClient::mConfig
  control,    \* mRequestQueues[CTRL_REQUEST_CONTROL]: [session, requests]
  deletion,   \* mRequestQueues[CTRL_REQUEST_DELETEAIDINGDATA]: [session, requests]
  configQ,    \* mRequestQueues[CTRL_REQUEST_CONFIG]: the number of its requests
  msgQ,       \* the adapter's queue
  ids,        \* LocAdapterBase::mSessionIdCounter
  vote,       \* GnssAdapter::mPowerVoteId
  conf,       \* ContextBase::mGps_conf
  serverUrl,  \* GnssAdapter::mServerUrl
  engine,     \* what the engine has: an item, the lock included, or Unset
  refused,    \* the items whose last call the engine refused
  cached,     \* GnssAPIClient::mLocationCapabilitiesMask: at most one SUPL mode
  told,       \* the SUPL mode the framework's callback was told, if it was told one
  passing,    \* the mask setCallback has read and is about to pass on
  stale,      \* ghost: setCallback has put an older mask in the place of the last one reported
  wrong,      \* ghost: a response reached the request of another command
  wanted,     \* ghost: what the framework asked for last
  commands, restarts

client == <<enabled, config, control, deletion, configQ>>
adapter == <<vote, conf, serverUrl, engine, refused>>
caps == <<cached, told, passing, stale>>
vars == <<pending, api, client, msgQ, ids, adapter, caps, wrong, wanted,
          commands, restarts>>

-----------------------------------------------------------------------------
Unset == 999
Item == DOMAIN Inputs
Injected == {"SUPL_VER", "LPP_PROFILE", "A_GLONASS_POS_PROTOCOL_SELECT"}
Compared == Injected \union {"LPPE_CP_TECHNOLOGY", "LPPE_UP_TECHNOLOGY"}

\* The items that setConfigCommand sends and a changed value of which is sent.
Sent == Item \cap (IF INJECT THEN Compared ELSE Compared \ Injected)

\* mGps_conf has version numbers where the interfaces have an enumeration; the
\* other items have the same numbers in both.
SuplVersion == <<65536, 131072, 131074>>
ToConf(i, e) == IF i = "SUPL_VER" THEN SuplVersion[e] ELSE e
FromConf(i, n) ==
  IF i # "SUPL_VER" THEN n
  ELSE IF \E e \in 1 .. 3 : SuplVersion[e] = n
       THEN CHOOSE e \in 1 .. 3 : SuplVersion[e] = n
       ELSE 1

Init ==
  /\ pending = [i \in {} |-> Unset]
  /\ api = FALSE
  /\ enabled = FALSE
  /\ config = [i \in {} |-> Unset]
  /\ control = [session |-> 0, requests |-> <<>>]
  /\ deletion = [session |-> 0, requests |-> <<>>]
  /\ configQ = 0
  /\ msgQ = <<[kind |-> "readConfig"], [kind |-> "setConfig"]>>
  /\ ids = 1
  /\ vote = 0
  /\ conf = [i \in Item |-> 0]
  /\ serverUrl = Unset
  /\ engine = [i \in Item |-> Unset]
  /\ refused = {}
  /\ cached = {}
  /\ told = {}
  /\ passing = {}
  /\ stale = FALSE
  /\ wrong = FALSE
  /\ wanted = [i \in Item |-> Unset]
  /\ commands = 0
  /\ restarts = 0

-----------------------------------------------------------------------------
(* The HIDL service and the control client                                 *)

\* The framework makes one call at a time.
Command == passing = {} /\ commands < MaxCommands /\ commands' = commands + 1

\* A second configuration with the same content is not sent.
gnssUpdateConfig(cfg) ==
  IF cfg = config /\ "SERVER" \notin DOMAIN cfg
  THEN <<>>
  ELSE <<[kind |-> "update", config |-> cfg]>>

\* Mutant: only the last item is kept.
PendingWith_Last(i, v) == [j \in {i} |-> IF i = "SERVER" THEN 0 ELSE v]

\* The host name replaces one that is there; nothing puts the first one there.
\* (0 is the empty host.)
PendingWith(i, v) ==
  [j \in DOMAIN pending \union {i} |->
    IF j # i THEN pending[j] ELSE IF i = "SERVER" THEN 0 ELSE v]

\* The setters of GnssConfiguration and AGnss::setServer.
updateConfiguration(i, v) ==
  /\ Command
  /\ wanted' = [wanted EXCEPT ![i] = v]
  /\ IF api
     THEN LET msgs == gnssUpdateConfig([j \in {i} |-> v]) IN
          /\ config' = [j \in {i} |-> v]
          /\ configQ' = configQ + Len(msgs)
          /\ msgQ' = msgQ \o msgs
          /\ ids' = ids + Len(msgs)
          /\ UNCHANGED pending
     ELSE /\ pending' = PendingWith(i, v)
          /\ UNCHANGED <<config, configQ, msgQ, ids>>
  /\ UNCHANGED <<api, enabled, control, deletion, adapter, caps, wrong, restarts>>

\* An enabled client is left as it is; otherwise the queue starts again with the session.
locAPIEnable(session) ==
  /\ enabled' = TRUE
  /\ control' = IF enabled THEN control ELSE [session |-> session, requests |-> <<"enable">>]

locAPIDisable ==
  /\ enabled /\ control.session > 0
  /\ enabled' = FALSE
  /\ control' = [control EXCEPT !.requests = Append(@, "disable")]

locAPIGnssDeleteAidingData(session) ==
  deletion' = [session |-> session, requests |-> <<"delete">>]

\* The adapter reports the capabilities, in its own thread.
onCapabilitiesCb(mode) ==
  cached' = {mode} /\ told' = {mode} /\ stale' = FALSE /\ UNCHANGED passing

\* setCallback: getApi creates the client and hands it the pending configuration,
\* then GNSS is enabled and, without a lock, the cached capabilities are read.
setCallback ==
  LET first == IF api THEN <<>> ELSE <<[kind |-> "capabilities"]>>
      update == IF api \/ pending = [i \in {} |-> Unset] THEN <<>> ELSE gnssUpdateConfig(pending)
      session == ids + 1 + (IF update = <<>> THEN 0 ELSE Cardinality(DOMAIN pending))
      power == IF enabled THEN <<>> ELSE <<[kind |-> "enable", id |-> session]>>
  IN
  /\ Command
  /\ api' = TRUE
  /\ pending' = [i \in {} |-> Unset]
  /\ config' = IF update = <<>> THEN config ELSE pending
  /\ configQ' = configQ + Len(update)
  /\ locAPIEnable(session)
  /\ ids' = IF enabled THEN session - 1 ELSE session
  /\ msgQ' = msgQ \o first \o update \o power
  /\ told' = {}
  /\ passing' = cached
  /\ UNCHANGED <<deletion, adapter, cached, stale, wrong, wanted, restarts>>

\* requestCapabilities at last passes on what it has read, whatever was reported since.
passCapabilities ==
  /\ passing # {}
  /\ cached' = passing /\ told' = passing
  /\ passing' = {}
  /\ stale' = (stale \/ passing # cached)
  /\ UNCHANGED <<pending, api, client, msgQ, ids, adapter, wrong, wanted, commands, restarts>>

\* cleanup, of the framework or of its death.
cleanup ==
  /\ Command
  /\ locAPIDisable
  /\ msgQ' = Append(msgQ, [kind |-> "disable", id |-> control.session])
  /\ UNCHANGED <<pending, api, config, deletion, configQ, ids, adapter, caps,
                 wrong, wanted, restarts>>

deleteAidingData ==
  /\ Command
  /\ api
  /\ ids' = ids + 1
  /\ locAPIGnssDeleteAidingData(ids')
  /\ msgQ' = Append(msgQ, [kind |-> "delete", id |-> ids'])
  /\ UNCHANGED <<pending, api, enabled, config, control, configQ, adapter, caps,
                 wrong, wanted, restarts>>

-----------------------------------------------------------------------------
(* The engine                                                              *)

\* handleEngineUpEvent: the engine has lost what setConfigCommand sends.
handleEngineUpEvent ==
  /\ restarts < MaxRestarts
  /\ restarts' = restarts + 1
  /\ engine' = [i \in Item |-> IF i \in Sent THEN Unset ELSE engine[i]]
  /\ msgQ' = Append(msgQ, [kind |-> "setConfig"])
  /\ UNCHANGED <<pending, api, client, ids, vote, conf, serverUrl, refused, caps,
                 wrong, wanted, commands>>

\* The calls with the values vals: the engine takes them or refuses them.
ToEngine(vals, no) ==
  /\ engine' = [i \in Item |->
                 IF i \in DOMAIN vals \ no THEN vals[i] ELSE engine[i]]
  /\ refused' = (refused \ DOMAIN vals) \union no

-----------------------------------------------------------------------------
(* The adapter                                                             *)

Handle(kind) ==
  /\ msgQ # <<>>
  /\ Head(msgQ).kind = kind
  /\ msgQ' = Tail(msgQ)
  /\ UNCHANGED <<pending, api, ids, wanted, commands, restarts>>

readConfig ==
  /\ Handle("readConfig")
  /\ conf' = FileConf
  /\ UNCHANGED <<client, vote, serverUrl, engine, refused, caps, wrong>>

\* setSuplHostServer: an url that is there already is not sent again.
ServerChange(url) == IF INJECT /\ url # serverUrl THEN {"SERVER"} \cap Item ELSE {}

setConfig ==
  LET server == ServerChange(FileConf["SERVER"])
      vals == [i \in Sent \union server |->
                IF i = "SERVER" THEN FileConf[i] ELSE FromConf(i, conf[i])]
  IN
  /\ Handle("setConfig")
  /\ serverUrl' = IF server = {} THEN serverUrl ELSE FileConf["SERVER"]
  /\ \E no \in SUBSET DOMAIN vals : ToEngine(vals, no)
  /\ UNCHANGED <<client, vote, conf, caps, wrong>>

\* Mutant: the lock does not wait for the disable.
LockNow(cfg) == {"GPS_LOCK"} \cap DOMAIN cfg

\* An item of the message: the lock waits while a vote is held, an item that the
\* engine gets is compared, the others are only stored.
LockUpdates(cfg) == IF vote = 0 THEN {"GPS_LOCK"} \cap DOMAIN cfg ELSE {}
Changed(cfg) == {i \in Sent \cap DOMAIN cfg : ToConf(i, cfg[i]) # conf[i]}
Stored(cfg) ==
  (DOMAIN cfg \ (Compared \union {"SERVER"})) \union Changed(cfg)

\* A change of the SUPL mode is broadcast.
Broadcast(cfg) == "SUPL_MODE" \in DOMAIN cfg /\ cfg["SUPL_MODE"] # conf["SUPL_MODE"]

updateConfig ==
  LET cfg == Head(msgQ).config
      server == IF "SERVER" \in DOMAIN cfg THEN ServerChange(cfg["SERVER"]) ELSE {}
      vals == [i \in LockUpdates(cfg) \union Changed(cfg) \union server |-> cfg[i]]
  IN
  /\ Handle("update")
  /\ conf' = [i \in Item |-> IF i \in Stored(cfg) THEN ToConf(i, cfg[i]) ELSE conf[i]]
  /\ serverUrl' = IF server = {} THEN serverUrl ELSE cfg["SERVER"]
  /\ \E no \in SUBSET DOMAIN vals : ToEngine(vals, no)
  /\ IF Broadcast(cfg)
     THEN onCapabilitiesCb(cfg["SUPL_MODE"])
     ELSE UNCHANGED caps
  /\ configQ' = IF configQ = 0 THEN 0 ELSE configQ - 1
  /\ UNCHANGED <<enabled, config, control, deletion, vote, wrong>>

\* The first message of a new client.
requestCapabilities ==
  /\ Handle("capabilities")
  /\ onCapabilitiesCb(conf["SUPL_MODE"])
  /\ UNCHANGED <<client, adapter, wrong>>

\* Mutant: any response pops the control queue.
Respond_Any(kind, id) ==
  /\ control' = [control EXCEPT !.requests = IF @ = <<>> THEN @ ELSE Tail(@)]
  /\ wrong' = (wrong \/ (control.requests # <<>> /\ Head(control.requests) # kind))
  /\ UNCHANGED <<deletion, enabled, config, configQ>>

\* getRequestBySession: the response to id pops the queue of that session.
Respond(kind, id) ==
  LET ofControl == control.session = id /\ control.requests # <<>>
      ofDeletion == ~ofControl /\ deletion.session = id /\ deletion.requests # <<>>
  IN
  /\ control' = IF ofControl THEN [control EXCEPT !.requests = Tail(@)] ELSE control
  /\ deletion' = IF ofDeletion THEN [deletion EXCEPT !.requests = Tail(@)] ELSE deletion
  /\ wrong' = \/ wrong
              \/ ofControl /\ Head(control.requests) # kind
              \/ ofDeletion /\ Head(deletion.requests) # kind
  /\ UNCHANGED <<enabled, config, configQ>>

\* The engine's answer to the unlock is ignored.
enable ==
  LET id == Head(msgQ).id IN
  /\ Handle("enable")
  /\ IF vote > 0
     THEN UNCHANGED <<vote, engine, refused>>
     ELSE /\ vote' = id
          /\ \E no \in SUBSET {"GPS_LOCK"} : ToEngine([i \in {"GPS_LOCK"} |-> 0], no)
  /\ Respond("enable", id)
  /\ UNCHANGED <<conf, serverUrl, caps>>

disable ==
  LET id == Head(msgQ).id IN
  /\ Handle("disable")
  /\ IF vote # id
     THEN UNCHANGED <<vote, engine, refused>>
     ELSE /\ vote' = 0
          /\ \E no \in SUBSET {"GPS_LOCK"} :
               ToEngine([i \in {"GPS_LOCK"} |-> conf["GPS_LOCK"]], no)
  /\ Respond("disable", id)
  /\ UNCHANGED <<conf, serverUrl, caps>>

deleteAiding ==
  /\ Handle("delete")
  /\ Respond("delete", Head(msgQ).id)
  /\ UNCHANGED <<adapter, caps>>

Next ==
  \/ \E i \in Item : \E v \in Inputs[i] : updateConfiguration(i, v)
  \/ setCallback
  \/ passCapabilities
  \/ cleanup
  \/ deleteAidingData
  \/ handleEngineUpEvent
  \/ readConfig
  \/ setConfig
  \/ updateConfig
  \/ requestCapabilities
  \/ enable
  \/ disable
  \/ deleteAiding

Spec == Init /\ [][Next]_vars

-----------------------------------------------------------------------------
(* Properties                                                              *)

Waiting(kind) == {k \in DOMAIN msgQ : msgQ[k].kind = kind}

\* Whatever was set while the engine restarted or refused: when no configuration
\* is waiting the engine has the stored value of every item it gets, or refused
\* it last; and it is unlocked exactly while GNSS is enabled, else locked as
\* configured, also when the lock was configured in between.
EngineFollowsConfig ==
  Waiting("setConfig") = {} =>
    /\ \A i \in Sent : engine[i] = FromConf(i, conf[i]) \/ i \in refused
    /\ engine["GPS_LOCK"] # Unset =>
         \/ "GPS_LOCK" \in refused
         \/ engine["GPS_LOCK"] = IF vote > 0 THEN 0 ELSE conf["GPS_LOCK"]

\* The control client and the adapter agree: a response reaches the request of
\* its command although the queues are reset at will, no configuration request
\* is left without its message, and when no enable or disable is under way the
\* vote is held exactly if the client believes GNSS enabled.
ControlAgrees ==
  /\ ~wrong
  /\ configQ = Cardinality(Waiting("update"))
  /\ Waiting("enable") \union Waiting("disable") = {} =>
       /\ enabled <=> vote > 0
       /\ enabled => vote = control.session

\* What the framework asked for, before or after its callback, is what is
\* configured once the messages are handled, and the callback knows the modes,
\* unless setCallback itself passed on an older mask behind a report (GnssAPIClient.cpp
\* 278-291: requestCapabilities reads the mask without a lock).
WantedIsConfigured ==
  api /\ msgQ = <<>> =>
    /\ \A i \in Item \ {"SERVER"} :
         wanted[i] # Unset /\ (i \in Injected => INJECT) => conf[i] = ToConf(i, wanted[i])
    /\ passing = {} /\ ~stale => told = {conf["SUPL_MODE"]}

\* "api is not ready yet, update mPendingConfig with gnssConfig" (Gnss.cpp 149):
\* the server the framework set before its callback is the one configured.
PendingServerIsConfigured ==
  api /\ msgQ = <<>> /\ wanted["SERVER"] # Unset => serverUrl = wanted["SERVER"]

=============================================================================
