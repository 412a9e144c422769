------------------------------ MODULE Tracking ------------------------------
(***************************************************************************)
(* Tracking sessions: the clients of LocationAPI (gps/location/            *)
(* LocationAPI.cpp) and the part of GnssAdapter that multiplexes their     *)
(* sessions over the one fix the engine can run (gps/gnss/GnssAdapter.cpp  *)
(* 1097-1245 and 1333-1771).                                               *)
(*                                                                         *)
(* LocationAPI runs in its callers' threads, under one mutex, and turns    *)
(* every call into a message of the adapter's queue.  The adapter handles  *)
(* one message at a time.  The engine goes down and comes up on its own;   *)
(* it tells the adapter through two more messages of the same queue.       *)
(*                                                                         *)
(* Left out: the GNSS interface is loaded and the FLP interface absent (it *)
(* is not part of this repository), so every command reaches GnssAdapter;  *)
(* the ULP proxy is the base class, whose methods all return false; of a   *)
(* client's callbacks only their kind is kept, of its options the interval *)
(* and the mode.  The event mask, which updateClientsEventMask computes    *)
(* from mClientData whenever that changes, is not kept.  Of the responses  *)
(* only those to startTracking are: an update or a stop of a session the   *)
(* adapter does not know has none.                                         *)
(***************************************************************************)
EXTENDS Naturals, Sequences

CONSTANTS
  Clients,         \* addresses of LocationAPI objects
  Callbacks,       \* the kinds of callbacks clients may pass
  Intervals,       \* values of LocationOptions::minInterval
  Modes,           \* values of LocationOptions::mode
  SessionIdLimit,  \* 0xFFFFFFFF, where the session id counter starts again
  EngineFails,     \* may the engine refuse a command while it is up?
  MaxQueue         \* bound: messages in the adapter's queue

ASSUME ClientsAssumption == Clients \subseteq Nat \ {0}
ASSUME CallbacksAssumption == Callbacks \subseteq {"tracking", "ni", "batching"}
ASSUME OptionsAssumption ==
  Intervals \subseteq Nat /\ Modes \subseteq {"MSB", "MSA", "STANDALONE"}
ASSUME BoundsAssumption ==
  SessionIdLimit \in Nat /\ SessionIdLimit > 2 /\ EngineFails \in BOOLEAN /\ MaxQueue \in Nat

VARIABLES
  clientData,         \* gData.clientData: callbacks of the live LocationAPI objects
  mClientData,        \* the same at the adapter, as of the messages it has handled
  mTrackingSessions,  \* [session key -> options]
  mSessionIdCounter,
  msgQ,               \* the adapter's message queue
  removing,           \* the client whose sessions are being stopped, and the cursor
  fix,                \* the position mode of the fix the engine runs, or NoFix
  engine,             \* "up", "down", or "coming": up, the adapter is being told
  unanswered,         \* keys of startTracking calls that have had no response
  stopRefused         \* the engine refused to stop a session of a removed client

vars == <<clientData, mClientData, mTrackingSessions, mSessionIdCounter, msgQ, removing,
          fix, engine, unanswered, stopRefused>>

-----------------------------------------------------------------------------
(* Types *)

SessionId == 1 .. SessionIdLimit - 1
Key == Clients \X SessionId
LocationOptions == [minInterval : Intervals, mode : Modes]
NoSize == [size |-> 0]   \* options whose size field is zero: not valid
NoFix == [mode |-> "none"]
LocPosMode == [mode : {"MS_BASED", "MS_ASSISTED", "STANDALONE"}, min_interval : Intervals]
LocationError == {"SUCCESS", "GENERAL_FAILURE", "CALLBACK_MISSING", "INVALID_PARAMETER"}

\* "tracking": trackingCb or gnssMeasurementsCb is set; "ni": only gnssNiCb;
\* "batching": only callbacks of interfaces other than the GNSS one.
\* (Slip: only trackingCb and gnssMeasurementsCb count.)
isGnssClient_Tracking(cb) == cb = "tracking"
isGnssClient(cb) == cb \in {"tracking", "ni"}

IsMap(f, S, T) == DOMAIN f \subseteq S /\ f \in [DOMAIN f -> T]

MsgAddClient(c, cb) == [msg |-> "AddClient", client |-> c, callbacks |-> cb]
MsgRemoveClient(c) == [msg |-> "RemoveClient", client |-> c]
MsgStartTracking(k, o) == [msg |-> "StartTracking", client |-> k[1], id |-> k[2], options |-> o]
MsgUpdateTracking(k, o) == [msg |-> "UpdateTracking", client |-> k[1], id |-> k[2], options |-> o]
MsgStopTracking(k) == [msg |-> "StopTracking", client |-> k[1], id |-> k[2]]
LocSsrMsg == [msg |-> "Ssr"]
MsgRestartSessions == [msg |-> "RestartSessions"]

Msg == {MsgAddClient(c, cb) : c \in Clients, cb \in Callbacks}
         \cup {MsgRemoveClient(c) : c \in Clients}
         \cup {MsgStartTracking(k, o) : k \in Key, o \in LocationOptions \cup {NoSize}}
         \cup {MsgUpdateTracking(k, o) : k \in Key, o \in LocationOptions \cup {NoSize}}
         \cup {MsgStopTracking(k) : k \in Key}
         \cup {LocSsrMsg, MsgRestartSessions}

Idle == [client |-> 0, from |-> 0]
Removing == [client : Clients, from : 0 .. SessionIdLimit]

\* The types of the variables.
TypeOK ==
  /\ IsMap(clientData, Clients, Callbacks)
  /\ IsMap(mClientData, Clients, Callbacks)
  /\ IsMap(mTrackingSessions, Key, LocationOptions)
  /\ mSessionIdCounter \in SessionId
  /\ msgQ \in Seq(Msg)
  /\ removing \in Removing \cup {Idle}
  /\ fix \in LocPosMode \cup {NoFix}
  /\ engine \in {"up", "down", "coming"}
  /\ unanswered \subseteq Key
  /\ stopRefused \in BOOLEAN

Empty == [x \in {} |-> x]

Init ==
  /\ clientData = Empty
  /\ mClientData = Empty
  /\ mTrackingSessions = Empty
  /\ mSessionIdCounter = 1
  /\ msgQ = <<>>
  /\ removing = Idle
  /\ fix = NoFix
  /\ engine = "up"
  /\ unanswered = {}
  /\ stopRefused = FALSE

-----------------------------------------------------------------------------
(* Maps *)

With(f, x, y) == [z \in DOMAIN f \cup {x} |-> IF z = x THEN y ELSE f[z]]
Without(f, x) == [z \in DOMAIN f \ {x} |-> f[z]]

-----------------------------------------------------------------------------
(* The calls of LocationAPI: each checks the client and posts a message.    *)
(* A new object may get the address of a destroyed one.                     *)

Room == Len(msgQ) < MaxQueue
apiVars == <<clientData, mSessionIdCounter, unanswered>>
adapterVars == <<mClientData, mTrackingSessions, removing, fix, engine, stopRefused>>

createInstance(c, cb) ==
  /\ c \notin DOMAIN clientData
  /\ Room
  /\ clientData' = With(clientData, c, cb)
  /\ msgQ' = IF isGnssClient(cb) THEN Append(msgQ, MsgAddClient(c, cb)) ELSE msgQ
  /\ UNCHANGED <<mSessionIdCounter, unanswered, adapterVars>>

\* (Passing the same callbacks again would change nothing.)
updateCallbacks(c, cb) ==
  /\ c \in DOMAIN clientData
  /\ cb # clientData[c]
  /\ Room
  /\ clientData' = With(clientData, c, cb)
  /\ msgQ' = IF isGnssClient(cb) THEN Append(msgQ, MsgAddClient(c, cb)) ELSE msgQ
  /\ UNCHANGED <<mSessionIdCounter, unanswered, adapterVars>>

\* Only the callbacks the client has last decide whom its end is told to.
destroy(c) ==
  /\ c \in DOMAIN clientData
  /\ Room
  /\ clientData' = Without(clientData, c)
  /\ msgQ' = IF isGnssClient(clientData[c]) THEN Append(msgQ, MsgRemoveClient(c)) ELSE msgQ
  /\ unanswered' = {k \in unanswered : k[1] # c}
  /\ UNCHANGED <<mSessionIdCounter, adapterVars>>

\* LocAdapterBase::generateSessionId.  (Slip: the limit itself is handed out.)
generateSessionId_Late(n) == IF n = SessionIdLimit THEN 1 ELSE n + 1
generateSessionId(n) == IF n + 1 = SessionIdLimit THEN 1 ELSE n + 1

\* Bound: the counter goes round the small range of ids of an instance, but,
\* as in the code's range of 2^32, an id does not come up again while it is in use.
Unused(k) ==
  /\ k \notin DOMAIN mTrackingSessions
  /\ \A i \in DOMAIN msgQ : "id" \in DOMAIN msgQ[i] => <<msgQ[i].client, msgQ[i].id>> # k

startTracking(c, o) ==
  LET id == generateSessionId(mSessionIdCounter)
  IN  /\ c \in DOMAIN clientData
      /\ Room
      /\ Unused(<<c, id>>)
      /\ mSessionIdCounter' = id
      /\ msgQ' = Append(msgQ, MsgStartTracking(<<c, id>>, o))
      /\ unanswered' = unanswered \cup {<<c, id>>}
      /\ UNCHANGED <<clientData, adapterVars>>

updateTrackingOptions(k, o) ==
  /\ k[1] \in DOMAIN clientData
  /\ Room
  /\ msgQ' = Append(msgQ, MsgUpdateTracking(k, o))
  /\ UNCHANGED <<apiVars, adapterVars>>

stopTracking(k) ==
  /\ k[1] \in DOMAIN clientData
  /\ Room
  /\ msgQ' = Append(msgQ, MsgStopTracking(k))
  /\ UNCHANGED <<apiVars, adapterVars>>

-----------------------------------------------------------------------------
(* The fix *)

convertOptions(o) ==
  [mode |-> CASE o.mode = "MSB" -> "MS_BASED"
              [] o.mode = "MSA" -> "MS_ASSISTED"
              [] OTHER -> "STANDALONE",
   min_interval |-> o.minInterval]

\* The order of the keys in the map.
Before(j, k) == j[2] < k[2] \/ (j[2] = k[2] /\ j[1] < k[1])

HasSmallest(k, K) ==
  \A j \in K : mTrackingSessions[k].minInterval <= mTrackingSessions[j].minInterval

\* The options the search for the smallest interval among the sessions of K
\* ends with: of the sessions with that interval, the first in the map.
Smallest(K) ==
  LET first == CHOOSE k \in K :
                 HasSmallest(k, K) /\ \A j \in K : Before(j, k) => ~ HasSmallest(j, K)
  IN  mTrackingSessions[first]

\* The engine refuses a command while it is down.
EngineRefuses == engine = "down" \/ EngineFails

StartFix(o, err) ==
  \/ err = "SUCCESS" /\ engine # "down" /\ fix' = convertOptions(o)
  \/ err = "GENERAL_FAILURE" /\ EngineRefuses /\ UNCHANGED fix

StopFix(err) ==
  \/ err = "SUCCESS" /\ engine # "down" /\ fix' = NoFix
  \/ err = "GENERAL_FAILURE" /\ EngineRefuses /\ UNCHANGED fix

Keep(err) == err = "SUCCESS" /\ UNCHANGED fix

Others(k) == DOMAIN mTrackingSessions \ {k}

startTrackingMultiplex(o, err) ==
  LET K == DOMAIN mTrackingSessions
  IN  IF K = {} \/ o.minInterval < Smallest(K).minInterval
        THEN StartFix(o, err)
        ELSE Keep(err)

updateTrackingMultiplex(k, o, err) ==
  IF Others(k) = {} \/ o.minInterval < Smallest(Others(k)).minInterval
    THEN StartFix(o, err)
    ELSE IF mTrackingSessions[k].minInterval < Smallest(Others(k)).minInterval
           THEN StartFix(Smallest(Others(k)), err)
           ELSE Keep(err)

\* (Slip: the search for the next smallest includes the session itself.)
stopTrackingMultiplex_Self(k, err) ==
  IF Others(k) = {}
    THEN StopFix(err)
    ELSE IF mTrackingSessions[k].minInterval < Smallest(DOMAIN mTrackingSessions).minInterval
           THEN StartFix(Smallest(Others(k)), err)
           ELSE Keep(err)
stopTrackingMultiplex(k, err) ==
  IF Others(k) = {}
    THEN StopFix(err)
    ELSE IF mTrackingSessions[k].minInterval < Smallest(Others(k)).minInterval
           THEN StartFix(Smallest(Others(k)), err)
           ELSE Keep(err)

-----------------------------------------------------------------------------
(* The message handlers of the adapter *)

IsNext(kind) == removing = Idle /\ msgQ # <<>> /\ Head(msgQ).msg = kind
Consume == msgQ' = Tail(msgQ)
HeadKey == <<Head(msgQ).client, Head(msgQ).id>>

\* A response finds its client only while the adapter knows the client.  (Slip:
\* only a client that may track is looked up.)
reportResponse_Tracking(k) ==
  unanswered' = IF k[1] \in DOMAIN mClientData /\ mClientData[k[1]] = "tracking"
                  THEN unanswered \ {k} ELSE unanswered
reportResponse(k) ==
  unanswered' = IF k[1] \in DOMAIN mClientData THEN unanswered \ {k} ELSE unanswered

saveClient ==
  /\ IsNext("AddClient")
  /\ Consume
  /\ mClientData' = With(mClientData, Head(msgQ).client, Head(msgQ).callbacks)
  /\ UNCHANGED <<apiVars, mTrackingSessions, removing, fix, engine, stopRefused>>

hasCallback(c) == c \in DOMAIN mClientData /\ mClientData[c] = "tracking"

handleStartTracking ==
  /\ IsNext("StartTracking")
  /\ Consume
  /\ reportResponse(HeadKey)
  /\ LET o == Head(msgQ).options
     IN  \/ /\ ~ hasCallback(Head(msgQ).client) \/ o = NoSize
            /\ UNCHANGED <<fix, mTrackingSessions>>
         \/ /\ hasCallback(Head(msgQ).client) /\ o # NoSize
            /\ \E err \in LocationError :
                 /\ startTrackingMultiplex(o, err)
                 /\ mTrackingSessions' = IF err = "SUCCESS"
                                           THEN With(mTrackingSessions, HeadKey, o)
                                           ELSE mTrackingSessions
  /\ UNCHANGED <<clientData, mSessionIdCounter, mClientData, removing, engine, stopRefused>>

isTrackingSession(k) == k \in DOMAIN mTrackingSessions

handleUpdateTracking ==
  /\ IsNext("UpdateTracking")
  /\ Consume
  /\ LET o == Head(msgQ).options
     IN  \/ /\ ~ isTrackingSession(HeadKey) \/ o = NoSize
            /\ UNCHANGED <<fix, mTrackingSessions>>
         \/ /\ isTrackingSession(HeadKey) /\ o # NoSize
            /\ \E err \in LocationError :
                 /\ updateTrackingMultiplex(HeadKey, o, err)
                 /\ mTrackingSessions' = IF err = "SUCCESS"
                                           THEN With(mTrackingSessions, HeadKey, o)
                                           ELSE mTrackingSessions
  /\ UNCHANGED <<apiVars, mClientData, removing, engine, stopRefused>>

handleStopTracking ==
  /\ IsNext("StopTracking")
  /\ Consume
  /\ \/ /\ ~ isTrackingSession(HeadKey)
        /\ UNCHANGED <<fix, mTrackingSessions>>
     \/ /\ isTrackingSession(HeadKey)
        /\ \E err \in LocationError :
             /\ stopTrackingMultiplex(HeadKey, err)
             /\ mTrackingSessions' = IF err = "SUCCESS"
                                       THEN Without(mTrackingSessions, HeadKey)
                                       ELSE mTrackingSessions
  /\ UNCHANGED <<apiVars, mClientData, removing, engine, stopRefused>>

\* MsgRemoveClient: stopClientSessions goes through the map, whose order is
\* that of the ids for the sessions of one client; then eraseClient.
handleRemoveClient ==
  /\ IsNext("RemoveClient")
  /\ Consume
  /\ removing' = [client |-> Head(msgQ).client, from |-> 0]
  /\ UNCHANGED <<apiVars, mClientData, mTrackingSessions, fix, engine, stopRefused>>

\* The sessions of the client the loop has not visited yet.  (Slip: the iterator
\* is incremented after an erase too.)
Unvisited_Skips ==
  {k \in DOMAIN mTrackingSessions : k[1] = removing.client /\ k[2] > removing.from}
Unvisited ==
  {k \in DOMAIN mTrackingSessions : k[1] = removing.client /\ k[2] >= removing.from}

stopClientSession ==
  /\ removing # Idle
  /\ \E k \in Unvisited, err \in LocationError :
       /\ \A j \in Unvisited : k[2] <= j[2]
       /\ stopTrackingMultiplex(k, err)
       /\ removing' = [removing EXCEPT !.from = k[2] + 1]
       /\ mTrackingSessions' = IF err = "SUCCESS" THEN Without(mTrackingSessions, k)
                                                  ELSE mTrackingSessions
       /\ stopRefused' = (stopRefused \/ err # "SUCCESS")
  /\ UNCHANGED <<apiVars, msgQ, mClientData, engine>>

eraseClient ==
  /\ removing # Idle
  /\ Unvisited = {}
  /\ mClientData' = Without(mClientData, removing.client)
  /\ removing' = Idle
  /\ UNCHANGED <<apiVars, msgQ, mTrackingSessions, fix, engine, stopRefused>>

\* LocSsrMsg: the handle to the engine is closed, and with it a fix, and opened.
handleSsr ==
  /\ IsNext("Ssr")
  /\ Consume
  /\ fix' = NoFix
  /\ UNCHANGED <<apiVars, mClientData, mTrackingSessions, removing, engine, stopRefused>>

\* The result of startFix is ignored.
restartSessions ==
  /\ IsNext("RestartSessions")
  /\ Consume
  /\ IF DOMAIN mTrackingSessions = {}
       THEN UNCHANGED fix
       ELSE \E err \in LocationError : StartFix(Smallest(DOMAIN mTrackingSessions), err)
  /\ UNCHANGED <<apiVars, mClientData, mTrackingSessions, removing, engine, stopRefused>>

-----------------------------------------------------------------------------
(* The engine *)

EngineDown ==
  /\ engine = "up"
  /\ engine' = "down"
  /\ fix' = NoFix
  /\ UNCHANGED <<apiVars, msgQ, mClientData, mTrackingSessions, removing, stopRefused>>

\* LocApiBase::handleEngineUpEvent posts LocSsrMsg, then calls the adapters.
EngineUp ==
  /\ engine = "down"
  /\ Room
  /\ engine' = "coming"
  /\ msgQ' = Append(msgQ, LocSsrMsg)
  /\ UNCHANGED <<apiVars, mClientData, mTrackingSessions, removing, fix, stopRefused>>

\* GnssAdapter::handleEngineUpEvent.  (Slip: posts nothing if there is no session.)
handleEngineUpEvent_InSession ==
  /\ engine = "coming"
  /\ engine' = "up"
  /\ msgQ' = IF DOMAIN mTrackingSessions = {} THEN msgQ ELSE Append(msgQ, MsgRestartSessions)
  /\ UNCHANGED <<apiVars, mClientData, mTrackingSessions, removing, fix, stopRefused>>
handleEngineUpEvent ==
  /\ engine = "coming"
  /\ engine' = "up"
  /\ msgQ' = Append(msgQ, MsgRestartSessions)
  /\ UNCHANGED <<apiVars, mClientData, mTrackingSessions, removing, fix, stopRefused>>

-----------------------------------------------------------------------------
(* The specification *)

Handle ==
  \/ saveClient \/ handleStartTracking \/ handleUpdateTracking \/ handleStopTracking
  \/ handleRemoveClient \/ stopClientSession \/ eraseClient
  \/ handleSsr \/ restartSessions

Next ==
  \/ \E c \in Clients, cb \in Callbacks : createInstance(c, cb) \/ updateCallbacks(c, cb)
  \/ \E c \in Clients : destroy(c)
  \/ \E c \in Clients, o \in LocationOptions \cup {NoSize} : startTracking(c, o)
  \/ \E k \in Key, o \in LocationOptions \cup {NoSize} : updateTrackingOptions(k, o)
  \/ \E k \in Key : stopTracking(k)
  \/ EngineDown \/ EngineUp \/ handleEngineUpEvent
  \/ Handle

Spec == Init /\ [][Next]_vars

\* The adapter's thread handles every message, and the thread that reports the
\* engine up finishes the report.
FairSpec == Spec /\ WF_vars(Handle) /\ WF_vars(handleEngineUpEvent)

-----------------------------------------------------------------------------
(* Properties *)

\* The fix the engine runs has the smallest interval of all sessions, and the
\* engine runs none when there is no session: whatever sequence of starts,
\* updates, stops and removals led here, whichever of them the engine refused,
\* and wherever it went down (startTrackingMultiplex, updateTrackingMultiplex,
\* stopTrackingMultiplex and restartSessions agree on "the active one").
ActiveIsSmallest ==
  fix # NoFix =>
    /\ \E k \in DOMAIN mTrackingSessions : mTrackingSessions[k].minInterval = fix.min_interval
    /\ \A k \in DOMAIN mTrackingSessions : fix.min_interval <= mTrackingSessions[k].minInterval

Queued(m) == \E i \in DOMAIN msgQ : msgQ[i] = m

\* Sessions without a fix: only while the engine is down or coming up, or while
\* the restart of the sessions is queued, if the engine refuses no command while
\* it is up.  Commands handled while the engine was down, or between its two
\* messages, do not leave the sessions without a fix.
SessionsAreServed ==
  ~ EngineFails /\ DOMAIN mTrackingSessions # {} /\ fix = NoFix =>
    engine # "up" \/ Queued(MsgRestartSessions)

\* The adapter has nothing left to do for the client.
Settled(c) ==
  /\ removing.client # c
  /\ \A i \in DOMAIN msgQ : "client" \in DOMAIN msgQ[i] => msgQ[i].client # c

\* Once the adapter has caught up with a client, it knows the client exactly if
\* the LocationAPI object exists, with the callbacks it passed last: also when
\* the address of a destroyed object is used again before its removal is handled.
ClientsAgree ==
  \A c \in Clients : Settled(c) =>
    /\ c \in DOMAIN mClientData <=> c \in DOMAIN clientData
    /\ c \in DOMAIN clientData => mClientData[c] = clientData[c]

\* A destroyed client leaves a session behind only if the engine refused to stop
\* one: stopClientSessions erases while it iterates and misses none.
NoOrphanSession ==
  \A k \in DOMAIN mTrackingSessions :
    k[1] \notin DOMAIN clientData /\ Settled(k[1]) => stopRefused

\* LocationAPI.h 778: destroy "cleans up the instance".  The code does not: see
\* the run tracking_destroy.
DestroyLeavesNoSession ==
  \A k \in DOMAIN mTrackingSessions : k[1] \notin DOMAIN clientData => ~ Settled(k[1])

\* GnssAdapter.cpp 1233, 1505: the LocationOptions with the smallest interval
\* "should be the active one".  The code keeps options no session has any more
\* when sessions have equal intervals: see the run tracking_mode.
ActiveIsRequested ==
  fix # NoFix =>
    \E k \in DOMAIN mTrackingSessions : fix = convertOptions(mTrackingSessions[k])

\* Every startTracking of a client gets its response, unless the client is
\* destroyed first (MsgStartTracking responds on every path).
StartAnswered == \A k \in Key : k \in unanswered ~> k \notin unanswered
=============================================================================
