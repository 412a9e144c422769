--------------------------- MODULE ClientSessions ---------------------------
(***************************************************************************)
(* One client of LocationAPI (LocationAPIClientBase of gps/location): its  *)
(* tracking session, its sessions by id, its network-initiated responses,  *)
(* and how it finds the request a response belongs to.                     *)
(*                                                                         *)
(* Three request queues are kept.  The TRACKING and the NIRESPONSE queue   *)
(* carry the session they are for; the SESSION queue is shared by all ids  *)
(* and a response whose session some id has takes its head, whatever the   *)
(* request there is.  Commands go to the GNSS and to the FLP interface; an *)
(* interface is a thread that serves its commands in order and calls       *)
(* responseCb.  responseCb takes a request out of a queue under mMutex and *)
(* runs it after the unlock, so the client's threads can come between.     *)
(* mSessionBiDict has a lock of its own: removeSession and the trip status *)
(* callback change it without mMutex, also between the lookups of a call   *)
(* that holds mMutex ("calling").                                          *)
(*                                                                         *)
(* The GNSS interface is GnssAdapter: a start, a stop or an update that    *)
(* the engine refuses is answered with a failure and changes no session,   *)
(* and a stop or an update of an unknown session is not answered.          *)
(*                                                                         *)
(* External: the FLP interface, modelled by what LocationAPI.h promises:   *)
(* every command is answered, one for an unknown session with ID_UNKNOWN.  *)
(***************************************************************************)
EXTENDS Naturals, Sequences, BiDict

CONSTANTS
  Ids,         \* the ids the client gives its sessions
  NiIds,       \* ids of network-initiated requests: numbers, from a counter of their own
  Modes,       \* the SESSION_MODEs it uses
  MaxSession,  \* bound: session ids given out
  MaxCommands, \* bound: commands an interface has not served
  MaxQueue     \* bound: requests in a queue

VARIABLES
  usage,     \* what the client does: see Usage
  api,       \* mLocationAPI != nullptr
  queue,     \* mRequestQueues: [session, requests] of each type
  mTracking,
  dict,      \* mSessionBiDict
  calling,   \* the call that holds mMutex between two lookups, or Idle
  commands,  \* the commands each interface has yet to serve
  running,   \* the sessions the interfaces run, and their modes
  popped,    \* the request each interface's thread is about to run, or Idle
  nextId,    \* the next session id
  refused    \* ghost: the sessions the GNSS interface refused to stop

vars == <<usage, api, queue, mTracking, dict, calling, commands, running, popped, nextId, refused>>

-----------------------------------------------------------------------------
Interface == {"gnss", "flp"}
RequestType == {"TRACKING", "SESSION", "NIRESPONSE"}
Idle == [kind |-> "none"]

\* GnssAPIClient and MeasurementAPIClient track and answer network-initiated requests;
\* BatchingAPIClient has one session by id; the interface allows more of both.
Usage == {"gnss_hal", "batching_hal", "sessions"}
NoEntity == [id |-> 0, trackingSession |-> 0, batchingSession |-> 0, sessionMode |-> "NONE"]

Reset(session) == [session |-> session, requests |-> <<>>]

\* Mutant: the newest request is answered first.
PushOn_Front(q, kind) == [q EXCEPT !.requests = <<kind>> \o @]

PushOn(q, kind) == [q EXCEPT !.requests = Append(@, kind)]

\* ghost: req is the request the client queued for the command, "none" if it queued none
Command(cmd, session, mode, req) ==
  [cmd |-> cmd, session |-> session, mode |-> mode, req |-> req]

Sent(itf, cmds) == [commands EXCEPT ![itf] = @ \o cmds]

Room(itf, type) ==
  Len(commands[itf]) < MaxCommands /\ Len(queue[type].requests) < MaxQueue

CanCall == api /\ calling = Idle

Init ==
  /\ usage \in Usage
  /\ api = FALSE
  /\ queue = [t \in RequestType |-> Reset(0)]
  /\ mTracking = FALSE
  /\ dict = EmptyDict
  /\ calling = Idle
  /\ commands = [i \in Interface |-> <<>>]
  /\ running = <<>>
  /\ popped = [i \in Interface |-> Idle]
  /\ nextId = 1
  /\ refused = {}

locAPISetCallbacks ==
  /\ ~api
  /\ api' = TRUE
  /\ UNCHANGED <<usage, queue, mTracking, dict, calling, commands, running, popped, nextId, refused>>

-----------------------------------------------------------------------------
(* The tracking session *)

locAPIStartTracking ==
  /\ CanCall /\ usage = "gnss_hal" /\ ~mTracking
  /\ nextId <= MaxSession /\ Room("gnss", "TRACKING")
  /\ queue' = [queue EXCEPT !["TRACKING"] = PushOn(Reset(nextId), "StartTracking")]
  /\ commands' = Sent("gnss", <<Command("start", nextId, "ON_FIX", "StartTracking")>>)
  /\ mTracking' = TRUE
  /\ nextId' = nextId + 1
  /\ UNCHANGED <<usage, api, dict, calling, running, popped, refused>>

\* The queue keeps its session when it stops: a second stop is sent all the same.
locAPIStopTracking ==
  /\ CanCall /\ queue["TRACKING"].session > 0 /\ Room("gnss", "TRACKING")
  /\ queue' = [queue EXCEPT !["TRACKING"] = PushOn(@, "StopTracking")]
  /\ commands' = Sent("gnss",
                     <<Command("stop", queue["TRACKING"].session, "ON_FIX", "StopTracking")>>)
  /\ mTracking' = FALSE
  /\ UNCHANGED <<usage, api, dict, calling, running, popped, nextId, refused>>

locAPIUpdateTrackingOptions ==
  /\ CanCall /\ queue["TRACKING"].session > 0 /\ Room("gnss", "TRACKING")
  /\ queue' = [queue EXCEPT !["TRACKING"] = PushOn(@, "UpdateTracking")]
  /\ commands' = Sent("gnss",
                     <<Command("update", queue["TRACKING"].session, "ON_FIX", "UpdateTracking")>>)
  /\ UNCHANGED <<usage, api, mTracking, dict, calling, running, popped, nextId, refused>>

locAPIGnssNiResponse(id) ==
  /\ CanCall /\ usage = "gnss_hal" /\ Room("gnss", "NIRESPONSE")
  /\ commands' = Sent("gnss", <<Command("ni", id, "ON_FIX", "NiResponse")>>)
  /\ queue' = [queue EXCEPT !["NIRESPONSE"] = PushOn(Reset(id), "NiResponse")]
  /\ UNCHANGED <<usage, api, mTracking, dict, calling, running, popped, nextId, refused>>

-----------------------------------------------------------------------------
(* Sessions by id *)

Starting == {"StartTracking", "StartBatching"}
Stopping == {"StopTracking", "StopBatching"}

\* BatchingAPIClient has one session and batches only; it waits for no answer.
AllowedBy(id, mode) ==
  /\ usage # "gnss_hal"
  /\ usage = "batching_hal" =>
       id = (CHOOSE i \in Ids : TRUE) /\ mode \in {"NONE", "ON_FULL"}

Entity(id, mode, session) ==
  [id |-> id, sessionMode |-> mode,
   trackingSession |-> IF mode = "ON_FIX" THEN session ELSE 0,
   batchingSession |-> IF mode = "ON_FIX" THEN 0 ELSE session]

locAPIStartSession(id, mode) ==
  LET itf == IF mode = "ON_FIX" THEN "gnss" ELSE "flp"
      req == IF mode = "ON_FIX" THEN "StartTracking" ELSE "StartBatching"
  IN  /\ CanCall /\ AllowedBy(id, mode) /\ ~HasId(dict, id)
      /\ nextId <= MaxSession /\ Room(itf, "SESSION")
      /\ commands' = Sent(itf, <<Command("start", nextId, mode, req)>>)
      /\ queue' = [queue EXCEPT !["SESSION"].requests = Append(@, req)]
      /\ dict' = SetEntry(dict, id, nextId, Entity(id, mode, nextId))
      /\ nextId' = nextId + 1
      /\ UNCHANGED <<usage, api, mTracking, calling, running, popped, refused>>

\* The other calls find the id first and read its entity in a second lookup.
FindSession(id, call, mode) ==
  /\ CanCall /\ AllowedBy(id, mode) /\ HasId(dict, id)
  /\ \A i \in Interface : Room(i, "SESSION")
  /\ call = "update" => nextId <= MaxSession
  /\ calling' = [kind |-> call, id |-> id, mode |-> mode]
  /\ UNCHANGED <<usage, api, queue, mTracking, dict, commands, running, popped, nextId, refused>>

Found == GetExtById(dict, calling.id, NoEntity)

SessionCommand(itf, cmd, session, req) ==
  /\ commands' = Sent(itf, <<Command(cmd, session, calling.mode, req)>>)
  /\ queue' = [queue EXCEPT !["SESSION"] = PushOn(@, req)]

locAPIStopSession ==
  /\ calling.kind = "stop"
  /\ IF Found.sessionMode = "ON_FIX"
     THEN SessionCommand("gnss", "stop", Found.trackingSession, "StopTracking")
     ELSE SessionCommand("flp", "stop", Found.batchingSession, "StopBatching")
  /\ dict' = AfterGetExtById(dict, calling.id)
  /\ calling' = Idle
  /\ UNCHANGED <<usage, api, mTracking, running, popped, nextId, refused>>

locAPIGetBatchedLocations ==
  /\ calling.kind = "flush"
  /\ IF Found.sessionMode = "ON_FIX"
     THEN UNCHANGED <<queue, commands>>   \* NOT_SUPPORTED
     ELSE SessionCommand("flp", "flush", Found.batchingSession, "GetBatchedLocations")
  /\ dict' = AfterGetExtById(dict, calling.id)
  /\ calling' = Idle
  /\ UNCHANGED <<usage, api, mTracking, running, popped, nextId, refused>>

\* A change between tracking and batching ends one session and begins another,
\* with one update request for both.
ChangedMode(req, stopAt, session, startAt) ==
  /\ commands' = [commands EXCEPT
                    ![stopAt] = Append(@, Command("stop", session, calling.mode, "none")),
                    ![startAt] = Append(@, Command("start", nextId, calling.mode, req))]
  /\ queue' = [queue EXCEPT !["SESSION"] = PushOn(@, req)]
  /\ nextId' = nextId + 1

UpdateCommands(entity, mode) ==
  CASE mode = "ON_FIX" /\ entity.sessionMode = "ON_FIX" ->
         SessionCommand("gnss", "update", entity.trackingSession, "UpdateTracking") /\ UNCHANGED nextId
    [] mode = "ON_FIX" /\ entity.sessionMode # "ON_FIX" ->
         ChangedMode("UpdateTracking", "flp", entity.batchingSession, "gnss")
    [] mode # "ON_FIX" /\ entity.sessionMode = "ON_FIX" ->
         ChangedMode("UpdateBatching", "gnss", entity.trackingSession, "flp")
    [] OTHER ->
         SessionCommand("flp", "update", entity.batchingSession, "UpdateBatching") /\ UNCHANGED nextId

SessionAfter(entity, mode) ==
  IF (mode = "ON_FIX") # (entity.sessionMode = "ON_FIX") THEN nextId
  ELSE IF mode = "ON_FIX" THEN entity.trackingSession ELSE entity.batchingSession

locAPIUpdateSessionOptions ==
  /\ calling.kind = "update"
  /\ UpdateCommands(Found, calling.mode)
  /\ dict' = AfterGetExtById(dict, calling.id)
  /\ calling' = [kind |-> "commit", id |-> calling.id, mode |-> calling.mode,
                 session |-> SessionAfter(Found, calling.mode)]
  /\ UNCHANGED <<usage, api, mTracking, running, popped, refused>>

\* rmById, then set
UpdateEntry ==
  /\ calling.kind = "commit"
  /\ dict' = SetEntry(RmById(dict, calling.id), calling.id, calling.session,
                      Entity(calling.id, calling.mode, calling.session))
  /\ calling' = Idle
  /\ UNCHANGED <<usage, api, queue, mTracking, commands, running, popped, nextId, refused>>

-----------------------------------------------------------------------------
(* Responses *)

\* The queue a response for the session takes its request from
QueueOf(session) ==
  LET own == {t \in {"TRACKING", "NIRESPONSE"} : queue[t].session = session}
      first == IF "TRACKING" \in own THEN "TRACKING" ELSE "NIRESPONSE"
  IN  IF own # {} /\ queue[first].requests # <<>> THEN first
      ELSE IF HasSession(dict, session) THEN "SESSION" ELSE "none"

getRequestBySession(itf, session, error, cmd) ==
  LET type == QueueOf(session) IN
  IF type = "none" \/ (type # "none" /\ queue[type].requests = <<>>)
  THEN UNCHANGED <<queue, popped>>
  ELSE /\ popped' = [popped EXCEPT ![itf] =
                       [kind |-> Head(queue[type].requests), session |-> session,
                        error |-> error, from |-> type, answers |-> cmd]]
       /\ queue' = [queue EXCEPT ![type].requests = Tail(@)]

\* GnssAdapter says nothing of a session it does not know; what it starts, stops and updates
\* the engine may refuse.
GnssAnswers(cmd) ==
  IF cmd.cmd \in {"stop", "update"} /\ cmd.session \notin DOMAIN running
  THEN {"no answer"} ELSE {"SUCCESS", "FAILURE"}

FlpAnswers(cmd) ==
  IF cmd.cmd = "start" \/ cmd.session \in DOMAIN running
  THEN {"SUCCESS", "FAILURE"} ELSE {"ID_UNKNOWN"}

Answers(itf, cmd) == IF itf = "gnss" THEN GnssAnswers(cmd) ELSE FlpAnswers(cmd)

\* The sessions an interface runs after a command: what failed changes none.
RunningAfter(cmd, error) ==
  IF error # "SUCCESS" THEN running
  ELSE CASE cmd.cmd \in {"start", "update"} -> Put(running, cmd.session, cmd.mode)
         [] cmd.cmd = "stop" -> Erase(running, cmd.session)
         [] OTHER -> running

Serve(itf, error) ==
  LET cmd == Head(commands[itf]) IN
  /\ commands[itf] # <<>> /\ popped[itf] = Idle
  /\ calling = Idle          \* getRequestBySession takes mMutex
  /\ error \in Answers(itf, cmd)
  /\ commands' = [commands EXCEPT ![itf] = Tail(@)]
  /\ running' = RunningAfter(cmd, error)
  /\ refused' = IF itf = "gnss" /\ cmd.cmd = "stop" /\ error = "FAILURE"
                THEN refused \union {cmd.session} ELSE refused
  /\ IF error = "no answer" THEN UNCHANGED <<queue, popped>>
     ELSE getRequestBySession(itf, cmd.session, error, cmd)
  /\ UNCHANGED <<usage, api, mTracking, dict, calling, nextId>>

removeSession(session) ==
  IF HasSession(dict, session) THEN RmBySession(dict, session) ELSE dict

\* Mutant: any response to a start or a stop ends the session.
EndsSession_AnyError(request) == request.kind \in Starting \union Stopping

\* A start that failed and a stop that succeeded end the session of an id.
EndsSession(request) ==
  \/ request.kind \in Starting /\ request.error # "SUCCESS"
  \/ request.kind \in Stopping /\ request.error = "SUCCESS"

onResponse(itf) ==
  /\ popped[itf] # Idle
  /\ dict' = IF EndsSession(popped[itf]) THEN removeSession(popped[itf].session) ELSE dict
  /\ popped' = [popped EXCEPT ![itf] = Idle]
  /\ UNCHANGED <<usage, api, queue, mTracking, calling, commands, running, nextId, refused>>

\* The FLP interface ends a trip session on its own and tells the client.
beforeBatchingStatusCb(session) ==
  /\ popped["flp"] = Idle /\ running[session] = "ON_TRIP_COMPLETED"
  /\ running' = Erase(running, session)
  /\ dict' = IF GetExtBySession(dict, session, NoEntity).sessionMode = "ON_TRIP_COMPLETED"
             THEN removeSession(session) ELSE dict
  /\ UNCHANGED <<usage, api, queue, mTracking, calling, commands, popped, nextId, refused>>

ClientStep ==
  \/ locAPISetCallbacks \/ locAPIStartTracking \/ locAPIStopTracking \/ locAPIUpdateTrackingOptions
  \/ \E id \in NiIds : locAPIGnssNiResponse(id)
  \/ \E id \in Ids, mode \in Modes : locAPIStartSession(id, mode) \/ FindSession(id, "update", mode)
  \/ \E id \in Ids : FindSession(id, "stop", "NONE") \/ FindSession(id, "flush", "NONE")
  \/ locAPIStopSession \/ locAPIGetBatchedLocations \/ locAPIUpdateSessionOptions \/ UpdateEntry

InterfaceStep ==
  \/ \E i \in Interface : onResponse(i)
  \/ \E i \in Interface, e \in {"SUCCESS", "FAILURE", "ID_UNKNOWN", "no answer"} : Serve(i, e)
  \/ \E s \in DOMAIN running : beforeBatchingStatusCb(s)

Next == ClientStep \/ InterfaceStep
Spec == Init /\ [][Next]_vars

-----------------------------------------------------------------------------
(* Properties *)

Matches(request) == request # Idle => request.kind = request.answers.req

\* Two counters give out the ids of sessions and of network-initiated requests, and a response
\* names its id alone: with the same number for both, either may take the other's request
\* (LocationAPIClientBase.cpp 897-904, LocAdapterBase.cpp 53-61, GnssAdapter.cpp 2455).
Ambiguous(id) == id \in NiIds /\ id < nextId

\* A response for the tracking session or for a network-initiated request is given to the
\* request of the command it answers, whatever calls came in between and although an
\* unanswered stop may sit in the queue: reset throws away the requests of older sessions
\* (LocationAPIClientBase.cpp 302-342, 893-914).
TrackingResponsesMatch ==
  \A i \in Interface :
    popped[i] # Idle /\ popped[i].from # "SESSION" /\ ~Ambiguous(popped[i].session) =>
      Matches(popped[i])

\* A response that finds no session in mSessionBiDict leaves its request in the SESSION queue,
\* which nothing resets: from then on the queue is ahead of the commands.
LeftOver == Len(queue["SESSION"].requests) > Len(commands["flp"])

\* The responses of the batching client are given to the requests they answer, whatever it
\* calls without waiting, until the first response that comes too late for its session: to a
\* second stop, say (LocationAPIClientBase.cpp 377-582 and 893-914).
BatchingResponsesMatch ==
  usage = "batching_hal" => \A i \in Interface : LeftOver \/ Matches(popped[i])

StopSent(s) ==
  \E i \in Interface : \E k \in 1 .. Len(commands[i]) :
    commands[i][k].cmd = "stop" /\ commands[i][k].session = s

\* A session an interface runs is the one mTracking speaks of or the session of its id, or
\* its stop is on its way.  Two things alone put a session out of the client's reach: a stop
\* that the GNSS interface refused, after which locAPIStopTracking has cleared mTracking all
\* the same, and a request left over, whose kind decides what the success of another command
\* does (LocationAPIClientBase.cpp 302-342, 377-466, 887-891, GnssAdapter.cpp 1703-1711).
RunningIsKnown ==
  usage # "sessions" =>
    \A s \in DOMAIN running :
      \/ mTracking /\ queue["TRACKING"].session = s
      \/ HasSession(dict, s)
      \/ StopSent(s)
      \/ usage = "gnss_hal" /\ s \in refused
      \/ usage = "batching_hal" /\ LeftOver

\* The two directions of mSessionBiDict agree on every session that was given out, also
\* when a response or a completed trip removes a session in the middle of an update
\* (LocationAPIClientBase.h 270-381).
DictAgrees ==
  \A s \in DOMAIN dict.bwd \ {0} : GetSession(dict, dict.bwd[s]) = s
=============================================================================
