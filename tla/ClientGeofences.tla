-------------------------- MODULE ClientGeofences ---------------------------
(***************************************************************************)
(* The geofences of a client of LocationAPI (LocationAPIClientBase of      *)
(* gps/location and GeofenceAPIClient of gps/android/location_api).        *)
(*                                                                         *)
(* The framework names geofences by its own ids; mGeofenceBiDict maps them *)
(* to the ids of the geofence interface (its sessions) and keeps the       *)
(* breaches each one is to report.  All requests share one queue and are   *)
(* matched with collective responses by their order alone.  A response     *)
(* takes its request out of the queue under mMutex and translates sessions *)
(* back to ids after the unlock.                                           *)
(*                                                                         *)
(* External: the geofence interface serves its commands in order and       *)
(* answers each (an unknown geofence with ID_UNKNOWN); adding may fail.    *)
(* The framework does not reuse an id of a geofence it believes to exist.  *)
(***************************************************************************)
EXTENDS Naturals, Sequences, FiniteSets, BiDict

CONSTANTS
  Ids,         \* the framework's geofence ids
  Masks,       \* sets of breaches ("enter", "exit") to report
  MaxSession,  \* bound: geofences added
  MaxCommands  \* bound: commands that have not been answered

VARIABLES
  started,    \* the GEOFENCE queue belongs to GEOFENCE_SESSION_ID
  requests,   \* the GEOFENCE queue
  dict,       \* mGeofenceBiDict
  commands,   \* the commands of the interface, oldest first
  monitored,  \* the geofences of the interface and their breach masks; 0: paused
  popped,     \* the request the interface's thread is about to run, or Idle
  nextId,     \* the next session
  known       \* the ids the framework believes to exist

vars == <<started, requests, dict, commands, monitored, popped, nextId, known>>

-----------------------------------------------------------------------------
Idle == [kind |-> "none"]

\* ghost: asked maps the sessions of the command to the ids the framework used
Command(kind, asked, mask) == [kind |-> kind, asked |-> asked, mask |-> mask]

CanCall == Len(commands) < MaxCommands /\ Len(requests) < MaxCommands

SessionsOf(ids) == {GetSession(dict, id) : id \in {i \in ids : GetSession(dict, i) > 0}}

Asked(sessions) == [s \in sessions |-> dict.bwd[s]]

\* set(id, session, mask) for the ids that have a session
Remasked(ids, mask) ==
  [dict EXCEPT !.ext = [s \in DOMAIN dict.ext |->
                          IF s \in SessionsOf(ids) THEN mask ELSE dict.ext[s]]]

Init ==
  /\ started = FALSE /\ requests = <<>> /\ dict = EmptyDict
  /\ commands = <<>> /\ monitored = <<>> /\ popped = Idle /\ nextId = 1
  /\ known = {}

\* The interface gives the ids consecutive sessions.
Numbering(ids) ==
  CHOOSE f \in [nextId .. nextId + Cardinality(ids) - 1 -> ids] : \A i \in ids : \E s \in DOMAIN f : f[s] = i

\* set for every id; whether the id has a session already is not looked up
Added(new, mask) ==
  LET SessionOf(id) == CHOOSE s \in DOMAIN new : new[s] = id
      ids == {new[s] : s \in DOMAIN new}
  IN  [fwd |-> [i \in DOMAIN dict.fwd \union ids |-> IF i \in ids THEN SessionOf(i) ELSE dict.fwd[i]],
       bwd |-> [s \in DOMAIN new \union DOMAIN dict.bwd |->
                  IF s \in DOMAIN new THEN new[s] ELSE dict.bwd[s]],
       ext |-> [s \in DOMAIN new \union DOMAIN dict.ext |->
                  IF s \in DOMAIN new THEN mask ELSE dict.ext[s]]]

locAPIAddGeofences(ids, mask) ==
  LET new == Numbering(ids) IN
  /\ CanCall /\ ids \intersect known = {} /\ nextId + Cardinality(ids) <= MaxSession + 1
  /\ started' = TRUE
  /\ requests' = Append(requests, [kind |-> "add", removed |-> EmptyDict])
  /\ dict' = Added(new, mask)
  /\ commands' = Append(commands, Command("add", new, mask))
  /\ nextId' = nextId + Cardinality(ids)
  /\ known' = known \union ids
  /\ UNCHANGED <<monitored, popped>>

\* The entries move from mGeofenceBiDict to a dictionary of the request's own.
Removed(ids) ==
  LET gone == SessionsOf(ids) IN
  [kept |-> [fwd |-> [i \in DOMAIN dict.fwd \ {dict.bwd[s] : s \in gone} |-> dict.fwd[i]],
             bwd |-> [s \in DOMAIN dict.bwd \ gone |-> dict.bwd[s]],
             ext |-> [s \in DOMAIN dict.ext \ gone |-> dict.ext[s]]],
   removed |-> [fwd |-> [i \in {dict.bwd[s] : s \in gone} |-> dict.fwd[i]],
                bwd |-> [s \in gone |-> dict.bwd[s]],
                ext |-> [s \in gone |-> dict.ext[s]]]]

locAPIRemoveGeofences(ids) ==
  /\ CanCall /\ started /\ SessionsOf(ids) # {}
  /\ requests' = Append(requests, [kind |-> "remove", removed |-> Removed(ids).removed])
  /\ commands' = Append(commands, Command("remove", Asked(SessionsOf(ids)), {}))
  /\ dict' = Removed(ids).kept
  /\ known' = known \ ids
  /\ UNCHANGED <<started, monitored, popped, nextId>>

Request(kind, ids, mask) ==
  /\ CanCall /\ started /\ SessionsOf(ids) # {}
  /\ requests' = Append(requests, [kind |-> kind, removed |-> EmptyDict])
  /\ commands' = Append(commands, Command(kind, Asked(SessionsOf(ids)), mask))
  /\ UNCHANGED <<started, monitored, popped, nextId, known>>

locAPIModifyGeofences(ids, mask) == Request("modify", ids, mask) /\ dict' = Remasked(ids, mask)

locAPIPauseGeofences(ids) == Request("pause", ids, {}) /\ UNCHANGED dict

locAPIResumeGeofences(ids, mask) == Request("resume", ids, mask) /\ dict' = Remasked(ids, mask)

-----------------------------------------------------------------------------
(* The geofence interface: external *)

\* The geofences of the interface after it has served a command, some adds having failed
Served(cmd, failed) ==
  LET sessions == DOMAIN cmd.asked IN
  CASE cmd.kind = "add" ->
         [s \in DOMAIN monitored \union (sessions \ failed) |->
            IF s \in sessions THEN cmd.mask ELSE monitored[s]]
    [] cmd.kind = "remove" -> [s \in DOMAIN monitored \ sessions |-> monitored[s]]
    [] OTHER -> [s \in DOMAIN monitored |-> IF s \in sessions THEN cmd.mask ELSE monitored[s]]

Failing(cmd, failed) == IF cmd.kind = "add" THEN failed ELSE DOMAIN cmd.asked \ DOMAIN monitored

onCollectiveResponseCb(failed) ==
  LET cmd == Head(commands) IN
  /\ commands # <<>> /\ popped = Idle
  /\ failed \subseteq DOMAIN cmd.asked /\ (cmd.kind # "add" => failed = {})
  /\ commands' = Tail(commands)
  /\ monitored' = Served(cmd, failed)
  /\ IF started /\ requests # <<>>
     THEN /\ popped' = [kind |-> Head(requests).kind, removed |-> Head(requests).removed,
                        cmd |-> cmd, failed |-> Failing(cmd, failed)]
          /\ requests' = Tail(requests)
     ELSE UNCHANGED <<popped, requests>>
  /\ UNCHANGED <<started, dict, nextId, known>>

\* Mutant: a removal looks its ids up in mGeofenceBiDict too.
ReportedId_Dict(request, session) == GetId(dict, session)

\* The ids of the callback: a removal looks them up in its own dictionary.
ReportedId(request, session) ==
  GetId(IF request.kind = "remove" THEN request.removed ELSE dict, session)

onCollectiveResponse ==
  /\ popped # Idle
  /\ known' = IF popped.kind = "add" THEN known \ {ReportedId(popped, s) : s \in popped.failed}
              ELSE known
  /\ popped' = Idle
  /\ UNCHANGED <<started, requests, dict, commands, monitored, nextId>>

\* The ids reported for a breach of sessions: those whose mask has its type.
beforeGeofenceBreachCb(sessions, type) ==
  {GetId(dict, s) : s \in {t \in sessions : type \in GetExtBySession(dict, t, {})}}

Next ==
  \/ \E ids \in (SUBSET Ids) \ {{}} :
        \/ \E mask \in Masks : \/ locAPIAddGeofences(ids, mask)
                              \/ locAPIModifyGeofences(ids, mask)
                              \/ locAPIResumeGeofences(ids, mask)
        \/ locAPIRemoveGeofences(ids)
        \/ locAPIPauseGeofences(ids)
  \/ \E failed \in SUBSET (1 .. MaxSession) : onCollectiveResponseCb(failed)
  \/ onCollectiveResponse

Spec == Init /\ [][Next]_vars

-----------------------------------------------------------------------------
(* Properties *)

\* A collective response is told to the framework as the answer to the call it belongs to,
\* and with the ids that call named; an id is 0 if the geofence was removed in between,
\* and never that of another geofence, even when ids are used again
\* (LocationAPIClientBase.cpp 609-649 and 865-884, LocationAPIClientBase.h 458-534).
ToldRightIds ==
  popped # Idle =>
    /\ popped.kind = popped.cmd.kind
    /\ \A s \in DOMAIN popped.cmd.asked :
          \/ ReportedId(popped, s) = popped.cmd.asked[s]
          \/ popped.kind # "remove" /\ ReportedId(popped, s) = 0

\* The framework is told of a breach only under an id it believes to exist: a geofence that
\* was removed reports no more, although the interface has not removed it yet
\* (LocationAPIClientBase.cpp 629-636 and 778-825).
BreachIsKnown ==
  \A type \in {"enter", "exit"} :
    beforeGeofenceBreachCb({s \in DOMAIN monitored : type \in monitored[s]}, type) \subseteq known

\* Every geofence the interface watches can be reached by its id, or its removal is on the
\* way (LocationAPIClientBase.cpp 584-649).
MonitoredHasId ==
  \A s \in DOMAIN monitored :
    \/ HasSession(dict, s) /\ GetSession(dict, dict.bwd[s]) = s
    \/ \E k \in 1 .. Len(commands) : commands[k].kind = "remove" /\ s \in DOMAIN commands[k].asked
=============================================================================
