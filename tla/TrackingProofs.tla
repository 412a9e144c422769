--------------------------- MODULE TrackingProofs ---------------------------
(***************************************************************************)
(* Theorems about the tracking sessions, for any clients, intervals and    *)
(* modes, any range of session ids and an engine that may refuse commands. *)
(***************************************************************************)
EXTENDS Tracking, TLAPS, SequenceTheorems, WellFoundedInduction

-----------------------------------------------------------------------------
(* The search for the smallest interval *)

\* A set of numbers that is not empty has a least member.
LEMMA LeastNumber ==
  ASSUME NEW T \in SUBSET Nat, T # {}
  PROVE  \E x \in T : \A y \in T : x <= y
  <1>1. \E x \in T : \A y \in T : ~ (<<y, x>> \in OpToRel(<, Nat))
    BY NatLessThanWellFounded, WFMin, Zenon
  <1>2. PICK x \in T : \A y \in T : ~ (<<y, x>> \in OpToRel(<, Nat))
    BY <1>1
  <1>3. \A y \in T : x <= y
    <2> SUFFICES ASSUME NEW y \in T, ~ (x <= y)
                 PROVE  FALSE
      OBVIOUS
    <2>1. x \in Nat /\ y \in Nat /\ y < x
      OBVIOUS
    <2>2. <<y, x>> \in OpToRel(<, Nat)
      BY <2>1, Zenon DEF OpToRel
    <2> QED BY <1>2, <2>2, Zenon
  <1> QED BY <1>3

\* The loop over the sessions of K ends with the options of one of them, and
\* none of K has a smaller interval.
LEMMA SmallestIsLeast ==
  ASSUME IsMap(mTrackingSessions, Key, LocationOptions),
         NEW K \in SUBSET DOMAIN mTrackingSessions, K # {}
  PROVE  \E k \in K : /\ Smallest(K) = mTrackingSessions[k]
                      /\ \A j \in K : mTrackingSessions[k].minInterval
                                        <= mTrackingSessions[j].minInterval
  <1> DEFINE interval(k) == mTrackingSessions[k].minInterval
             Minimal == {k \in K : HasSmallest(k, K)}
             Ids == {k[2] : k \in Minimal}
  <1>1. /\ \A k \in K : k[1] \in Nat /\ k[2] \in Nat /\ k = <<k[1], k[2]>>
        /\ \A k \in K : interval(k) \in Nat
    BY ClientsAssumption, OptionsAssumption, BoundsAssumption
       DEF IsMap, Key, SessionId, LocationOptions
  <1>2. Minimal # {}
    <2>1. {interval(k) : k \in K} \in SUBSET Nat /\ {interval(k) : k \in K} # {}
      BY <1>1
    <2>2. PICK x \in {interval(k) : k \in K} : \A y \in {interval(k) : k \in K} : x <= y
      BY <2>1, LeastNumber
    <2> QED BY <2>2 DEF HasSmallest
  <1>3. PICK id \in Ids : \A y \in Ids : id <= y
    <2>1. Ids \in SUBSET Nat /\ Ids # {}
      BY <1>1, <1>2
    <2> QED BY <2>1, LeastNumber
  <1> DEFINE Cs == {k[1] : k \in {j \in Minimal : j[2] = id}}
  <1>4. PICK c \in Cs : \A y \in Cs : c <= y
    <2>1. Cs \in SUBSET Nat /\ Cs # {}
      BY <1>1, <1>3
    <2> HIDE DEF Cs
    <2> QED BY <2>1, LeastNumber
  <1>5. PICK k \in Minimal : k[2] = id /\ k[1] = c
    BY <1>4
  <1>6. \A j \in K : Before(j, k) => ~ HasSmallest(j, K)
    <2> SUFFICES ASSUME NEW j \in K, Before(j, k), HasSmallest(j, K)
                 PROVE  FALSE
      OBVIOUS
    <2>1. j \in Minimal /\ j[2] \in Ids
      OBVIOUS
    <2>2. j[2] = id /\ j[1] < c
      BY <2>1, <1>1, <1>3, <1>5 DEF Before
    <2>3. j[1] \in Cs
      BY <2>1, <2>2
    <2> QED BY <2>2, <2>3, <1>1, <1>4, <1>5
  <1>7. \E f \in K : /\ Smallest(K) = mTrackingSessions[f]
                     /\ HasSmallest(f, K)
    <2> DEFINE First(f) == HasSmallest(f, K) /\ \A j \in K : Before(j, f) => ~ HasSmallest(j, K)
    <2>1. k \in K /\ First(k)
      BY <1>5, <1>6
    <2>2. (CHOOSE f \in K : First(f)) \in K /\ First(CHOOSE f \in K : First(f))
      <3> HIDE DEF First
      <3> QED BY <2>1
    <2> QED BY <2>2 DEF Smallest
  <1> QED BY <1>7 DEF HasSmallest

\* What the conversion of a session's options gives the engine.
LEMMA ConvertType ==
  ASSUME NEW o \in LocationOptions
  PROVE  convertOptions(o) \in LocPosMode /\ convertOptions(o).min_interval = o.minInterval
  BY DEF convertOptions, LocationOptions, LocPosMode

-----------------------------------------------------------------------------
(* Types *)

\* Saving an entry of a map and erasing one.
LEMMA MapTypes ==
  ASSUME NEW f, NEW S, NEW T, IsMap(f, S, T)
  PROVE  /\ \A x \in S, y \in T : IsMap(With(f, x, y), S, T)
         /\ \A x : IsMap(Without(f, x), S, T)
  BY DEF IsMap, With, Without

\* The fix after a command to the engine that was given options of a session.
LEMMA FixTypes ==
  ASSUME fix \in LocPosMode \cup {NoFix}, NEW err
  PROVE  /\ \A o \in LocationOptions : StartFix(o, err) => fix' \in LocPosMode \cup {NoFix}
         /\ StopFix(err) => fix' \in LocPosMode \cup {NoFix}
         /\ Keep(err) => fix' \in LocPosMode \cup {NoFix}
  BY ConvertType DEF StartFix, StopFix, Keep

\* The options the search ends with are those of a session.
LEMMA SmallestType ==
  ASSUME IsMap(mTrackingSessions, Key, LocationOptions),
         NEW K \in SUBSET DOMAIN mTrackingSessions, K # {}
  PROVE  Smallest(K) \in LocationOptions
  BY SmallestIsLeast DEF IsMap

\* The three multiplexing functions leave a fix of the right type.
LEMMA MultiplexTypes ==
  ASSUME TypeOK, NEW k, NEW err
  PROVE  /\ \A o \in LocationOptions :
              startTrackingMultiplex(o, err) => fix' \in LocPosMode \cup {NoFix}
         /\ \A o \in LocationOptions :
              updateTrackingMultiplex(k, o, err) => fix' \in LocPosMode \cup {NoFix}
         /\ stopTrackingMultiplex(k, err) => fix' \in LocPosMode \cup {NoFix}
  <1>1. Others(k) \in SUBSET DOMAIN mTrackingSessions
    BY DEF Others
  <1>2. Others(k) # {} => Smallest(Others(k)) \in LocationOptions
    BY <1>1, SmallestType DEF TypeOK
  <1>3. fix \in LocPosMode \cup {NoFix}
    BY DEF TypeOK
  <1>4. ASSUME NEW o \in LocationOptions, startTrackingMultiplex(o, err)
        PROVE  fix' \in LocPosMode \cup {NoFix}
    BY <1>3, <1>4, FixTypes DEF startTrackingMultiplex
  <1>5. ASSUME NEW o \in LocationOptions, updateTrackingMultiplex(k, o, err)
        PROVE  fix' \in LocPosMode \cup {NoFix}
    BY <1>2, <1>3, <1>5, FixTypes DEF updateTrackingMultiplex
  <1>6. ASSUME stopTrackingMultiplex(k, err)
        PROVE  fix' \in LocPosMode \cup {NoFix}
    BY <1>2, <1>3, <1>6, FixTypes DEF stopTrackingMultiplex
  <1> QED BY <1>4, <1>5, <1>6

\* The messages of the queue, by construction.
LEMMA MessageTypes ==
  /\ \A c \in Clients, cb \in Callbacks : MsgAddClient(c, cb) \in Msg
  /\ \A c \in Clients : MsgRemoveClient(c) \in Msg
  /\ \A k \in Key, o \in LocationOptions \cup {NoSize} :
       MsgStartTracking(k, o) \in Msg /\ MsgUpdateTracking(k, o) \in Msg
  /\ \A k \in Key : MsgStopTracking(k) \in Msg
  /\ LocSsrMsg \in Msg /\ MsgRestartSessions \in Msg
  BY DEF Msg

\* A message with a session id is one of three kinds.
LEMMA MessageShapes ==
  ASSUME NEW m \in Msg
  PROVE  /\ m.msg = "AddClient" => m.client \in Clients /\ m.callbacks \in Callbacks
         /\ m.msg = "RemoveClient" => m.client \in Clients
         /\ m.msg \in {"StartTracking", "UpdateTracking", "StopTracking"} =>
              m.client \in Clients /\ m.id \in SessionId /\ "id" \in DOMAIN m
         /\ m.msg \in {"StartTracking", "UpdateTracking"} =>
              m.options \in LocationOptions \cup {NoSize}
  <1>1. CASE \E c \in Clients, cb \in Callbacks : m = MsgAddClient(c, cb)
    BY <1>1 DEF MsgAddClient
  <1>2. CASE \E c \in Clients : m = MsgRemoveClient(c)
    BY <1>2 DEF MsgRemoveClient
  <1>3. CASE \E k \in Key, o \in LocationOptions \cup {NoSize} : m = MsgStartTracking(k, o)
    BY <1>3 DEF MsgStartTracking, Key
  <1>4. CASE \E k \in Key, o \in LocationOptions \cup {NoSize} : m = MsgUpdateTracking(k, o)
    BY <1>4 DEF MsgUpdateTracking, Key
  <1>5. CASE \E k \in Key : m = MsgStopTracking(k)
    BY <1>5 DEF MsgStopTracking, Key
  <1>6. CASE m \in {LocSsrMsg, MsgRestartSessions}
    BY <1>6 DEF LocSsrMsg, MsgRestartSessions
  <1> QED BY <1>1, <1>2, <1>3, <1>4, <1>5, <1>6 DEF Msg

\* Taking the first message leaves a queue; the message has its kind's shape.
LEMMA HeadTypes ==
  ASSUME msgQ \in Seq(Msg), NEW kind, IsNext(kind)
  PROVE  /\ msgQ # <<>> /\ Head(msgQ) \in Msg /\ Head(msgQ).msg = kind
         /\ Consume => msgQ' \in Seq(Msg)
  BY DEF IsNext, Consume

\* The calls of the API and the engine's own steps keep the types.
LEMMA OutsideTypes ==
  ASSUME TypeOK,
         \/ \E c \in Clients, cb \in Callbacks : createInstance(c, cb) \/ updateCallbacks(c, cb)
         \/ \E c \in Clients : destroy(c)
         \/ \E c \in Clients, o \in LocationOptions \cup {NoSize} : startTracking(c, o)
         \/ \E k \in Key, o \in LocationOptions \cup {NoSize} : updateTrackingOptions(k, o)
         \/ \E k \in Key : stopTracking(k)
         \/ EngineDown \/ EngineUp \/ handleEngineUpEvent
  PROVE  TypeOK'
  <1> USE DEF TypeOK, apiVars, adapterVars
  <1>1. ASSUME NEW c \in Clients, NEW cb \in Callbacks, createInstance(c, cb) \/ updateCallbacks(c, cb)
        PROVE  TypeOK'
    <2>1. IsMap(clientData', Clients, Callbacks)
      BY <1>1, MapTypes DEF createInstance, updateCallbacks
    <2>2. msgQ' \in Seq(Msg)
      BY <1>1, MessageTypes DEF createInstance, updateCallbacks
    <2> QED BY <1>1, <2>1, <2>2 DEF createInstance, updateCallbacks, IsMap
  <1>2. ASSUME NEW c \in Clients, destroy(c)
        PROVE  TypeOK'
    <2>1. IsMap(clientData', Clients, Callbacks)
      BY <1>2, MapTypes DEF destroy
    <2>2. msgQ' \in Seq(Msg)
      BY <1>2, MessageTypes DEF destroy
    <2> QED BY <1>2, <2>1, <2>2 DEF destroy, IsMap
  <1>3. ASSUME NEW c \in Clients, NEW o \in LocationOptions \cup {NoSize}, startTracking(c, o)
        PROVE  TypeOK'
    <2>1. generateSessionId(mSessionIdCounter) \in SessionId
      BY BoundsAssumption DEF generateSessionId, SessionId
    <2>2. <<c, generateSessionId(mSessionIdCounter)>> \in Key
      BY <2>1 DEF Key
    <2>3. msgQ' \in Seq(Msg)
      BY <1>3, <2>2, MessageTypes DEF startTracking
    <2> QED BY <1>3, <2>1, <2>2, <2>3 DEF startTracking, IsMap
  <1>4. ASSUME NEW k \in Key, NEW o \in LocationOptions \cup {NoSize}, updateTrackingOptions(k, o)
        PROVE  TypeOK'
    BY <1>4, MessageTypes DEF updateTrackingOptions, IsMap
  <1>5. ASSUME NEW k \in Key, stopTracking(k)
        PROVE  TypeOK'
    BY <1>5, MessageTypes DEF stopTracking, IsMap
  <1>6. CASE EngineDown
    BY <1>6 DEF EngineDown, IsMap
  <1>7. CASE EngineUp \/ handleEngineUpEvent
    BY <1>7, MessageTypes DEF EngineUp, handleEngineUpEvent, IsMap
  <1> QED BY <1>1, <1>2, <1>3, <1>4, <1>5, <1>6, <1>7

\* The handlers of the adapter keep the types.
LEMMA HandlerTypes ==
  ASSUME TypeOK, Handle
  PROVE  TypeOK'
  <1> USE DEF TypeOK, apiVars
  <1>1. CASE saveClient
    <2>1. Head(msgQ).client \in Clients /\ Head(msgQ).callbacks \in Callbacks /\ msgQ' \in Seq(Msg)
      BY <1>1, HeadTypes, MessageShapes DEF saveClient
    <2>2. IsMap(mClientData', Clients, Callbacks)
      BY <1>1, <2>1, MapTypes DEF saveClient
    <2> QED BY <1>1, <2>1, <2>2 DEF saveClient, IsMap
  <1>2. CASE handleStartTracking
    <2>1. /\ HeadKey \in Key /\ Head(msgQ).options \in LocationOptions \cup {NoSize}
          /\ msgQ' \in Seq(Msg)
      BY <1>2, HeadTypes, MessageShapes DEF handleStartTracking, HeadKey, Key
    <2>2. fix' \in LocPosMode \cup {NoFix}
      BY <1>2, <2>1, MultiplexTypes DEF handleStartTracking
    <2>3. IsMap(mTrackingSessions', Key, LocationOptions)
      BY <1>2, <2>1, MapTypes DEF handleStartTracking
    <2>4. unanswered' \subseteq Key
      BY <1>2 DEF handleStartTracking, reportResponse
    <2> QED BY <1>2, <2>1, <2>2, <2>3, <2>4 DEF handleStartTracking, IsMap
  <1>3. CASE handleUpdateTracking
    <2>1. /\ HeadKey \in Key /\ Head(msgQ).options \in LocationOptions \cup {NoSize}
          /\ msgQ' \in Seq(Msg)
      BY <1>3, HeadTypes, MessageShapes DEF handleUpdateTracking, HeadKey, Key
    <2>2. fix' \in LocPosMode \cup {NoFix}
      BY <1>3, <2>1, MultiplexTypes DEF handleUpdateTracking
    <2>3. IsMap(mTrackingSessions', Key, LocationOptions)
      BY <1>3, <2>1, MapTypes DEF handleUpdateTracking
    <2> QED BY <1>3, <2>1, <2>2, <2>3 DEF handleUpdateTracking, IsMap
  <1>4. CASE handleStopTracking
    <2>1. msgQ' \in Seq(Msg)
      BY <1>4, HeadTypes DEF handleStopTracking
    <2>2. fix' \in LocPosMode \cup {NoFix}
      BY <1>4, MultiplexTypes DEF handleStopTracking
    <2>3. IsMap(mTrackingSessions', Key, LocationOptions)
      BY <1>4, MapTypes DEF handleStopTracking
    <2> QED BY <1>4, <2>1, <2>2, <2>3 DEF handleStopTracking, IsMap
  <1>5. CASE handleRemoveClient
    <2>1. Head(msgQ).client \in Clients /\ msgQ' \in Seq(Msg)
      BY <1>5, HeadTypes, MessageShapes DEF handleRemoveClient
    <2>2. removing' \in Removing
      BY <1>5, <2>1, BoundsAssumption DEF handleRemoveClient, Removing
    <2> QED BY <1>5, <2>1, <2>2 DEF handleRemoveClient, IsMap
  <1>6. CASE stopClientSession
    <2>1. PICK k \in Unvisited, err \in LocationError :
            /\ stopTrackingMultiplex(k, err)
            /\ removing' = [removing EXCEPT !.from = k[2] + 1]
            /\ mTrackingSessions' = IF err = "SUCCESS" THEN Without(mTrackingSessions, k)
                                                       ELSE mTrackingSessions
            /\ stopRefused' = (stopRefused \/ err # "SUCCESS")
      BY <1>6 DEF stopClientSession
    <2>2. k \in Key /\ k[2] + 1 \in 0 .. SessionIdLimit
      BY BoundsAssumption DEF Unvisited, IsMap, Key, SessionId
    <2>3. removing' \in Removing
      BY <1>6, <2>1, <2>2 DEF stopClientSession, Removing
    <2>4. fix' \in LocPosMode \cup {NoFix}
      BY <2>1, MultiplexTypes
    <2>5. IsMap(mTrackingSessions', Key, LocationOptions)
      BY <2>1, MapTypes
    <2>6. stopRefused' \in BOOLEAN
      BY <2>1
    <2> QED BY <1>6, <2>3, <2>4, <2>5, <2>6 DEF stopClientSession, IsMap
  <1>7. CASE eraseClient
    <2>1. IsMap(mClientData', Clients, Callbacks)
      BY <1>7, MapTypes DEF eraseClient
    <2> QED BY <1>7, <2>1 DEF eraseClient, IsMap
  <1>8. CASE handleSsr
    BY <1>8, HeadTypes DEF handleSsr, IsMap
  <1>9. CASE restartSessions
    <2>1. msgQ' \in Seq(Msg)
      BY <1>9, HeadTypes DEF restartSessions
    <2>2. fix' \in LocPosMode \cup {NoFix}
      BY <1>9, SmallestType, FixTypes DEF restartSessions
    <2> QED BY <1>9, <2>1, <2>2 DEF restartSessions, IsMap
  <1> QED BY <1>1, <1>2, <1>3, <1>4, <1>5, <1>6, <1>7, <1>8, <1>9 DEF Handle

\* Every step keeps the types.
LEMMA TypeStep ==
  ASSUME TypeOK, [Next]_vars
  PROVE  TypeOK'
  <1>1. CASE Next
    BY <1>1, OutsideTypes, HandlerTypes DEF Next
  <1>2. CASE UNCHANGED vars
    BY <1>2 DEF TypeOK, vars, IsMap
  <1> QED BY <1>1, <1>2

\* An initial state has them.
LEMMA TypeInit ==
  ASSUME Init
  PROVE  TypeOK
  <1>1. \A S, T : IsMap(Empty, S, T)
    BY DEF IsMap, Empty
  <1>2. mSessionIdCounter \in SessionId
    BY BoundsAssumption DEF Init, SessionId
  <1>3. msgQ \in Seq(Msg)
    BY DEF Init
  <1> QED BY <1>1, <1>2, <1>3 DEF Init, TypeOK

\* The variables keep their types; in particular the session ids stay below
\* the limit, which stands for requests without a session.
THEOREM TypeCorrect == Spec => []TypeOK
  BY TypeInit, TypeStep, PTL DEF Spec

-----------------------------------------------------------------------------
(* The active fix has the smallest interval.                                *)
(*                                                                          *)
(* A start that overwrote a session could leave the fix with an interval    *)
(* that no session has any more.  It does not, because the key of a queued  *)
(* start is in nobody's use: that is the strengthening the induction needs. *)

IsStart(i) == msgQ[i].msg = "StartTracking"
KeyAt(i) == <<msgQ[i].client, msgQ[i].id>>

FreshStarts ==
  \A i \in DOMAIN msgQ : IsStart(i) =>
    /\ KeyAt(i) \notin DOMAIN mTrackingSessions
    /\ \A j \in DOMAIN msgQ : IsStart(j) /\ KeyAt(i) = KeyAt(j) => i = j

Inv == TypeOK /\ ActiveIsSmallest /\ FreshStarts

\* A fix with interval n serves the sessions s.
Serves(n, s) ==
  /\ \E k \in DOMAIN s : s[k].minInterval = n
  /\ \A k \in DOMAIN s : n <= s[k].minInterval

\* Saving a session that is new: the smaller of the two intervals serves.
LEMMA ServesAdded ==
  ASSUME IsMap(mTrackingSessions, Key, LocationOptions), NEW k \in Key, NEW o \in LocationOptions,
         k \notin DOMAIN mTrackingSessions
  PROVE  /\ (\A j \in DOMAIN mTrackingSessions : o.minInterval <= mTrackingSessions[j].minInterval)
              => Serves(o.minInterval, With(mTrackingSessions, k, o))
         /\ \A n \in Nat : Serves(n, mTrackingSessions) /\ n <= o.minInterval
              => Serves(n, With(mTrackingSessions, k, o))
  BY OptionsAssumption DEF Serves, With, IsMap, LocationOptions

\* A new value for a session: what serves the others and the new value.
LEMMA ServesUpdated ==
  ASSUME IsMap(mTrackingSessions, Key, LocationOptions), NEW k \in DOMAIN mTrackingSessions,
         NEW o \in LocationOptions
  PROVE  /\ (\A j \in Others(k) : o.minInterval <= mTrackingSessions[j].minInterval)
              => Serves(o.minInterval, With(mTrackingSessions, k, o))
         /\ \A n \in Nat :
              /\ \E j \in Others(k) : mTrackingSessions[j].minInterval = n
              /\ \A j \in Others(k) : n <= mTrackingSessions[j].minInterval
              /\ n <= o.minInterval
              => Serves(n, With(mTrackingSessions, k, o))
  BY OptionsAssumption DEF Serves, With, Others, IsMap, LocationOptions

\* Without a session: what serves the others.
LEMMA ServesRemoved ==
  ASSUME IsMap(mTrackingSessions, Key, LocationOptions), NEW k \in DOMAIN mTrackingSessions
  PROVE  \A n \in Nat :
           /\ \E j \in Others(k) : mTrackingSessions[j].minInterval = n
           /\ \A j \in Others(k) : n <= mTrackingSessions[j].minInterval
           => Serves(n, Without(mTrackingSessions, k))
  BY DEF Serves, Without, Others, IsMap

\* A fix that serves all sessions also serves those other than k, if k has not
\* the smallest interval alone.
LEMMA ServesOthers ==
  ASSUME IsMap(mTrackingSessions, Key, LocationOptions), NEW k \in DOMAIN mTrackingSessions,
         Others(k) # {}, NEW n \in Nat, Serves(n, mTrackingSessions),
         ~ (mTrackingSessions[k].minInterval < Smallest(Others(k)).minInterval)
  PROVE  /\ \E j \in Others(k) : mTrackingSessions[j].minInterval = n
         /\ \A j \in Others(k) : n <= mTrackingSessions[j].minInterval
         /\ n = Smallest(Others(k)).minInterval
  <1>1. PICK f \in Others(k) :
          /\ Smallest(Others(k)) = mTrackingSessions[f]
          /\ \A j \in Others(k) : mTrackingSessions[f].minInterval <= mTrackingSessions[j].minInterval
    BY SmallestIsLeast DEF Others
  <1>2. \A j \in DOMAIN mTrackingSessions : mTrackingSessions[j].minInterval \in Nat
    BY OptionsAssumption DEF IsMap, LocationOptions
  <1>3. n = mTrackingSessions[f].minInterval
    BY <1>1, <1>2 DEF Serves, Others
  <1> QED BY <1>1, <1>3

\* ActiveIsSmallest in these terms.
LEMMA ActiveServes ==
  /\ ActiveIsSmallest <=> (fix # NoFix => Serves(fix.min_interval, mTrackingSessions))
  /\ ActiveIsSmallest' <=> (fix' # NoFix => Serves(fix'.min_interval, mTrackingSessions'))
  BY DEF ActiveIsSmallest, Serves

\* A command the engine refused changes neither the fix nor the sessions.
LEMMA RefusedKeeps ==
  ASSUME NEW err, err # "SUCCESS", NEW k
  PROVE  /\ \A o : startTrackingMultiplex(o, err) => UNCHANGED fix
         /\ \A o : updateTrackingMultiplex(k, o, err) => UNCHANGED fix
         /\ stopTrackingMultiplex(k, err) => UNCHANGED fix
  BY DEF startTrackingMultiplex, updateTrackingMultiplex, stopTrackingMultiplex, StartFix, StopFix,
         Keep

\* The interval of a fix is a number, and that of a session too.
LEMMA IntervalTypes ==
  ASSUME TypeOK
  PROVE  /\ fix # NoFix => fix.min_interval \in Nat
         /\ \A o \in LocationOptions : o.minInterval \in Nat
         /\ \A k \in DOMAIN mTrackingSessions : mTrackingSessions[k] \in LocationOptions
         /\ IsMap(mTrackingSessions, Key, LocationOptions)
  BY OptionsAssumption DEF TypeOK, LocPosMode, LocationOptions, IsMap

\* startTrackingMultiplex and saveTrackingSession, for a key that is not in use.
LEMMA StartServes ==
  ASSUME TypeOK, ActiveIsSmallest, NEW k \in Key, k \notin DOMAIN mTrackingSessions,
         NEW o \in LocationOptions, NEW err, startTrackingMultiplex(o, err),
         mTrackingSessions' = IF err = "SUCCESS" THEN With(mTrackingSessions, k, o)
                                                 ELSE mTrackingSessions
  PROVE  ActiveIsSmallest'
  <1> DEFINE K == DOMAIN mTrackingSessions
  <1>1. CASE err # "SUCCESS"
    BY <1>1, RefusedKeeps DEF ActiveIsSmallest
  <1>2. CASE err = "SUCCESS" /\ (K = {} \/ o.minInterval < Smallest(K).minInterval)
    <2>1. fix' = convertOptions(o) /\ fix'.min_interval = o.minInterval
      BY <1>2, ConvertType DEF startTrackingMultiplex, StartFix
    <2>2. \A j \in K : o.minInterval <= mTrackingSessions[j].minInterval
      <3>1. CASE K = {}
        BY <3>1
      <3>2. CASE K # {}
        <4>1. PICK f \in K : /\ Smallest(K) = mTrackingSessions[f]
                             /\ \A j \in K : mTrackingSessions[f].minInterval
                                              <= mTrackingSessions[j].minInterval
          BY <3>2, SmallestIsLeast, IntervalTypes
        <4> QED BY <1>2, <4>1, IntervalTypes
      <3> QED BY <3>1, <3>2
    <2> QED BY <1>2, <2>1, <2>2, ServesAdded, ActiveServes, IntervalTypes
  <1>3. CASE err = "SUCCESS" /\ K # {} /\ ~ (o.minInterval < Smallest(K).minInterval)
    <2>1. fix' = fix
      BY <1>3 DEF startTrackingMultiplex, Keep
    <2>2. PICK f \in K : Smallest(K) = mTrackingSessions[f]
      BY <1>3, SmallestIsLeast, IntervalTypes
    <2>3. fix # NoFix => fix.min_interval <= o.minInterval
      BY <1>3, <2>2, IntervalTypes DEF ActiveIsSmallest
    <2> QED BY <1>3, <2>1, <2>3, ServesAdded, ActiveServes, IntervalTypes
  <1> QED BY <1>1, <1>2, <1>3

\* updateTrackingMultiplex and saveTrackingSession, for a session.
LEMMA UpdateServes ==
  ASSUME TypeOK, ActiveIsSmallest, NEW k \in DOMAIN mTrackingSessions,
         NEW o \in LocationOptions, NEW err, updateTrackingMultiplex(k, o, err),
         mTrackingSessions' = IF err = "SUCCESS" THEN With(mTrackingSessions, k, o)
                                                 ELSE mTrackingSessions
  PROVE  ActiveIsSmallest'
  <1> DEFINE next == Smallest(Others(k))
  <1>1. CASE err # "SUCCESS"
    BY <1>1, RefusedKeeps DEF ActiveIsSmallest
  <1>2. Others(k) # {} =>
          \E f \in Others(k) : /\ next = mTrackingSessions[f]
                               /\ \A j \in Others(k) : mTrackingSessions[f].minInterval
                                                       <= mTrackingSessions[j].minInterval
    BY SmallestIsLeast, IntervalTypes DEF Others
  <1>3. Others(k) # {} => /\ next \in LocationOptions
                          /\ \E j \in Others(k) : mTrackingSessions[j].minInterval = next.minInterval
                          /\ \A j \in Others(k) : next.minInterval <= mTrackingSessions[j].minInterval
    BY <1>2, IntervalTypes DEF Others
  <1>4. \A j \in Others(k) : mTrackingSessions[j].minInterval \in Nat
    BY IntervalTypes DEF Others
  <1> HIDE DEF next
  <1>5. CASE err = "SUCCESS" /\ (Others(k) = {} \/ o.minInterval < next.minInterval)
    <2>1. fix' = convertOptions(o) /\ fix'.min_interval = o.minInterval
      BY <1>5, ConvertType DEF updateTrackingMultiplex, StartFix, next
    <2>2. \A j \in Others(k) : o.minInterval <= mTrackingSessions[j].minInterval
      BY <1>3, <1>4, <1>5, IntervalTypes
    <2> QED BY <1>5, <2>1, <2>2, ServesUpdated, ActiveServes, IntervalTypes
  <1>6. CASE /\ err = "SUCCESS" /\ Others(k) # {} /\ ~ (o.minInterval < next.minInterval)
             /\ mTrackingSessions[k].minInterval < next.minInterval
    <2>1. fix' = convertOptions(next) /\ fix'.min_interval = next.minInterval
      BY <1>3, <1>6, ConvertType DEF updateTrackingMultiplex, StartFix, next
    <2>2. next.minInterval \in Nat /\ next.minInterval <= o.minInterval
      BY <1>3, <1>6, IntervalTypes
    <2> QED BY <1>3, <1>6, <2>1, <2>2, ServesUpdated, ActiveServes, IntervalTypes
  <1>7. CASE /\ err = "SUCCESS" /\ Others(k) # {} /\ ~ (o.minInterval < next.minInterval)
             /\ ~ (mTrackingSessions[k].minInterval < next.minInterval)
    <2>1. fix' = fix
      BY <1>7 DEF updateTrackingMultiplex, Keep, next
    <2>2. CASE fix = NoFix
      BY <2>1, <2>2, ActiveServes
    <2>3. CASE fix # NoFix
      <3>1. fix.min_interval \in Nat /\ Serves(fix.min_interval, mTrackingSessions)
        BY <2>3, ActiveServes, IntervalTypes
      <3>2. /\ \E j \in Others(k) : mTrackingSessions[j].minInterval = fix.min_interval
            /\ \A j \in Others(k) : fix.min_interval <= mTrackingSessions[j].minInterval
            /\ fix.min_interval = next.minInterval
        BY <1>7, <3>1, ServesOthers, IntervalTypes DEF next
      <3>3. fix.min_interval <= o.minInterval
        BY <1>3, <1>7, <3>2, IntervalTypes
      <3> QED BY <1>7, <2>1, <3>1, <3>2, <3>3, ServesUpdated, ActiveServes, IntervalTypes
    <2> QED BY <2>2, <2>3
  <1> QED BY <1>1, <1>5, <1>6, <1>7

\* stopTrackingMultiplex and the erasing of the session.
LEMMA StopServes ==
  ASSUME TypeOK, ActiveIsSmallest, NEW k \in DOMAIN mTrackingSessions,
         NEW err, stopTrackingMultiplex(k, err),
         mTrackingSessions' = IF err = "SUCCESS" THEN Without(mTrackingSessions, k)
                                                 ELSE mTrackingSessions
  PROVE  ActiveIsSmallest'
  <1> DEFINE next == Smallest(Others(k))
  <1>1. CASE err # "SUCCESS"
    BY <1>1, RefusedKeeps DEF ActiveIsSmallest
  <1>2. CASE err = "SUCCESS" /\ Others(k) = {}
    BY <1>2, ActiveServes DEF stopTrackingMultiplex, StopFix
  <1>3. CASE err = "SUCCESS" /\ Others(k) # {} /\ mTrackingSessions[k].minInterval < next.minInterval
    <2>1. PICK f \in Others(k) :
            /\ next = mTrackingSessions[f]
            /\ \A j \in Others(k) : mTrackingSessions[f].minInterval
                                     <= mTrackingSessions[j].minInterval
      BY <1>3, SmallestIsLeast, IntervalTypes DEF Others
    <2>2. next \in LocationOptions /\ next.minInterval \in Nat
      BY <2>1, IntervalTypes DEF Others
    <2>3. fix' = convertOptions(next) /\ fix'.min_interval = next.minInterval
      BY <1>3, <2>2, ConvertType DEF stopTrackingMultiplex, StartFix
    <2> HIDE DEF next
    <2> QED BY <1>3, <2>1, <2>2, <2>3, ServesRemoved, ActiveServes, IntervalTypes
  <1>4. CASE err = "SUCCESS" /\ Others(k) # {} /\ ~ (mTrackingSessions[k].minInterval < next.minInterval)
    <2>1. fix' = fix
      BY <1>4 DEF stopTrackingMultiplex, Keep
    <2>2. CASE fix = NoFix
      BY <2>1, <2>2, ActiveServes
    <2>3. CASE fix # NoFix
      <3>1. fix.min_interval \in Nat /\ Serves(fix.min_interval, mTrackingSessions)
        BY <2>3, ActiveServes, IntervalTypes
      <3>2. /\ \E j \in Others(k) : mTrackingSessions[j].minInterval = fix.min_interval
            /\ \A j \in Others(k) : fix.min_interval <= mTrackingSessions[j].minInterval
        BY <1>4, <3>1, ServesOthers, IntervalTypes
      <3> QED BY <1>4, <2>1, <3>1, <3>2, ServesRemoved, ActiveServes, IntervalTypes
    <2> QED BY <2>2, <2>3
  <1> QED BY <1>1, <1>2, <1>3, <1>4

\* Handling a message keeps the other starts fresh: at most the session of the
\* start that was handled is new.
LEMMA ConsumeFresh ==
  ASSUME msgQ \in Seq(Msg), msgQ # <<>>, FreshStarts, Consume,
         \/ DOMAIN mTrackingSessions' \subseteq DOMAIN mTrackingSessions
         \/ /\ Head(msgQ).msg = "StartTracking"
            /\ DOMAIN mTrackingSessions' \subseteq DOMAIN mTrackingSessions \cup {HeadKey}
  PROVE  FreshStarts'
  <1>1. /\ DOMAIN msgQ = 1 .. Len(msgQ) /\ Len(msgQ) \in Nat /\ Head(msgQ) = msgQ[1]
        /\ 1 \in DOMAIN msgQ
    OBVIOUS
  <1>2. DOMAIN msgQ' = 1 .. (Len(msgQ) - 1) /\ \A i \in DOMAIN msgQ' : msgQ'[i] = msgQ[i + 1]
    BY DEF Consume
  <1>3. \A i \in DOMAIN msgQ' : i + 1 \in DOMAIN msgQ /\ i + 1 # 1
    BY <1>1, <1>2
  <1> SUFFICES ASSUME NEW i \in DOMAIN msgQ', IsStart(i)'
               PROVE  /\ KeyAt(i)' \notin DOMAIN mTrackingSessions'
                      /\ \A j \in DOMAIN msgQ' : IsStart(j)' /\ KeyAt(i)' = KeyAt(j)' => i = j
    BY DEF FreshStarts
  <1>4. IsStart(i + 1) /\ KeyAt(i)' = KeyAt(i + 1)
    BY <1>2 DEF IsStart, KeyAt
  <1>5. KeyAt(i + 1) \notin DOMAIN mTrackingSessions
    BY <1>3, <1>4 DEF FreshStarts
  <1>6. Head(msgQ).msg = "StartTracking" => KeyAt(i + 1) # HeadKey
    <2> SUFFICES ASSUME Head(msgQ).msg = "StartTracking", KeyAt(i + 1) = HeadKey
                 PROVE  FALSE
      OBVIOUS
    <2>1. IsStart(1) /\ KeyAt(1) = KeyAt(i + 1)
      BY <1>1 DEF IsStart, KeyAt, HeadKey
    <2> QED BY <1>1, <1>3, <1>4, <2>1 DEF FreshStarts
  <1>7. ASSUME NEW j \in DOMAIN msgQ', IsStart(j)', KeyAt(i)' = KeyAt(j)'
        PROVE  i = j
    <2>1. IsStart(j + 1) /\ KeyAt(j)' = KeyAt(j + 1)
      BY <1>2, <1>7 DEF IsStart, KeyAt
    <2>2. i + 1 = j + 1
      BY <1>3, <1>4, <1>7, <2>1 DEF FreshStarts
    <2> QED BY <1>2, <2>2
  <1> QED BY <1>4, <1>5, <1>6, <1>7

\* Posting a message keeps the starts fresh if it is not a start, or a start
\* with a key that is not in use.
LEMMA AppendFresh ==
  ASSUME msgQ \in Seq(Msg), FreshStarts, NEW m \in Msg, msgQ' = Append(msgQ, m),
         UNCHANGED mTrackingSessions,
         m.msg = "StartTracking" => Unused(<<m.client, m.id>>)
  PROVE  FreshStarts'
  <1> PICK n \in Nat : n = Len(msgQ)
    OBVIOUS
  <1>1. /\ DOMAIN msgQ = 1 .. n
        /\ DOMAIN msgQ' = 1 .. (n + 1)
        /\ \A i \in DOMAIN msgQ : msgQ'[i] = msgQ[i]
        /\ msgQ'[n + 1] = m
    OBVIOUS
  <1>2. \A i \in DOMAIN msgQ : /\ IsStart(i)' <=> IsStart(i)
                               /\ KeyAt(i)' = KeyAt(i)
    BY <1>1 DEF IsStart, KeyAt
  <1>3. \A i \in DOMAIN msgQ' : i \in DOMAIN msgQ \/ i = n + 1
    BY <1>1
  <1>4. \A i \in DOMAIN msgQ : IsStart(i) /\ m.msg = "StartTracking" => KeyAt(i) # <<m.client, m.id>>
    <2> SUFFICES ASSUME NEW i \in DOMAIN msgQ, IsStart(i), m.msg = "StartTracking"
                 PROVE  KeyAt(i) # <<m.client, m.id>>
      OBVIOUS
    <2>1. msgQ[i] \in Msg
      OBVIOUS
    <2>2. "id" \in DOMAIN msgQ[i]
      BY <2>1, MessageShapes DEF IsStart
    <2> QED BY <2>2 DEF Unused, KeyAt
  <1>5. /\ IsStart(n + 1)' <=> m.msg = "StartTracking"
        /\ KeyAt(n + 1)' = <<m.client, m.id>>
    BY <1>1 DEF IsStart, KeyAt
  <1> SUFFICES ASSUME NEW i \in DOMAIN msgQ', IsStart(i)'
               PROVE  /\ KeyAt(i)' \notin DOMAIN mTrackingSessions
                      /\ \A j \in DOMAIN msgQ' : IsStart(j)' /\ KeyAt(i)' = KeyAt(j)' => i = j
    BY DEF FreshStarts
  <1>6. CASE i \in DOMAIN msgQ
    BY <1>2, <1>3, <1>4, <1>5, <1>6 DEF FreshStarts
  <1>7. CASE i = n + 1
    BY <1>2, <1>3, <1>4, <1>5, <1>7 DEF Unused
  <1> QED BY <1>3, <1>6, <1>7

\* Sessions that end leave the starts fresh.
LEMMA ShrinkFresh ==
  ASSUME FreshStarts, UNCHANGED msgQ,
         DOMAIN mTrackingSessions' \subseteq DOMAIN mTrackingSessions
  PROVE  FreshStarts'
  BY DEF FreshStarts, IsStart, KeyAt

\* The calls of the API and the engine's own steps.
LEMMA OutsideStep ==
  ASSUME Inv,
         \/ \E c \in Clients, cb \in Callbacks : createInstance(c, cb) \/ updateCallbacks(c, cb)
         \/ \E c \in Clients : destroy(c)
         \/ \E c \in Clients, o \in LocationOptions \cup {NoSize} : startTracking(c, o)
         \/ \E k \in Key, o \in LocationOptions \cup {NoSize} : updateTrackingOptions(k, o)
         \/ \E k \in Key : stopTracking(k)
         \/ EngineDown \/ EngineUp \/ handleEngineUpEvent
  PROVE  ActiveIsSmallest' /\ FreshStarts'
  <1>1. msgQ \in Seq(Msg) /\ FreshStarts /\ ActiveIsSmallest
    BY DEF Inv, TypeOK
  <1>2. UNCHANGED mTrackingSessions /\ (UNCHANGED fix \/ fix' = NoFix)
    BY DEF adapterVars, createInstance, updateCallbacks, destroy, startTracking,
           updateTrackingOptions, stopTracking, EngineDown, EngineUp, handleEngineUpEvent
  <1>3. ActiveIsSmallest'
    BY <1>1, <1>2 DEF ActiveIsSmallest
  <1>4. ASSUME UNCHANGED msgQ
        PROVE  FreshStarts'
    <2>1. DOMAIN mTrackingSessions' \subseteq DOMAIN mTrackingSessions
      BY <1>2
    <2> QED BY <1>1, <1>4, <2>1, ShrinkFresh
  <1>5. ASSUME NEW m \in Msg, msgQ' = Append(msgQ, m), m.msg # "StartTracking"
        PROVE  FreshStarts'
    BY <1>1, <1>2, <1>5, AppendFresh
  <1>6. ASSUME NEW c \in Clients, NEW cb \in Callbacks, createInstance(c, cb) \/ updateCallbacks(c, cb)
        PROVE  FreshStarts'
    <2>1. MsgAddClient(c, cb) \in Msg /\ MsgAddClient(c, cb).msg # "StartTracking"
      BY MessageTypes DEF MsgAddClient
    <2> QED BY <1>4, <1>5, <1>6, <2>1 DEF createInstance, updateCallbacks
  <1>7. ASSUME NEW c \in Clients, destroy(c)
        PROVE  FreshStarts'
    <2>1. MsgRemoveClient(c) \in Msg /\ MsgRemoveClient(c).msg # "StartTracking"
      BY MessageTypes DEF MsgRemoveClient
    <2> QED BY <1>4, <1>5, <1>7, <2>1 DEF destroy
  <1>8. ASSUME NEW c \in Clients, NEW o \in LocationOptions \cup {NoSize}, startTracking(c, o)
        PROVE  FreshStarts'
    <2> DEFINE k == <<c, generateSessionId(mSessionIdCounter)>>
               m == MsgStartTracking(k, o)
    <2>1. k \in Key
      BY BoundsAssumption DEF Inv, TypeOK, generateSessionId, SessionId, Key
    <2>2. m \in Msg /\ <<m.client, m.id>> = k
      BY <2>1, MessageTypes DEF MsgStartTracking
    <2>3. Unused(k) /\ msgQ' = Append(msgQ, m)
      BY <1>8 DEF startTracking
    <2> HIDE DEF k, m
    <2> QED BY <1>1, <1>2, <2>2, <2>3, AppendFresh
  <1>9. ASSUME NEW k \in Key, NEW o \in LocationOptions \cup {NoSize}, updateTrackingOptions(k, o)
        PROVE  FreshStarts'
    <2>1. MsgUpdateTracking(k, o) \in Msg /\ MsgUpdateTracking(k, o).msg # "StartTracking"
      BY MessageTypes DEF MsgUpdateTracking
    <2> QED BY <1>5, <1>9, <2>1 DEF updateTrackingOptions
  <1>10. ASSUME NEW k \in Key, stopTracking(k)
         PROVE  FreshStarts'
    <2>1. MsgStopTracking(k) \in Msg /\ MsgStopTracking(k).msg # "StartTracking"
      BY MessageTypes DEF MsgStopTracking
    <2> QED BY <1>5, <1>10, <2>1 DEF stopTracking
  <1>11. CASE EngineDown
    BY <1>3, <1>4, <1>11 DEF EngineDown
  <1>12. CASE EngineUp \/ handleEngineUpEvent
    <2>1. /\ LocSsrMsg \in Msg /\ LocSsrMsg.msg # "StartTracking"
          /\ MsgRestartSessions \in Msg /\ MsgRestartSessions.msg # "StartTracking"
      BY MessageTypes DEF LocSsrMsg, MsgRestartSessions
    <2>2. msgQ' = Append(msgQ, LocSsrMsg) \/ msgQ' = Append(msgQ, MsgRestartSessions)
      BY <1>12 DEF EngineUp, handleEngineUpEvent
    <2> QED BY <1>3, <1>5, <2>1, <2>2
  <1> QED BY <1>3, <1>6, <1>7, <1>8, <1>9, <1>10, <1>11, <1>12

\* The handlers of the adapter.
LEMMA HandlerStep ==
  ASSUME Inv, Handle
  PROVE  ActiveIsSmallest' /\ FreshStarts'
  <1>1. TypeOK /\ msgQ \in Seq(Msg) /\ FreshStarts /\ ActiveIsSmallest
    BY DEF Inv, TypeOK
  <1>2. CASE saveClient \/ handleRemoveClient \/ handleSsr
    <2>1. /\ msgQ # <<>> /\ Consume /\ UNCHANGED mTrackingSessions
          /\ UNCHANGED fix \/ fix' = NoFix
      BY <1>2 DEF saveClient, handleRemoveClient, handleSsr, IsNext
    <2>2. FreshStarts'
      BY <1>1, <2>1, ConsumeFresh
    <2> QED BY <1>1, <2>1, <2>2 DEF ActiveIsSmallest
  <1>3. CASE handleStartTracking
    <2>1. /\ msgQ # <<>> /\ Consume /\ Head(msgQ).msg = "StartTracking"
          /\ HeadKey \in Key /\ Head(msgQ).options \in LocationOptions \cup {NoSize}
      BY <1>1, <1>3, HeadTypes, MessageShapes DEF handleStartTracking, HeadKey, Key
    <2>2. HeadKey \notin DOMAIN mTrackingSessions
      <3>1. 1 \in DOMAIN msgQ /\ Head(msgQ) = msgQ[1]
        BY <1>1, <2>1
      <3> QED BY <1>1, <2>1, <3>1 DEF FreshStarts, IsStart, KeyAt, HeadKey
    <2>3. CASE UNCHANGED <<fix, mTrackingSessions>>
      BY <1>1, <2>1, <2>3, ConsumeFresh DEF ActiveIsSmallest
    <2>4. ASSUME NEW err \in LocationError, Head(msgQ).options # NoSize,
                 startTrackingMultiplex(Head(msgQ).options, err),
                 mTrackingSessions' = IF err = "SUCCESS"
                                        THEN With(mTrackingSessions, HeadKey, Head(msgQ).options)
                                        ELSE mTrackingSessions
          PROVE  ActiveIsSmallest' /\ FreshStarts'
      <3>1. Head(msgQ).options \in LocationOptions
        BY <2>1, <2>4
      <3>2. ActiveIsSmallest'
        BY <1>1, <2>1, <2>2, <2>4, <3>1, StartServes
      <3>3. DOMAIN mTrackingSessions' \subseteq DOMAIN mTrackingSessions \cup {HeadKey}
        BY <2>4 DEF With
      <3> QED BY <1>1, <2>1, <3>2, <3>3, ConsumeFresh
    <2> QED BY <1>3, <2>3, <2>4 DEF handleStartTracking
  <1>4. CASE handleUpdateTracking
    <2>1. /\ msgQ # <<>> /\ Consume
          /\ Head(msgQ).options \in LocationOptions \cup {NoSize}
      BY <1>1, <1>4, HeadTypes, MessageShapes DEF handleUpdateTracking
    <2>2. CASE UNCHANGED <<fix, mTrackingSessions>>
      BY <1>1, <2>1, <2>2, ConsumeFresh DEF ActiveIsSmallest
    <2>3. ASSUME NEW err \in LocationError, Head(msgQ).options # NoSize,
                 HeadKey \in DOMAIN mTrackingSessions,
                 updateTrackingMultiplex(HeadKey, Head(msgQ).options, err),
                 mTrackingSessions' = IF err = "SUCCESS"
                                        THEN With(mTrackingSessions, HeadKey, Head(msgQ).options)
                                        ELSE mTrackingSessions
          PROVE  ActiveIsSmallest' /\ FreshStarts'
      <3>1. Head(msgQ).options \in LocationOptions
        BY <2>1, <2>3
      <3>2. ActiveIsSmallest'
        BY <1>1, <2>3, <3>1, UpdateServes
      <3>3. DOMAIN mTrackingSessions' \subseteq DOMAIN mTrackingSessions
        BY <2>3 DEF With
      <3> QED BY <1>1, <2>1, <3>2, <3>3, ConsumeFresh
    <2> QED BY <1>4, <2>2, <2>3 DEF handleUpdateTracking, isTrackingSession
  <1>5. CASE handleStopTracking
    <2>1. msgQ # <<>> /\ Consume
      BY <1>5 DEF handleStopTracking, IsNext
    <2>2. CASE UNCHANGED <<fix, mTrackingSessions>>
      BY <1>1, <2>1, <2>2, ConsumeFresh DEF ActiveIsSmallest
    <2>3. ASSUME NEW err \in LocationError, HeadKey \in DOMAIN mTrackingSessions,
                 stopTrackingMultiplex(HeadKey, err),
                 mTrackingSessions' = IF err = "SUCCESS" THEN Without(mTrackingSessions, HeadKey)
                                                         ELSE mTrackingSessions
          PROVE  ActiveIsSmallest' /\ FreshStarts'
      <3>1. ActiveIsSmallest'
        BY <1>1, <2>3, StopServes
      <3>2. DOMAIN mTrackingSessions' \subseteq DOMAIN mTrackingSessions
        BY <2>3 DEF Without
      <3> QED BY <1>1, <2>1, <3>1, <3>2, ConsumeFresh
    <2> QED BY <1>5, <2>2, <2>3 DEF handleStopTracking, isTrackingSession
  <1>6. CASE stopClientSession
    <2>1. PICK k \in Unvisited, err \in LocationError :
            /\ stopTrackingMultiplex(k, err)
            /\ mTrackingSessions' = IF err = "SUCCESS" THEN Without(mTrackingSessions, k)
                                                       ELSE mTrackingSessions
      BY <1>6 DEF stopClientSession
    <2>2. k \in DOMAIN mTrackingSessions
      BY DEF Unvisited
    <2>3. ActiveIsSmallest'
      BY <1>1, <2>1, <2>2, StopServes
    <2>4. DOMAIN mTrackingSessions' \subseteq DOMAIN mTrackingSessions
      BY <2>1 DEF Without
    <2> QED BY <1>1, <1>6, <2>3, <2>4, ShrinkFresh DEF stopClientSession
  <1>7. CASE eraseClient
    BY <1>1, <1>7, ShrinkFresh DEF eraseClient, ActiveIsSmallest
  <1>8. CASE restartSessions
    <2>1. msgQ # <<>> /\ Consume /\ UNCHANGED mTrackingSessions
      BY <1>8 DEF restartSessions, IsNext
    <2>2. FreshStarts'
      BY <1>1, <2>1, ConsumeFresh
    <2>3. CASE UNCHANGED fix
      BY <1>1, <2>1, <2>2, <2>3 DEF ActiveIsSmallest
    <2>4. CASE /\ DOMAIN mTrackingSessions # {}
               /\ fix' = convertOptions(Smallest(DOMAIN mTrackingSessions))
      <3>1. PICK k \in DOMAIN mTrackingSessions :
              /\ Smallest(DOMAIN mTrackingSessions) = mTrackingSessions[k]
              /\ \A j \in DOMAIN mTrackingSessions :
                   mTrackingSessions[k].minInterval <= mTrackingSessions[j].minInterval
        BY <1>1, <2>4, SmallestIsLeast, IntervalTypes
      <3>2. fix'.min_interval = mTrackingSessions[k].minInterval
        BY <1>1, <2>4, <3>1, ConvertType, IntervalTypes
      <3> QED BY <2>1, <2>2, <3>1, <3>2 DEF ActiveIsSmallest
    <2> QED BY <1>8, <2>3, <2>4 DEF restartSessions, StartFix
  <1> QED BY <1>2, <1>3, <1>4, <1>5, <1>6, <1>7, <1>8 DEF Handle

\* The fix the engine runs has the smallest interval of all sessions, for every
\* instance (startTrackingMultiplex, updateTrackingMultiplex,
\* stopTrackingMultiplex, stopClientSessions and restartSessions).
THEOREM SmallestIsActive == Spec => []ActiveIsSmallest
  <1>1. Init => Inv
    <2>1. Init => ActiveIsSmallest /\ FreshStarts
      BY DEF Init, ActiveIsSmallest, FreshStarts
    <2> QED BY <2>1, TypeInit DEF Inv
  <1>2. Inv /\ [Next]_vars => Inv'
    <2> SUFFICES ASSUME Inv, [Next]_vars
                 PROVE  Inv'
      OBVIOUS
    <2>1. TypeOK'
      BY TypeStep DEF Inv
    <2>2. CASE Next
      BY <2>1, <2>2, OutsideStep, HandlerStep DEF Next, Inv
    <2>3. CASE UNCHANGED vars
      <3>1. FreshStarts'
        BY <2>3, ShrinkFresh DEF vars, Inv
      <3> QED BY <2>1, <2>3, <3>1 DEF vars, Inv, ActiveIsSmallest
    <2> QED BY <2>2, <2>3
  <1>3. Inv => ActiveIsSmallest
    BY DEF Inv
  <1> QED BY <1>1, <1>2, <1>3, PTL DEF Spec

-----------------------------------------------------------------------------
(* Sessions have a fix again after the engine came up.                      *)
(*                                                                          *)
(* LocSsrMsg ends the fix after the sessions of commands handled before it  *)
(* were started.  What saves them is the order of the two messages of the   *)
(* engine: no LocSsrMsg waits in the queue without a restart behind it,     *)
(* unless the restart has still to be posted.                               *)

RestartFollows ==
  \A i \in DOMAIN msgQ : msgQ[i] = LocSsrMsg =>
    engine # "up" \/ \E j \in DOMAIN msgQ : j > i /\ msgQ[j] = MsgRestartSessions

Recovers == TypeOK /\ SessionsAreServed /\ RestartFollows

\* The queue after a message is posted.
LEMMA PostedQueue ==
  ASSUME msgQ \in Seq(Msg), NEW m, msgQ' = Append(msgQ, m)
  PROVE  \E n \in Nat : /\ DOMAIN msgQ = 1 .. n
                        /\ DOMAIN msgQ' = 1 .. (n + 1)
                        /\ \A i \in 1 .. n : msgQ'[i] = msgQ[i]
                        /\ msgQ'[n + 1] = m
  <1>1. Len(msgQ) \in Nat
    OBVIOUS
  <1> WITNESS Len(msgQ) \in Nat
  <1> QED OBVIOUS

\* The queue after its first message is taken.
LEMMA ConsumedQueue ==
  ASSUME msgQ \in Seq(Msg), msgQ # <<>>, Consume
  PROVE  \E n \in Nat \ {0} : /\ DOMAIN msgQ = 1 .. n
                              /\ DOMAIN msgQ' = 1 .. (n - 1)
                              /\ \A i \in 1 .. (n - 1) : msgQ'[i] = msgQ[i + 1]
                              /\ msgQ[1] = Head(msgQ)
  <1>1. Len(msgQ) \in Nat \ {0}
    OBVIOUS
  <1> WITNESS Len(msgQ) \in Nat \ {0}
  <1> QED BY DEF Consume

\* A message posted keeps the promise that the restart of the sessions follows the engine's
\* end, if the engine comes up only together with that restart.
LEMMA PostedRestart ==
  ASSUME msgQ \in Seq(Msg), NEW m, msgQ' = Append(msgQ, m), RestartFollows,
         m = LocSsrMsg => engine' # "up",
         engine' = "up" => engine = "up" \/ m = MsgRestartSessions
  PROVE  /\ RestartFollows'
         /\ Queued(MsgRestartSessions) \/ m = MsgRestartSessions => Queued(MsgRestartSessions)'
  <1>1. PICK n \in Nat : /\ DOMAIN msgQ = 1 .. n
                         /\ DOMAIN msgQ' = 1 .. (n + 1)
                         /\ \A i \in 1 .. n : msgQ'[i] = msgQ[i]
                         /\ msgQ'[n + 1] = m
    BY PostedQueue
  <1>2. ASSUME NEW i \in DOMAIN msgQ', msgQ'[i] = LocSsrMsg, engine' = "up"
        PROVE  \E j \in DOMAIN msgQ' : j > i /\ msgQ'[j] = MsgRestartSessions
    <2>1. i \in 1 .. n
      BY <1>1, <1>2
    <2>2. CASE m = MsgRestartSessions
      BY <1>1, <2>1, <2>2
    <2>3. CASE engine = "up"
      <3>1. PICK j \in DOMAIN msgQ : j > i /\ msgQ[j] = MsgRestartSessions
        BY <1>1, <1>2, <2>1, <2>3 DEF RestartFollows
      <3> QED BY <1>1, <3>1
    <2> QED BY <1>2, <2>2, <2>3
  <1>3. Queued(MsgRestartSessions) \/ m = MsgRestartSessions => Queued(MsgRestartSessions)'
    BY <1>1 DEF Queued
  <1> QED BY <1>2, <1>3 DEF RestartFollows

\* So does taking a message out of the queue; a restart that is not taken is still queued.
LEMMA ConsumedRestart ==
  ASSUME msgQ \in Seq(Msg), msgQ # <<>>, Consume, UNCHANGED engine, RestartFollows
  PROVE  /\ RestartFollows'
         /\ Queued(MsgRestartSessions) /\ Head(msgQ) # MsgRestartSessions
              => Queued(MsgRestartSessions)'
         /\ Head(msgQ) = LocSsrMsg /\ engine = "up" => Queued(MsgRestartSessions)'
  <1>1. PICK n \in Nat \ {0} : /\ DOMAIN msgQ = 1 .. n
                               /\ DOMAIN msgQ' = 1 .. (n - 1)
                               /\ \A i \in 1 .. (n - 1) : msgQ'[i] = msgQ[i + 1]
                               /\ msgQ[1] = Head(msgQ)
    BY ConsumedQueue
  <1>2. ASSUME NEW j \in DOMAIN msgQ, j > 1
        PROVE  j - 1 \in DOMAIN msgQ' /\ msgQ'[j - 1] = msgQ[j]
    BY <1>1, <1>2
  <1>3. ASSUME NEW i \in DOMAIN msgQ', msgQ'[i] = LocSsrMsg, engine' = "up"
        PROVE  \E j \in DOMAIN msgQ' : j > i /\ msgQ'[j] = MsgRestartSessions
    <2>1. i \in Nat /\ i + 1 \in DOMAIN msgQ /\ msgQ[i + 1] = LocSsrMsg
      BY <1>1, <1>3
    <2>2. PICK j \in DOMAIN msgQ : j > i + 1 /\ msgQ[j] = MsgRestartSessions
      BY <1>3, <2>1 DEF RestartFollows
    <2>3. j \in Nat /\ j > 1 /\ j - 1 > i
      BY <1>1, <2>1, <2>2
    <2> QED BY <1>2, <2>2, <2>3
  <1>4. Queued(MsgRestartSessions) /\ Head(msgQ) # MsgRestartSessions
          => Queued(MsgRestartSessions)'
    BY <1>1, <1>2 DEF Queued
  <1>5. Head(msgQ) = LocSsrMsg /\ engine = "up" => Queued(MsgRestartSessions)'
    <2> SUFFICES ASSUME Head(msgQ) = LocSsrMsg, engine = "up"
                 PROVE  Queued(MsgRestartSessions)'
      OBVIOUS
    <2>1. PICK j \in DOMAIN msgQ : j > 1 /\ msgQ[j] = MsgRestartSessions
      BY <1>1 DEF RestartFollows
    <2> QED BY <1>2, <2>1 DEF Queued
  <1> QED BY <1>3, <1>4, <1>5 DEF RestartFollows

\* A fix that was started is one.
LEMMA ConvertRuns == \A o \in LocationOptions : convertOptions(o) # NoFix
  <1> SUFFICES ASSUME NEW o \in LocationOptions, convertOptions(o) = NoFix
               PROVE  FALSE
    OBVIOUS
  <1>1. convertOptions(o).mode \in {"MS_BASED", "MS_ASSISTED", "STANDALONE"}
    BY DEF convertOptions
  <1> QED BY <1>1 DEF NoFix

\* An engine that is up and refuses nothing runs a fix after each of the functions, if
\* a session is left and it ran one before.
LEMMA MultiplexRuns ==
  ASSUME TypeOK, ~ EngineFails, engine # "down", NEW k, NEW err
  PROVE  /\ \A o \in LocationOptions : startTrackingMultiplex(o, err) =>
              err = "SUCCESS" /\ (fix' = NoFix => fix = NoFix /\ DOMAIN mTrackingSessions # {})
         /\ \A o \in LocationOptions : updateTrackingMultiplex(k, o, err) =>
              err = "SUCCESS" /\ (fix' = NoFix => fix = NoFix)
         /\ stopTrackingMultiplex(k, err) =>
              err = "SUCCESS" /\ (fix' = NoFix => fix = NoFix \/ Others(k) = {})
  <1>1. Others(k) # {} => Smallest(Others(k)) \in LocationOptions
    <2>1. Others(k) \in SUBSET DOMAIN mTrackingSessions
      BY DEF Others
    <2> QED BY <2>1, SmallestType DEF TypeOK
  <1>2. \A o \in LocationOptions : StartFix(o, err) => err = "SUCCESS" /\ fix' # NoFix
    BY ConvertRuns DEF StartFix, EngineRefuses
  <1>3. StopFix(err) \/ Keep(err) => err = "SUCCESS"
    BY DEF StopFix, Keep, EngineRefuses
  <1>4. Keep(err) => fix' = fix
    BY DEF Keep
  <1>5. ASSUME NEW o \in LocationOptions, startTrackingMultiplex(o, err)
        PROVE  err = "SUCCESS" /\ (fix' = NoFix => fix = NoFix /\ DOMAIN mTrackingSessions # {})
    BY <1>2, <1>3, <1>4, <1>5 DEF startTrackingMultiplex
  <1>6. ASSUME NEW o \in LocationOptions, updateTrackingMultiplex(k, o, err)
        PROVE  err = "SUCCESS" /\ (fix' = NoFix => fix = NoFix)
    BY <1>1, <1>2, <1>3, <1>4, <1>6 DEF updateTrackingMultiplex
  <1>7. ASSUME stopTrackingMultiplex(k, err)
        PROVE  err = "SUCCESS" /\ (fix' = NoFix => fix = NoFix \/ Others(k) = {})
    BY <1>1, <1>2, <1>3, <1>4, <1>7 DEF stopTrackingMultiplex
  <1> QED BY <1>5, <1>6, <1>7

\* Every step outside the adapter.
LEMMA OutsideRecovers ==
  ASSUME Recovers,
         \/ \E c \in Clients, cb \in Callbacks : createInstance(c, cb) \/ updateCallbacks(c, cb)
         \/ \E c \in Clients : destroy(c)
         \/ \E c \in Clients, o \in LocationOptions \cup {NoSize} : startTracking(c, o)
         \/ \E k \in Key, o \in LocationOptions \cup {NoSize} : updateTrackingOptions(k, o)
         \/ \E k \in Key : stopTracking(k)
         \/ EngineDown \/ EngineUp \/ handleEngineUpEvent
  PROVE  SessionsAreServed' /\ RestartFollows'
  <1>1. msgQ \in Seq(Msg) /\ RestartFollows /\ SessionsAreServed
    BY DEF Recovers, TypeOK
  <1>2. UNCHANGED mTrackingSessions
    BY DEF adapterVars, createInstance, updateCallbacks, destroy, startTracking,
           updateTrackingOptions, stopTracking, EngineDown, EngineUp, handleEngineUpEvent
  <1>3. CASE EngineDown
    BY <1>1, <1>3 DEF EngineDown, RestartFollows, SessionsAreServed
  <1>4. CASE EngineUp
    BY <1>1, <1>4, PostedRestart DEF EngineUp, SessionsAreServed
  <1>5. CASE handleEngineUpEvent
    <2>1. MsgRestartSessions # LocSsrMsg
      BY DEF MsgRestartSessions, LocSsrMsg
    <2> QED BY <1>1, <1>5, <2>1, PostedRestart DEF handleEngineUpEvent, SessionsAreServed
  <1>6. ASSUME UNCHANGED <<fix, engine>>,
               UNCHANGED msgQ \/ \E m : msgQ' = Append(msgQ, m) /\ m # LocSsrMsg
        PROVE  SessionsAreServed' /\ RestartFollows'
    <2>1. CASE UNCHANGED msgQ
      BY <1>1, <1>2, <1>6, <2>1 DEF RestartFollows, SessionsAreServed, Queued
    <2>2. ASSUME NEW m, msgQ' = Append(msgQ, m), m # LocSsrMsg
          PROVE  SessionsAreServed' /\ RestartFollows'
      BY <1>1, <1>2, <1>6, <2>2, PostedRestart DEF SessionsAreServed
    <2> QED BY <1>6, <2>1, <2>2
  <1>7. /\ \A c, cb : MsgAddClient(c, cb) # LocSsrMsg
        /\ \A c : MsgRemoveClient(c) # LocSsrMsg
        /\ \A k, o : MsgStartTracking(k, o) # LocSsrMsg /\ MsgUpdateTracking(k, o) # LocSsrMsg
        /\ \A k : MsgStopTracking(k) # LocSsrMsg
    BY DEF MsgAddClient, MsgRemoveClient, MsgStartTracking, MsgUpdateTracking, MsgStopTracking,
           LocSsrMsg
  <1>8. ASSUME NEW c \in Clients, NEW cb \in Callbacks,
               createInstance(c, cb) \/ updateCallbacks(c, cb)
        PROVE  SessionsAreServed' /\ RestartFollows'
    BY <1>6, <1>7, <1>8 DEF createInstance, updateCallbacks, adapterVars
  <1>9. ASSUME NEW c \in Clients, destroy(c)
        PROVE  SessionsAreServed' /\ RestartFollows'
    BY <1>6, <1>7, <1>9 DEF destroy, adapterVars
  <1>10. ASSUME NEW c \in Clients, NEW o, startTracking(c, o)
         PROVE  SessionsAreServed' /\ RestartFollows'
    BY <1>6, <1>7, <1>10 DEF startTracking, adapterVars
  <1>11. ASSUME NEW k \in Key, NEW o, updateTrackingOptions(k, o) \/ stopTracking(k)
         PROVE  SessionsAreServed' /\ RestartFollows'
    BY <1>6, <1>7, <1>11 DEF updateTrackingOptions, stopTracking, adapterVars
  <1> QED BY <1>3, <1>4, <1>5, <1>8, <1>9, <1>10, <1>11

\* Every step of the adapter.
LEMMA HandlerRecovers ==
  ASSUME Recovers, Handle
  PROVE  SessionsAreServed' /\ RestartFollows'
  <1>1. TypeOK /\ msgQ \in Seq(Msg) /\ RestartFollows /\ SessionsAreServed
    BY DEF Recovers, TypeOK
  <1>2. UNCHANGED engine
    BY DEF Handle, saveClient, handleStartTracking, handleUpdateTracking, handleStopTracking,
           handleRemoveClient, stopClientSession, eraseClient, handleSsr, restartSessions
  <1>3. ASSUME NEW kind, IsNext(kind), Consume
        PROVE  /\ RestartFollows'
               /\ kind # "RestartSessions" /\ Queued(MsgRestartSessions)
                    => Queued(MsgRestartSessions)'
               /\ kind = "Ssr" /\ engine = "up" => Queued(MsgRestartSessions)'
    <2>1. msgQ # <<>> /\ Head(msgQ) \in Msg /\ Head(msgQ).msg = kind
      BY <1>1, <1>3, HeadTypes
    <2>2. kind # "RestartSessions" => Head(msgQ) # MsgRestartSessions
      BY <2>1 DEF MsgRestartSessions
    <2>3. kind = "Ssr" => Head(msgQ) = LocSsrMsg
      BY <2>1 DEF Msg, MsgAddClient, MsgRemoveClient, MsgStartTracking, MsgUpdateTracking,
                  MsgStopTracking, LocSsrMsg, MsgRestartSessions
    <2> QED BY <1>1, <1>2, <1>3, <2>1, <2>2, <2>3, ConsumedRestart
  <1>4. CASE engine # "up" \/ EngineFails
    <2>1. SessionsAreServed'
      BY <1>2, <1>4 DEF SessionsAreServed
    <2>2. RestartFollows'
      <3>1. CASE \E kind : IsNext(kind) /\ Consume
        BY <1>3, <3>1
      <3>2. CASE UNCHANGED msgQ
        BY <1>1, <1>2, <3>2 DEF RestartFollows
      <3> QED BY <3>1, <3>2 DEF Handle, saveClient, handleStartTracking, handleUpdateTracking,
                   handleStopTracking, handleRemoveClient, stopClientSession, eraseClient,
                   handleSsr, restartSessions
    <2> QED BY <2>1, <2>2
  <1>5. CASE engine = "up" /\ ~ EngineFails
    <2>1. CASE saveClient \/ handleRemoveClient
      <3>1. PICK kind : IsNext(kind) /\ Consume /\ kind # "RestartSessions"
        BY <2>1 DEF saveClient, handleRemoveClient
      <3>2. UNCHANGED <<fix, mTrackingSessions>>
        BY <2>1 DEF saveClient, handleRemoveClient
      <3> QED BY <1>1, <1>2, <1>3, <3>1, <3>2 DEF SessionsAreServed
    <2>2. CASE handleSsr
      BY <1>2, <1>3, <1>5, <2>2 DEF handleSsr, SessionsAreServed
    <2>3. CASE handleStartTracking
      <3>1. /\ IsNext("StartTracking") /\ Consume
            /\ Head(msgQ).options \in LocationOptions \cup {NoSize}
        BY <1>1, <2>3, HeadTypes, MessageShapes DEF handleStartTracking
      <3>2. RestartFollows' /\ (Queued(MsgRestartSessions) => Queued(MsgRestartSessions)')
        BY <1>3, <3>1
      <3>3. CASE UNCHANGED <<fix, mTrackingSessions>>
        BY <1>1, <1>2, <3>2, <3>3 DEF SessionsAreServed
      <3>4. ASSUME NEW err, Head(msgQ).options # NoSize,
                   startTrackingMultiplex(Head(msgQ).options, err)
            PROVE  SessionsAreServed'
        <4>1. fix' = NoFix => fix = NoFix /\ DOMAIN mTrackingSessions # {}
          BY <1>1, <1>5, <3>1, <3>4, MultiplexRuns
        <4> QED BY <1>1, <1>2, <1>5, <3>2, <4>1 DEF SessionsAreServed
      <3> QED BY <2>3, <3>2, <3>3, <3>4 DEF handleStartTracking
    <2>4. CASE handleUpdateTracking
      <3>1. /\ IsNext("UpdateTracking") /\ Consume
            /\ Head(msgQ).options \in LocationOptions \cup {NoSize}
        BY <1>1, <2>4, HeadTypes, MessageShapes DEF handleUpdateTracking
      <3>2. RestartFollows' /\ (Queued(MsgRestartSessions) => Queued(MsgRestartSessions)')
        BY <1>3, <3>1
      <3>3. CASE UNCHANGED <<fix, mTrackingSessions>>
        BY <1>1, <1>2, <3>2, <3>3 DEF SessionsAreServed
      <3>4. ASSUME NEW err, Head(msgQ).options # NoSize, isTrackingSession(HeadKey),
                   updateTrackingMultiplex(HeadKey, Head(msgQ).options, err)
            PROVE  SessionsAreServed'
        <4>1. fix' = NoFix => fix = NoFix
          BY <1>1, <1>5, <3>1, <3>4, MultiplexRuns
        <4>2. DOMAIN mTrackingSessions # {}
          BY <3>4 DEF isTrackingSession
        <4> QED BY <1>1, <1>2, <1>5, <3>2, <4>1, <4>2 DEF SessionsAreServed
      <3> QED BY <2>4, <3>2, <3>3, <3>4 DEF handleUpdateTracking
    <2>5. ASSUME NEW k \in DOMAIN mTrackingSessions, NEW err, stopTrackingMultiplex(k, err),
                 mTrackingSessions' = IF err = "SUCCESS" THEN Without(mTrackingSessions, k)
                                                         ELSE mTrackingSessions,
                 Queued(MsgRestartSessions) => Queued(MsgRestartSessions)'
          PROVE  SessionsAreServed'
      <3>1. err = "SUCCESS" /\ (fix' = NoFix => fix = NoFix \/ Others(k) = {})
        BY <1>1, <1>5, <2>5, MultiplexRuns
      <3>2. DOMAIN mTrackingSessions' = Others(k)
        BY <2>5, <3>1 DEF Without, Others
      <3> QED BY <1>1, <1>2, <1>5, <2>5, <3>1, <3>2 DEF SessionsAreServed
    <2>6. CASE handleStopTracking
      <3>1. RestartFollows' /\ (Queued(MsgRestartSessions) => Queued(MsgRestartSessions)')
        BY <1>3, <2>6 DEF handleStopTracking
      <3>2. CASE UNCHANGED <<fix, mTrackingSessions>>
        BY <1>1, <1>2, <3>1, <3>2 DEF SessionsAreServed
      <3> QED BY <2>5, <2>6, <3>1, <3>2 DEF handleStopTracking, isTrackingSession
    <2>7. CASE stopClientSession
      <3>1. RestartFollows' /\ (Queued(MsgRestartSessions) => Queued(MsgRestartSessions)')
        BY <1>1, <1>2, <2>7 DEF stopClientSession, RestartFollows, Queued
      <3> QED BY <2>5, <2>7, <3>1 DEF stopClientSession, Unvisited
    <2>8. CASE eraseClient
      BY <1>1, <1>2, <2>8 DEF eraseClient, RestartFollows, SessionsAreServed, Queued
    <2>9. CASE restartSessions
      <3>1. RestartFollows'
        BY <1>3, <2>9 DEF restartSessions
      <3>2. UNCHANGED mTrackingSessions
        BY <2>9 DEF restartSessions
      <3>3. CASE DOMAIN mTrackingSessions = {}
        BY <3>1, <3>2, <3>3 DEF SessionsAreServed
      <3>4. CASE DOMAIN mTrackingSessions # {}
        <4>1. Smallest(DOMAIN mTrackingSessions) \in LocationOptions
          BY <1>1, <3>4, SmallestType DEF TypeOK
        <4>2. fix' # NoFix
          BY <1>5, <2>9, <3>4, <4>1, ConvertRuns DEF restartSessions, StartFix, EngineRefuses
        <4> QED BY <3>1, <4>2 DEF SessionsAreServed
      <3> QED BY <3>3, <3>4
    <2> QED BY <2>1, <2>2, <2>3, <2>4, <2>6, <2>7, <2>8, <2>9 DEF Handle
  <1> QED BY <1>4, <1>5

\* An engine that refuses nothing while it is up runs a fix whenever there are sessions and
\* it has told the adapter of its last restart, however the two messages of a restart and
\* the commands of the clients are interleaved (LocApiBase.cpp 210-219, GnssAdapter.cpp
\* 1205-1245).
THEOREM SessionsServed == Spec => []SessionsAreServed
  <1>1. Init => Recovers
    <2> SUFFICES ASSUME Init
                 PROVE  Recovers
      OBVIOUS
    <2>1. DOMAIN mTrackingSessions = {} /\ DOMAIN msgQ = {}
      BY DEF Init, Empty
    <2> QED BY <2>1, TypeInit DEF Recovers, SessionsAreServed, RestartFollows
  <1>2. Recovers /\ [Next]_vars => Recovers'
    <2> SUFFICES ASSUME Recovers, [Next]_vars
                 PROVE  Recovers'
      OBVIOUS
    <2>1. TypeOK'
      BY TypeStep DEF Recovers
    <2>2. CASE Next
      BY <2>1, <2>2, OutsideRecovers, HandlerRecovers DEF Next, Recovers
    <2>3. CASE UNCHANGED vars
      BY <2>1, <2>3 DEF vars, Recovers, SessionsAreServed, RestartFollows, Queued
    <2> QED BY <2>2, <2>3
  <1>3. Recovers => SessionsAreServed
    BY DEF Recovers
  <1> QED BY <1>1, <1>2, <1>3, PTL DEF Spec

-----------------------------------------------------------------------------
(* The adapter agrees with LocationAPI about the clients.                    *)
(*                                                                           *)
(* The last of the messages that wait about a client says what LocationAPI   *)
(* knows of it; a client about which none waits is known alike on both       *)
(* sides, or is being removed and no longer exists.  This holds if every     *)
(* client is one of the GNSS interface, now and after a change of its        *)
(* callbacks: otherwise LocationAPI does not tell the adapter (the run       *)
(* tracking_destroy).                                                        *)

OnlyGnssClients == \A cb \in Callbacks : isGnssClient(cb)

About(m, c) == m.msg \in {"AddClient", "RemoveClient"} /\ m.client = c

LastAbout(i, c) == About(msgQ[i], c) /\ \A j \in DOMAIN msgQ : j > i => ~ About(msgQ[j], c)

\* What the last message says of the client is what LocationAPI knows.
SaysTruth(m, c) ==
  /\ m.msg = "AddClient" => c \in DOMAIN clientData /\ m.callbacks = clientData[c]
  /\ m.msg = "RemoveClient" => c \notin DOMAIN clientData

KnownAlike(c) ==
  /\ c \in DOMAIN mClientData <=> c \in DOMAIN clientData
  /\ c \in DOMAIN clientData => mClientData[c] = clientData[c]

WillAgree(c) ==
  /\ \A i \in DOMAIN msgQ : LastAbout(i, c) => SaysTruth(msgQ[i], c)
  /\ (\A i \in DOMAIN msgQ : ~ About(msgQ[i], c)) =>
       IF removing.client = c THEN c \notin DOMAIN clientData ELSE KnownAlike(c)

Agreeing == TypeOK /\ \A c \in Clients : WillAgree(c)

\* A message about the client that is posted is the last, and has to be true.
LEMMA PostedAgrees ==
  ASSUME msgQ \in Seq(Msg), NEW m, msgQ' = Append(msgQ, m), NEW c, WillAgree(c),
         About(m, c) => SaysTruth(m, c)',
         ~ About(m, c) => /\ UNCHANGED <<mClientData, removing>>
                          /\ c \in DOMAIN clientData' <=> c \in DOMAIN clientData
                          /\ c \in DOMAIN clientData => clientData'[c] = clientData[c]
  PROVE  WillAgree(c)'
  <1>1. PICK n \in Nat : /\ DOMAIN msgQ = 1 .. n
                         /\ DOMAIN msgQ' = 1 .. (n + 1)
                         /\ \A i \in 1 .. n : msgQ'[i] = msgQ[i]
                         /\ msgQ'[n + 1] = m
    BY PostedQueue
  <1>2. CASE About(m, c)
    <2>1. \A i \in DOMAIN msgQ' : LastAbout(i, c)' => i = n + 1
      BY <1>1, <1>2 DEF LastAbout
    <2>2. ~ \A i \in DOMAIN msgQ' : ~ About(msgQ'[i], c)
      BY <1>1, <1>2
    <2> QED BY <1>1, <1>2, <2>1, <2>2 DEF WillAgree
  <1>3. CASE ~ About(m, c)
    <2>1. \A i \in DOMAIN msgQ' : LastAbout(i, c)' => i \in DOMAIN msgQ /\ LastAbout(i, c)
      BY <1>1, <1>3 DEF LastAbout
    <2>2. (\A i \in DOMAIN msgQ' : ~ About(msgQ'[i], c)) => \A i \in DOMAIN msgQ : ~ About(msgQ[i], c)
      BY <1>1
    <2>3. \A i \in DOMAIN msgQ : SaysTruth(msgQ[i], c) => SaysTruth(msgQ[i], c)'
      BY <1>1, <1>3 DEF SaysTruth
    <2>4. KnownAlike(c) => KnownAlike(c)'
      BY <1>3 DEF KnownAlike
    <2> QED BY <1>1, <1>3, <2>1, <2>2, <2>3, <2>4 DEF WillAgree
  <1> QED BY <1>2, <1>3

\* Taking a message: either another about the client waits behind it, or it was the last
\* and what it does has to make both sides agree.
LEMMA ConsumedAgrees ==
  ASSUME msgQ \in Seq(Msg), msgQ # <<>>, Consume, NEW c, WillAgree(c), UNCHANGED clientData,
         ~ About(Head(msgQ), c) =>
           /\ removing.client # c /\ removing'.client # c
           /\ c \in DOMAIN mClientData' <=> c \in DOMAIN mClientData
           /\ c \in DOMAIN mClientData => mClientData'[c] = mClientData[c],
         About(Head(msgQ), c) /\ SaysTruth(Head(msgQ), c) =>
           IF removing'.client = c THEN c \notin DOMAIN clientData ELSE KnownAlike(c)'
  PROVE  WillAgree(c)'
  <1>1. PICK n \in Nat \ {0} : /\ DOMAIN msgQ = 1 .. n
                               /\ DOMAIN msgQ' = 1 .. (n - 1)
                               /\ \A i \in 1 .. (n - 1) : msgQ'[i] = msgQ[i + 1]
                               /\ msgQ[1] = Head(msgQ)
    BY ConsumedQueue
  <1>2. \A j \in DOMAIN msgQ : j > 1 => j - 1 \in DOMAIN msgQ' /\ msgQ'[j - 1] = msgQ[j]
    BY <1>1
  <1>3. ASSUME NEW i \in DOMAIN msgQ', LastAbout(i, c)'
        PROVE  SaysTruth(msgQ[i], c)'
    <2>1. i + 1 \in DOMAIN msgQ /\ msgQ'[i] = msgQ[i + 1]
      BY <1>1
    <2>2. ASSUME NEW j \in DOMAIN msgQ, j > i + 1
          PROVE  ~ About(msgQ[j], c)
      <3>1. j > 1 /\ j - 1 > i
        BY <1>1, <2>2
      <3> QED BY <1>2, <1>3, <3>1 DEF LastAbout
    <2>3. LastAbout(i + 1, c)
      BY <1>3, <2>1, <2>2 DEF LastAbout
    <2> QED BY <2>1, <2>3 DEF WillAgree, SaysTruth
  <1>4. ASSUME \A i \in DOMAIN msgQ' : ~ About(msgQ'[i], c)
        PROVE  IF removing'.client = c THEN c \notin DOMAIN clientData' ELSE KnownAlike(c)'
    <2>1. \A j \in DOMAIN msgQ : j > 1 => ~ About(msgQ[j], c)
      BY <1>2, <1>4
    <2>2. CASE About(Head(msgQ), c)
      <3>1. LastAbout(1, c)
        BY <1>1, <2>1, <2>2 DEF LastAbout
      <3>2. SaysTruth(Head(msgQ), c)
        BY <1>1, <3>1 DEF WillAgree
      <3> QED BY <2>2, <3>2
    <2>3. CASE ~ About(Head(msgQ), c)
      <3>1. \A j \in DOMAIN msgQ : ~ About(msgQ[j], c)
        BY <1>1, <2>1, <2>3
      <3> QED BY <2>3, <3>1 DEF WillAgree, KnownAlike
    <2> QED BY <2>2, <2>3
  <1> QED BY <1>3, <1>4 DEF WillAgree

\* The calls of the clients, and the engine's own steps.
LEMMA OutsideAgrees ==
  ASSUME OnlyGnssClients, Agreeing, NEW d \in Clients,
         \/ \E c \in Clients, cb \in Callbacks : createInstance(c, cb) \/ updateCallbacks(c, cb)
         \/ \E c \in Clients : destroy(c)
         \/ \E c \in Clients, o \in LocationOptions \cup {NoSize} : startTracking(c, o)
         \/ \E k \in Key, o \in LocationOptions \cup {NoSize} : updateTrackingOptions(k, o)
         \/ \E k \in Key : stopTracking(k)
         \/ EngineDown \/ EngineUp \/ handleEngineUpEvent
  PROVE  WillAgree(d)'
  <1>1. TypeOK /\ msgQ \in Seq(Msg) /\ WillAgree(d)
    BY DEF Agreeing, TypeOK
  <1>2. ASSUME NEW c \in Clients, NEW cb \in Callbacks,
               createInstance(c, cb) \/ updateCallbacks(c, cb)
        PROVE  WillAgree(d)'
    <2>1. msgQ' = Append(msgQ, MsgAddClient(c, cb)) /\ clientData' = With(clientData, c, cb)
      BY <1>2 DEF createInstance, updateCallbacks, OnlyGnssClients
    <2>2. UNCHANGED <<mClientData, removing>>
      BY <1>2 DEF createInstance, updateCallbacks, adapterVars
    <2>3. About(MsgAddClient(c, cb), d) <=> d = c
      BY DEF About, MsgAddClient
    <2>4. d = c => SaysTruth(MsgAddClient(c, cb), d)'
      BY <2>1 DEF SaysTruth, MsgAddClient, With
    <2>5. d # c => /\ d \in DOMAIN clientData' <=> d \in DOMAIN clientData
                   /\ d \in DOMAIN clientData => clientData'[d] = clientData[d]
      BY <2>1 DEF With
    <2> QED BY <1>1, <2>1, <2>2, <2>3, <2>4, <2>5, PostedAgrees
  <1>3. ASSUME NEW c \in Clients, destroy(c)
        PROVE  WillAgree(d)'
    <2>1. msgQ' = Append(msgQ, MsgRemoveClient(c)) /\ clientData' = Without(clientData, c)
      BY <1>1, <1>3 DEF destroy, OnlyGnssClients, TypeOK, IsMap
    <2>2. UNCHANGED <<mClientData, removing>>
      BY <1>3 DEF destroy, adapterVars
    <2>3. About(MsgRemoveClient(c), d) <=> d = c
      BY DEF About, MsgRemoveClient
    <2>4. d = c => SaysTruth(MsgRemoveClient(c), d)'
      BY <2>1 DEF SaysTruth, MsgRemoveClient, Without
    <2>5. d # c => /\ d \in DOMAIN clientData' <=> d \in DOMAIN clientData
                   /\ d \in DOMAIN clientData => clientData'[d] = clientData[d]
      BY <2>1 DEF Without
    <2> QED BY <1>1, <2>1, <2>2, <2>3, <2>4, <2>5, PostedAgrees
  <1>4. ASSUME UNCHANGED <<clientData, mClientData, removing>>, NEW m,
               msgQ' = Append(msgQ, m), m.msg \notin {"AddClient", "RemoveClient"}
        PROVE  WillAgree(d)'
    <2>1. ~ About(m, d)
      BY <1>4 DEF About
    <2> QED BY <1>1, <1>4, <2>1, PostedAgrees
  <1>5. ASSUME NEW c \in Clients, NEW o, startTracking(c, o)
        PROVE  WillAgree(d)'
    BY <1>4, <1>5 DEF startTracking, adapterVars, MsgStartTracking
  <1>6. ASSUME NEW k \in Key, NEW o, updateTrackingOptions(k, o) \/ stopTracking(k)
        PROVE  WillAgree(d)'
    BY <1>4, <1>6 DEF updateTrackingOptions, stopTracking, apiVars, adapterVars,
                      MsgUpdateTracking, MsgStopTracking
  <1>7. CASE EngineUp \/ handleEngineUpEvent
    BY <1>4, <1>7 DEF EngineUp, handleEngineUpEvent, apiVars, LocSsrMsg, MsgRestartSessions
  <1>8. CASE EngineDown
    BY <1>1, <1>8 DEF EngineDown, apiVars, WillAgree, LastAbout, About, SaysTruth, KnownAlike
  <1> QED BY <1>2, <1>3, <1>5, <1>6, <1>7, <1>8

\* The adapter.
LEMMA HandlerAgrees ==
  ASSUME Agreeing, NEW d \in Clients, Handle
  PROVE  WillAgree(d)'
  <1>1. TypeOK /\ msgQ \in Seq(Msg) /\ WillAgree(d) /\ UNCHANGED clientData
    BY DEF Agreeing, TypeOK, Handle, apiVars, saveClient, handleStartTracking,
           handleUpdateTracking, handleStopTracking, handleRemoveClient, stopClientSession,
           eraseClient, handleSsr, restartSessions
  <1>2. Idle.client # d
    BY ClientsAssumption DEF Idle
  <1>3. CASE saveClient
    <2>1. /\ msgQ # <<>> /\ Consume /\ Head(msgQ).msg = "AddClient"
          /\ removing = Idle /\ UNCHANGED removing
          /\ mClientData' = With(mClientData, Head(msgQ).client, Head(msgQ).callbacks)
      BY <1>3 DEF saveClient, IsNext
    <2>2. About(Head(msgQ), d) <=> Head(msgQ).client = d
      BY <2>1 DEF About
    <2>3. Head(msgQ).client = d /\ SaysTruth(Head(msgQ), d) => KnownAlike(d)'
      BY <1>1, <2>1 DEF SaysTruth, KnownAlike, With
    <2>4. Head(msgQ).client # d => /\ d \in DOMAIN mClientData' <=> d \in DOMAIN mClientData
                                   /\ d \in DOMAIN mClientData => mClientData'[d] = mClientData[d]
      BY <2>1 DEF With
    <2> QED BY <1>1, <1>2, <2>1, <2>2, <2>3, <2>4, ConsumedAgrees
  <1>4. CASE handleRemoveClient
    <2>1. /\ msgQ # <<>> /\ Consume /\ Head(msgQ).msg = "RemoveClient"
          /\ removing = Idle /\ removing'.client = Head(msgQ).client
          /\ UNCHANGED mClientData
      BY <1>4 DEF handleRemoveClient, IsNext
    <2>2. About(Head(msgQ), d) <=> Head(msgQ).client = d
      BY <2>1 DEF About
    <2>3. SaysTruth(Head(msgQ), d) => d \notin DOMAIN clientData
      BY <2>1 DEF SaysTruth
    <2> QED BY <1>1, <1>2, <2>1, <2>2, <2>3, ConsumedAgrees
  <1>5. ASSUME NEW kind, IsNext(kind), kind \notin {"AddClient", "RemoveClient"}, Consume,
               UNCHANGED <<mClientData, removing>>
        PROVE  WillAgree(d)'
    <2>1. msgQ # <<>> /\ removing = Idle /\ ~ About(Head(msgQ), d)
      BY <1>5 DEF IsNext, About
    <2> QED BY <1>1, <1>2, <1>5, <2>1, ConsumedAgrees
  <1>6. CASE handleStartTracking \/ handleUpdateTracking \/ handleStopTracking \/ handleSsr
             \/ restartSessions
    BY <1>5, <1>6 DEF handleStartTracking, handleUpdateTracking, handleStopTracking, handleSsr,
                      restartSessions
  <1>7. CASE stopClientSession
    <2>1. UNCHANGED <<msgQ, mClientData>> /\ removing'.client = removing.client
      BY <1>1, <1>7 DEF stopClientSession, TypeOK, Removing, Idle
    <2> QED BY <1>1, <2>1 DEF WillAgree, LastAbout, About, SaysTruth, KnownAlike
  <1>8. CASE eraseClient
    <2>1. /\ UNCHANGED msgQ /\ removing' = Idle
          /\ mClientData' = Without(mClientData, removing.client)
      BY <1>8 DEF eraseClient
    <2>2. /\ removing.client = d /\ d \notin DOMAIN clientData => KnownAlike(d)'
          /\ removing.client # d /\ KnownAlike(d) => KnownAlike(d)'
      BY <1>1, <2>1 DEF KnownAlike, Without
    <2>3. \A i \in DOMAIN msgQ : LastAbout(i, d)' => LastAbout(i, d)
      BY <2>1 DEF LastAbout
    <2> QED BY <1>1, <1>2, <2>1, <2>2, <2>3 DEF WillAgree, SaysTruth
  <1> QED BY <1>3, <1>4, <1>6, <1>7, <1>8 DEF Handle

\* Once the adapter has caught up with a client of the GNSS interface, it knows the client
\* exactly if the LocationAPI object exists, with the callbacks it passed last, also when
\* the address of a destroyed object is used again (LocationAPI.cpp 107-286, GnssAdapter.cpp
\* 1097-1160).
THEOREM ClientsWillAgree ==
  ASSUME OnlyGnssClients
  PROVE  Spec => []ClientsAgree
  <1>1. Init => Agreeing
    <2> SUFFICES ASSUME Init
                 PROVE  Agreeing
      OBVIOUS
    <2>1. /\ DOMAIN clientData = {} /\ DOMAIN mClientData = {} /\ DOMAIN msgQ = {}
          /\ removing.client = 0
      BY DEF Init, Empty, Idle
    <2> QED BY <2>1, TypeInit DEF Agreeing, WillAgree, KnownAlike
  <1>2. Agreeing /\ [Next]_vars => Agreeing'
    <2> SUFFICES ASSUME Agreeing, [Next]_vars
                 PROVE  Agreeing'
      OBVIOUS
    <2>1. TypeOK'
      BY TypeStep DEF Agreeing
    <2>2. ASSUME NEW d \in Clients
          PROVE  WillAgree(d)'
      <3>1. CASE Next
        BY <3>1, OutsideAgrees, HandlerAgrees DEF Next
      <3>2. CASE UNCHANGED vars
        BY <3>2 DEF vars, Agreeing, WillAgree, LastAbout, About, SaysTruth, KnownAlike
      <3> QED BY <3>1, <3>2
    <2> QED BY <2>1, <2>2 DEF Agreeing
  <1>3. Agreeing => ClientsAgree
    <2> SUFFICES ASSUME Agreeing, NEW c \in Clients, Settled(c)
                 PROVE  KnownAlike(c)
      BY DEF ClientsAgree, KnownAlike
    <2>1. ASSUME NEW i \in DOMAIN msgQ
          PROVE  ~ About(msgQ[i], c)
      <3>1. msgQ[i] \in Msg
        BY DEF Agreeing, TypeOK
      <3>2. msgQ[i].msg \in {"AddClient", "RemoveClient"} => "client" \in DOMAIN msgQ[i]
        BY <3>1 DEF Msg, MsgAddClient, MsgRemoveClient, MsgStartTracking, MsgUpdateTracking,
                    MsgStopTracking, LocSsrMsg, MsgRestartSessions
      <3> QED BY <3>2 DEF Settled, About
    <2> QED BY <2>1 DEF Agreeing, WillAgree, Settled
  <1> QED BY <1>1, <1>2, <1>3, PTL DEF Spec

-----------------------------------------------------------------------------
(* A destroyed client leaves no session behind.                              *)
(*                                                                           *)
(* A start may be handled after its client was destroyed, and its session is *)
(* then stopped by the removal behind it in the queue.  So every start of a  *)
(* destroyed client has a removal behind it, and every session of one has a  *)
(* removal in the queue, or the loop of stopClientSessions before it, unless *)
(* the engine refused to stop a session.                                     *)

RemovalAt(j, c) == msgQ[j].msg = "RemoveClient" /\ msgQ[j].client = c
StartAt(i, c) == msgQ[i].msg = "StartTracking" /\ msgQ[i].client = c

StartsWillStop(c) ==
  \A i \in DOMAIN msgQ : StartAt(i, c) => \E j \in DOMAIN msgQ : j > i /\ RemovalAt(j, c)

SessionWillStop(k) ==
  \/ stopRefused
  \/ \E j \in DOMAIN msgQ : RemovalAt(j, k[1])
  \/ removing.client = k[1] /\ k[2] >= removing.from

WillStop(c) ==
  c \notin DOMAIN clientData =>
    /\ StartsWillStop(c)
    /\ \A k \in DOMAIN mTrackingSessions : k[1] = c => SessionWillStop(k)

Stopping == TypeOK /\ \A c \in Clients : WillStop(c)

\* Posting a message that is not a start of a destroyed client.
LEMMA PostedStops ==
  ASSUME msgQ \in Seq(Msg), NEW m, msgQ' = Append(msgQ, m), NEW c, WillStop(c),
         UNCHANGED <<mTrackingSessions, removing, stopRefused>>,
         \/ m.msg = "RemoveClient" /\ m.client = c
         \/ c \in DOMAIN clientData'
         \/ /\ c \notin DOMAIN clientData
            /\ ~ (m.msg = "StartTracking" /\ m.client = c)
  PROVE  WillStop(c)'
  <1>1. PICK n \in Nat : /\ DOMAIN msgQ = 1 .. n
                         /\ DOMAIN msgQ' = 1 .. (n + 1)
                         /\ \A i \in 1 .. n : msgQ'[i] = msgQ[i]
                         /\ msgQ'[n + 1] = m
    BY PostedQueue
  <1>2. CASE m.msg = "RemoveClient" /\ m.client = c
    <2>1. RemovalAt(n + 1, c)' /\ n + 1 \in DOMAIN msgQ'
      BY <1>1, <1>2 DEF RemovalAt
    <2>2. \A i \in DOMAIN msgQ' : StartAt(i, c)' => n + 1 > i
      BY <1>1, <1>2 DEF StartAt
    <2> QED BY <2>1, <2>2 DEF WillStop, StartsWillStop, SessionWillStop
  <1>3. CASE c \in DOMAIN clientData'
    BY <1>3 DEF WillStop
  <1>4. CASE c \notin DOMAIN clientData /\ ~ (m.msg = "StartTracking" /\ m.client = c)
    <2>1. \A j \in DOMAIN msgQ : j \in DOMAIN msgQ' /\ (RemovalAt(j, c) => RemovalAt(j, c)')
      BY <1>1 DEF RemovalAt
    <2>2. \A i \in DOMAIN msgQ' : StartAt(i, c)' => i \in DOMAIN msgQ /\ StartAt(i, c)
      BY <1>1, <1>4 DEF StartAt
    <2>3. StartsWillStop(c)'
      BY <1>4, <2>1, <2>2 DEF WillStop, StartsWillStop
    <2>4. ASSUME NEW k \in DOMAIN mTrackingSessions', k[1] = c
          PROVE  SessionWillStop(k)'
      BY <1>4, <2>1, <2>4 DEF WillStop, SessionWillStop
    <2> QED BY <2>3, <2>4 DEF WillStop
  <1> QED BY <1>2, <1>3, <1>4

\* Taking a message: the session of a start that was handled has a removal behind it, and
\* the removal of the client itself starts the loop.
LEMMA ConsumedStops ==
  ASSUME msgQ \in Seq(Msg), msgQ # <<>>, Consume, NEW c, c # 0, WillStop(c), removing = Idle,
         UNCHANGED <<clientData, stopRefused>>,
         IF Head(msgQ).msg = "RemoveClient"
         THEN removing' = [client |-> Head(msgQ).client, from |-> 0]
         ELSE UNCHANGED removing,
         \A k \in DOMAIN mTrackingSessions' :
           \/ k \in DOMAIN mTrackingSessions
           \/ Head(msgQ).msg = "StartTracking" /\ Head(msgQ).client = k[1],
         \A k \in DOMAIN mTrackingSessions' : k[2] \in Nat
  PROVE  WillStop(c)'
  <1> SUFFICES ASSUME c \notin DOMAIN clientData
               PROVE  /\ StartsWillStop(c)'
                      /\ \A k \in DOMAIN mTrackingSessions' : k[1] = c => SessionWillStop(k)'
    BY DEF WillStop
  <1>1. PICK n \in Nat \ {0} : /\ DOMAIN msgQ = 1 .. n
                               /\ DOMAIN msgQ' = 1 .. (n - 1)
                               /\ \A i \in 1 .. (n - 1) : msgQ'[i] = msgQ[i + 1]
                               /\ msgQ[1] = Head(msgQ)
    BY ConsumedQueue
  <1>2. \A j \in DOMAIN msgQ : j > 1 =>
          j - 1 \in DOMAIN msgQ' /\ (RemovalAt(j, c) => RemovalAt(j - 1, c)')
    BY <1>1 DEF RemovalAt
  <1>3. ASSUME NEW i \in DOMAIN msgQ', StartAt(i, c)'
        PROVE  \E j \in DOMAIN msgQ' : j > i /\ RemovalAt(j, c)'
    <2>1. i + 1 \in DOMAIN msgQ /\ StartAt(i + 1, c)
      BY <1>1, <1>3 DEF StartAt
    <2>2. PICK j \in DOMAIN msgQ : j > i + 1 /\ RemovalAt(j, c)
      BY <2>1 DEF WillStop, StartsWillStop
    <2>3. j > 1 /\ j - 1 > i
      BY <1>1, <2>2
    <2> QED BY <1>2, <2>2, <2>3
  <1>4. ASSUME NEW k \in DOMAIN mTrackingSessions', k[1] = c
        PROVE  SessionWillStop(k)'
    <2>1. CASE Head(msgQ).msg = "RemoveClient" /\ Head(msgQ).client = c
      BY <1>4, <2>1 DEF SessionWillStop
    <2>2. CASE ~ (Head(msgQ).msg = "RemoveClient" /\ Head(msgQ).client = c)
      <3>1. CASE k \in DOMAIN mTrackingSessions
        <4>1. SessionWillStop(k)
          BY <1>4, <3>1 DEF WillStop
        <4>2. ASSUME NEW j \in DOMAIN msgQ, RemovalAt(j, c)
              PROVE  SessionWillStop(k)'
          <5>1. j > 1
            BY <1>1, <2>2, <4>2 DEF RemovalAt
          <5> QED BY <1>2, <1>4, <4>2, <5>1 DEF SessionWillStop
        <4>3. removing.client # c
          BY DEF Idle
        <4> QED BY <1>4, <4>1, <4>2, <4>3 DEF SessionWillStop
      <3>2. CASE Head(msgQ).msg = "StartTracking" /\ Head(msgQ).client = c
        <4>1. StartAt(1, c) /\ 1 \in DOMAIN msgQ
          BY <1>1, <3>2 DEF StartAt
        <4>2. PICK j \in DOMAIN msgQ : j > 1 /\ RemovalAt(j, c)
          BY <4>1 DEF WillStop, StartsWillStop
        <4> QED BY <1>2, <1>4, <4>2 DEF SessionWillStop
      <3> QED BY <1>4, <3>1, <3>2
    <2> QED BY <2>1, <2>2
  <1> QED BY <1>3, <1>4 DEF StartsWillStop

\* The calls of the clients, and the engine's own steps.
LEMMA OutsideStops ==
  ASSUME OnlyGnssClients, Stopping, NEW d \in Clients,
         \/ \E c \in Clients, cb \in Callbacks : createInstance(c, cb) \/ updateCallbacks(c, cb)
         \/ \E c \in Clients : destroy(c)
         \/ \E c \in Clients, o \in LocationOptions \cup {NoSize} : startTracking(c, o)
         \/ \E k \in Key, o \in LocationOptions \cup {NoSize} : updateTrackingOptions(k, o)
         \/ \E k \in Key : stopTracking(k)
         \/ EngineDown \/ EngineUp \/ handleEngineUpEvent
  PROVE  WillStop(d)'
  <1>1. TypeOK /\ msgQ \in Seq(Msg) /\ WillStop(d)
    BY DEF Stopping, TypeOK
  <1>2. UNCHANGED <<mTrackingSessions, removing, stopRefused>>
    BY DEF adapterVars, createInstance, updateCallbacks, destroy, startTracking,
           updateTrackingOptions, stopTracking, EngineDown, EngineUp, handleEngineUpEvent
  <1>3. ASSUME NEW c \in Clients, NEW cb \in Callbacks,
               createInstance(c, cb) \/ updateCallbacks(c, cb)
        PROVE  WillStop(d)'
    <2>1. msgQ' = Append(msgQ, MsgAddClient(c, cb)) /\ clientData' = With(clientData, c, cb)
      BY <1>3 DEF createInstance, updateCallbacks, OnlyGnssClients
    <2>2. MsgAddClient(c, cb).msg = "AddClient"
      BY DEF MsgAddClient
    <2>3. d \in DOMAIN clientData => d \in DOMAIN clientData'
      BY <2>1 DEF With
    <2> QED BY <1>1, <1>2, <2>1, <2>2, <2>3, PostedStops
  <1>4. ASSUME NEW c \in Clients, destroy(c)
        PROVE  WillStop(d)'
    <2>1. msgQ' = Append(msgQ, MsgRemoveClient(c)) /\ clientData' = Without(clientData, c)
      BY <1>1, <1>4 DEF destroy, OnlyGnssClients, TypeOK, IsMap
    <2>2. MsgRemoveClient(c).msg = "RemoveClient" /\ MsgRemoveClient(c).client = c
      BY DEF MsgRemoveClient
    <2>3. d # c /\ d \in DOMAIN clientData => d \in DOMAIN clientData'
      BY <2>1 DEF Without
    <2> QED BY <1>1, <1>2, <2>1, <2>2, <2>3, PostedStops
  <1>5. ASSUME UNCHANGED clientData, NEW m, msgQ' = Append(msgQ, m),
               m.msg # "StartTracking" \/ m.client \in DOMAIN clientData
        PROVE  WillStop(d)'
    BY <1>1, <1>2, <1>5, PostedStops
  <1>6. ASSUME NEW c \in Clients, NEW o, startTracking(c, o)
        PROVE  WillStop(d)'
    BY <1>5, <1>6 DEF startTracking, MsgStartTracking
  <1>7. ASSUME NEW k \in Key, NEW o, updateTrackingOptions(k, o) \/ stopTracking(k)
        PROVE  WillStop(d)'
    BY <1>5, <1>7 DEF updateTrackingOptions, stopTracking, apiVars, MsgUpdateTracking,
                      MsgStopTracking
  <1>8. CASE EngineUp \/ handleEngineUpEvent
    BY <1>5, <1>8 DEF EngineUp, handleEngineUpEvent, apiVars, LocSsrMsg, MsgRestartSessions
  <1>9. CASE EngineDown
    BY <1>1, <1>2, <1>9 DEF EngineDown, apiVars, WillStop, StartsWillStop, SessionWillStop,
                            StartAt, RemovalAt
  <1> QED BY <1>3, <1>4, <1>6, <1>7, <1>8, <1>9

\* The adapter.
LEMMA HandlerStops ==
  ASSUME Stopping, TypeOK', NEW d \in Clients, Handle
  PROVE  WillStop(d)'
  <1>1. /\ TypeOK /\ msgQ \in Seq(Msg) /\ WillStop(d) /\ UNCHANGED clientData
        /\ d # 0
    BY ClientsAssumption
       DEF Stopping, TypeOK, Handle, apiVars, saveClient, handleStartTracking,
           handleUpdateTracking, handleStopTracking, handleRemoveClient, stopClientSession,
           eraseClient, handleSsr, restartSessions
  <1>2. \A k \in DOMAIN mTrackingSessions \cup DOMAIN mTrackingSessions' :
          k[2] \in Nat /\ k = <<k[1], k[2]>>
    BY <1>1, BoundsAssumption DEF TypeOK, IsMap, Key, SessionId
  <1>3. ASSUME NEW kind, IsNext(kind), Consume, kind # "RemoveClient",
               UNCHANGED <<removing, stopRefused>>,
               \A k \in DOMAIN mTrackingSessions' :
                 \/ k \in DOMAIN mTrackingSessions
                 \/ kind = "StartTracking" /\ k = HeadKey
        PROVE  WillStop(d)'
    <2>1. msgQ # <<>> /\ removing = Idle /\ Head(msgQ).msg = kind
      BY <1>3 DEF IsNext
    <2>2. \A k \in DOMAIN mTrackingSessions' :
            \/ k \in DOMAIN mTrackingSessions
            \/ Head(msgQ).msg = "StartTracking" /\ Head(msgQ).client = k[1]
      BY <1>3, <2>1 DEF HeadKey
    <2> QED BY <1>1, <1>2, <1>3, <2>1, <2>2, ConsumedStops
  <1>4. CASE saveClient \/ handleSsr \/ restartSessions
    BY <1>3, <1>4 DEF saveClient, handleSsr, restartSessions
  <1>5. CASE handleStartTracking
    <2>1. \A k \in DOMAIN mTrackingSessions' : k \in DOMAIN mTrackingSessions \/ k = HeadKey
      BY <1>5 DEF handleStartTracking, With
    <2> QED BY <1>3, <1>5, <2>1 DEF handleStartTracking
  <1>6. CASE handleUpdateTracking
    <2>1. \A k \in DOMAIN mTrackingSessions' : k \in DOMAIN mTrackingSessions
      BY <1>6 DEF handleUpdateTracking, isTrackingSession, With
    <2> QED BY <1>3, <1>6, <2>1 DEF handleUpdateTracking
  <1>7. CASE handleStopTracking
    <2>1. \A k \in DOMAIN mTrackingSessions' : k \in DOMAIN mTrackingSessions
      BY <1>7 DEF handleStopTracking, Without
    <2> QED BY <1>3, <1>7, <2>1 DEF handleStopTracking
  <1>8. CASE handleRemoveClient
    <2>1. /\ msgQ # <<>> /\ Consume /\ Head(msgQ).msg = "RemoveClient" /\ removing = Idle
          /\ removing' = [client |-> Head(msgQ).client, from |-> 0]
          /\ UNCHANGED <<mTrackingSessions, stopRefused>>
      BY <1>8 DEF handleRemoveClient, IsNext
    <2> QED BY <1>1, <1>2, <2>1, ConsumedStops
  <1>9. CASE stopClientSession
    <2>1. PICK k \in Unvisited, err \in LocationError :
            /\ \A j \in Unvisited : k[2] <= j[2]
            /\ removing' = [removing EXCEPT !.from = k[2] + 1]
            /\ mTrackingSessions' = IF err = "SUCCESS" THEN Without(mTrackingSessions, k)
                                                       ELSE mTrackingSessions
            /\ stopRefused' = (stopRefused \/ err # "SUCCESS")
      BY <1>9 DEF stopClientSession
    <2>2. UNCHANGED msgQ /\ removing'.client = removing.client /\ removing'.from = k[2] + 1
      BY <1>1, <1>9, <2>1 DEF stopClientSession, TypeOK, Removing, Idle
    <2>3. ASSUME d \notin DOMAIN clientData, NEW j \in DOMAIN mTrackingSessions', j[1] = d
          PROVE  SessionWillStop(j)'
      <3>1. CASE err # "SUCCESS"
        BY <2>1, <3>1 DEF SessionWillStop
      <3>2. CASE err = "SUCCESS"
        <4>1. j \in DOMAIN mTrackingSessions /\ j # k
          BY <2>1, <2>3, <3>2 DEF Without
        <4>2. SessionWillStop(j)
          BY <1>1, <2>3, <4>1 DEF WillStop
        <4>3. CASE stopRefused \/ \E i \in DOMAIN msgQ : RemovalAt(i, d)
          BY <2>1, <2>2, <2>3, <4>3 DEF SessionWillStop, RemovalAt
        <4>4. CASE removing.client = d /\ j[2] >= removing.from
          <5>1. j \in Unvisited
            BY <2>3, <4>1, <4>4 DEF Unvisited
          <5>2. k[1] = j[1] /\ k \in DOMAIN mTrackingSessions
            BY <2>3, <4>4 DEF Unvisited
          <5>3. k[2] <= j[2] /\ k[2] # j[2]
            BY <1>2, <2>1, <4>1, <5>1, <5>2
          <5>4. j[2] >= removing'.from
            BY <1>2, <2>2, <4>1, <5>2, <5>3
          <5> QED BY <2>2, <2>3, <4>4, <5>4 DEF SessionWillStop
        <4> QED BY <2>3, <4>2, <4>3, <4>4 DEF SessionWillStop
      <3> QED BY <3>1, <3>2
    <2>4. StartsWillStop(d) => StartsWillStop(d)'
      BY <2>2 DEF StartsWillStop, StartAt, RemovalAt
    <2> QED BY <1>1, <2>3, <2>4 DEF WillStop
  <1>10. CASE eraseClient
    <2>1. /\ UNCHANGED <<msgQ, mTrackingSessions, stopRefused>>
          /\ Unvisited = {}
      BY <1>10 DEF eraseClient
    <2>2. StartsWillStop(d) => StartsWillStop(d)'
      BY <2>1 DEF StartsWillStop, StartAt, RemovalAt
    <2>3. ASSUME d \notin DOMAIN clientData, NEW k \in DOMAIN mTrackingSessions', k[1] = d
          PROVE  SessionWillStop(k)'
      <3>1. SessionWillStop(k)
        BY <1>1, <2>1, <2>3 DEF WillStop
      <3>2. ~ (removing.client = k[1] /\ k[2] >= removing.from)
        BY <2>1, <2>3 DEF Unvisited
      <3> QED BY <2>1, <3>1, <3>2 DEF SessionWillStop, RemovalAt
    <2> QED BY <1>1, <2>2, <2>3 DEF WillStop
  <1> QED BY <1>4, <1>5, <1>6, <1>7, <1>8, <1>9, <1>10 DEF Handle

\* A destroyed client of the GNSS interface leaves a session behind only if the engine
\* refused to stop one: a start behind which the client was destroyed is stopped too, and
\* stopClientSessions, which erases while it iterates, misses none (GnssAdapter.cpp
\* 1122-1160).
THEOREM DestroyedLeaveNoSession ==
  ASSUME OnlyGnssClients
  PROVE  Spec => []NoOrphanSession
  <1>1. Init => Stopping
    <2> SUFFICES ASSUME Init
                 PROVE  Stopping
      OBVIOUS
    <2>1. DOMAIN mTrackingSessions = {} /\ DOMAIN msgQ = {}
      BY DEF Init, Empty
    <2> QED BY <2>1, TypeInit DEF Stopping, WillStop, StartsWillStop
  <1>2. Stopping /\ [Next]_vars => Stopping'
    <2> SUFFICES ASSUME Stopping, [Next]_vars
                 PROVE  Stopping'
      OBVIOUS
    <2>1. TypeOK'
      BY TypeStep DEF Stopping
    <2>2. ASSUME NEW d \in Clients
          PROVE  WillStop(d)'
      <3>1. CASE Next
        BY <2>1, <3>1, OutsideStops, HandlerStops DEF Next
      <3>2. CASE UNCHANGED vars
        BY <3>2 DEF vars, Stopping, WillStop, StartsWillStop, SessionWillStop, StartAt, RemovalAt
      <3> QED BY <3>1, <3>2
    <2> QED BY <2>1, <2>2 DEF Stopping
  <1>3. Stopping => NoOrphanSession
    <2> SUFFICES ASSUME Stopping, NEW k \in DOMAIN mTrackingSessions,
                        k[1] \notin DOMAIN clientData, Settled(k[1])
                 PROVE  stopRefused
      BY DEF NoOrphanSession
    <2>1. k[1] \in Clients
      BY DEF Stopping, TypeOK, IsMap, Key
    <2>2. SessionWillStop(k)
      BY <2>1 DEF Stopping, WillStop
    <2>3. ASSUME NEW j \in DOMAIN msgQ
          PROVE  ~ RemovalAt(j, k[1])
      <3>1. msgQ[j] \in Msg
        BY DEF Stopping, TypeOK
      <3>2. msgQ[j].msg = "RemoveClient" => "client" \in DOMAIN msgQ[j]
        BY <3>1 DEF Msg, MsgAddClient, MsgRemoveClient, MsgStartTracking, MsgUpdateTracking,
                    MsgStopTracking, LocSsrMsg, MsgRestartSessions
      <3> QED BY <3>2 DEF Settled, RemovalAt
    <2> QED BY <2>2, <2>3 DEF SessionWillStop, Settled
  <1> QED BY <1>1, <1>2, <1>3, PTL DEF Spec
=============================================================================
