---------------------------- MODULE ServicesProofs ----------------------------
(***************************************************************************)
(* Theorems about the services, for any values of their constants: about   *)
(* LocApi, and about the instances MCServices puts next to it, here Xtr,   *)
(* Lig, Rep, Sta and Obs, in ClientProofs Geo and Ses, and in ConfigProofs *)
(* Cfg.  A step of one leaves the variables of the others alone            *)
(* (PartSteps).                                                            *)
(***************************************************************************)
EXTENDS MCServices, FiniteSetTheorems, FunctionTheorems, SequenceTheorems, WellFoundedInduction, TLAPS

-----------------------------------------------------------------------------
(* The link between the adapters and the engine, for any set of adapters,  *)
(* any events and any length of the array: the theorems are about LocApi's *)
(* own behaviours (Spec).                                                  *)

Used == {i \in Index : mLocAdapters[i] # Null}

EngineType == [up : BOOLEAN, mask : (SUBSET Events) \cup {Closed}]

\* The shape of the array: no NULL before an adapter, no adapter twice.
ArrayIsCompact ==
  /\ \A i, j \in Index : j <= i /\ mLocAdapters[i] # Null => mLocAdapters[j] # Null
  /\ \A i, j \in Index : mLocAdapters[i] # Null /\ mLocAdapters[i] = mLocAdapters[j] => i = j

\* The array holds the adapters that did not find it full.
ArrayHoldsLive == \A a \in Adapters : a \in live \ skipped <=> \E i \in Index : mLocAdapters[i] = a

\* The inductive invariant.  That every adapter is reached holds only because the array is
\* compact, and it stays compact only because no adapter is in it twice.
Served ==
  /\ TypeOK
  /\ engine \in EngineType
  /\ ArrayIsCompact
  /\ ArrayHoldsLive
  /\ EngineMaskIsWanted

-----------------------------------------------------------------------------
(* The array *)

\* A set of entries that is not empty has a last one.
LEMMA LastEntry ==
  ASSUME NEW T \in SUBSET Index, T # {}
  PROVE  \E k \in T : \A j \in T : j <= k
  <1> DEFINE D == {MAX_ADAPTERS - i : i \in T}
  <1>1. D \in SUBSET Nat /\ D # {}
    <2>1. \A i \in T : MAX_ADAPTERS - i \in Nat
      BY LocApiAssumption DEF Index
    <2> QED
      BY <2>1
  <1> HIDE DEF D
  <1>2. \E x \in D : \A y \in D : ~ (<<y, x>> \in OpToRel(<, Nat))
    BY <1>1, NatLessThanWellFounded, WFMin, Zenon
  <1>3. PICK x \in D : \A y \in D : ~ (<<y, x>> \in OpToRel(<, Nat))
    BY <1>2
  <1>4. ASSUME NEW y \in D PROVE x <= y
    <2>1. SUFFICES ASSUME y < x PROVE FALSE
      BY <1>1
    <2>2. <<y, x>> \in OpToRel(<, Nat)
      BY <1>1, <2>1, Zenon DEF OpToRel
    <2> QED
      BY <1>3, <2>2, Zenon
  <1>5. PICK k \in T : x = MAX_ADAPTERS - k
    BY DEF D
  <1>6. ASSUME NEW j \in T PROVE j <= k
    <2>1. MAX_ADAPTERS - j \in D
      BY DEF D
    <2>2. MAX_ADAPTERS - k <= MAX_ADAPTERS - j
      BY <1>4, <1>5, <2>1
    <2> QED
      BY <2>2, LocApiAssumption DEF Index
  <1> QED
    BY <1>6

\* In a compact array the entries before the first NULL are all that hold an adapter.
LEMMA ReachedIsUsed ==
  ASSUME TypeOK, ArrayIsCompact
  PROVE  Reached = Used /\ Reached \subseteq Index
  BY LocApiAssumption DEF Reached, Used, ArrayIsCompact, Index

\* So those that are reached are the adapters that did not find the array full.
LEMMA RegisteredIsLive ==
  ASSUME TypeOK, ArrayIsCompact, ArrayHoldsLive
  PROVE  Registered = live \ skipped
  <1>1. Reached = Used
    BY ReachedIsUsed
  <1>2. ASSUME NEW i \in Used PROVE mLocAdapters[i] \in live \ skipped
    BY DEF Used, TypeOK, ArrayHoldsLive
  <1>3. ASSUME NEW a \in live \ skipped PROVE \E i \in Used : mLocAdapters[i] = a
    BY LocApiAssumption DEF Used, TypeOK, ArrayHoldsLive
  <1> QED
    BY <1>1, <1>2, <1>3 DEF Registered

\* Each of them once.
LEMMA ReachedOnce ==
  ASSUME TypeOK, ArrayIsCompact
  PROVE  Cardinality(Reached) = Cardinality(Registered)
  <1> DEFINE f == [i \in Reached |-> mLocAdapters[i]]
  <1>1. Reached = Used /\ Reached \subseteq Index
    BY ReachedIsUsed
  <1>2. IsFiniteSet(Reached)
    <2>1. IsFiniteSet(Index)
      BY LocApiAssumption, FS_Interval DEF Index
    <2> QED
      BY <1>1, <2>1, FS_Subset
  <1>3. f \in Bijection(Reached, Registered)
    <2>1. f \in [Reached -> Registered]
      BY DEF Registered
    <2>2. \A i, j \in Reached : f[i] = f[j] => i = j
      BY <1>1 DEF Used, ArrayIsCompact
    <2>3. \A a \in Registered : \E i \in Reached : f[i] = a
      BY DEF Registered
    <2> QED
      BY <2>1, <2>2, <2>3 DEF Bijection, Injection, Surjection, IsInjective
  <1>4. ExistsBijection(Reached, Registered)
    BY <1>3 DEF ExistsBijection
  <1> QED
    BY <1>2, <1>4, FS_Bijection

\* The engine closes with the last adapter: one entry is reached when nobody else is left.
LEMMA OneReached ==
  ASSUME TypeOK, ArrayIsCompact, ArrayHoldsLive, NEW i \in Reached,
         Cardinality(Reached) = 1
  PROVE  live \ skipped = {mLocAdapters[i]}
  <1>1. IsFiniteSet(Reached)
    <2>1. IsFiniteSet(Index) /\ Reached \subseteq Index
      BY LocApiAssumption, FS_Interval, ReachedIsUsed DEF Index
    <2> QED
      BY <2>1, FS_Subset
  <1>2. Reached = {i}
    BY <1>1, FS_Singleton
  <1> QED
    BY <1>2, RegisteredIsLive DEF Registered

-----------------------------------------------------------------------------
(* The steps *)

\* A message that is sent leaves a queue that is not empty and not too long.
LEMMA SendType ==
  ASSUME TypeOK, NEW msg \in {"LocOpenMsg", "LocSsrMsg"}, sendMsg(msg)
  PROVE  /\ queue' \in Seq({"LocOpenMsg", "LocSsrMsg"}) /\ Len(queue') <= MaxQueue
         /\ queue' # <<>>
  BY LocApiAssumption DEF TypeOK, sendMsg

\* The wanted events are events, and only the masks of the adapters asked matter.
LEMMA MaskType ==
  ASSUME NEW A \in SUBSET Adapters, NEW masks \in [Adapters -> SUBSET Events]
  PROVE  getEvtMask(A, masks) \subseteq Events
  BY DEF getEvtMask

\* What an adapter wants does not change what the others want together.
LEMMA MaskOfOthers ==
  ASSUME NEW A \in SUBSET Adapters, NEW masks \in [Adapters -> SUBSET Events],
         NEW a \in Adapters \ A, NEW mask
  PROVE  getEvtMask(A, [masks EXCEPT ![a] = mask]) = getEvtMask(A, masks)
  <1>1. \A b \in A : [masks EXCEPT ![a] = mask][b] = masks[b]
    OBVIOUS
  <1>2. {[masks EXCEPT ![a] = mask][b] : b \in A} = {masks[b] : b \in A}
    BY <1>1
  <1> QED
    BY <1>2 DEF getEvtMask

\* Opening the engine, or closing it, changes its mask if it is up.
LEMMA OpenedType ==
  ASSUME engine \in EngineType, NEW mask \in (SUBSET Events) \cup {Closed}
  PROVE  /\ Opened(mask) \in EngineType
         /\ Opened(mask).up = engine.up
         /\ engine.up => Opened(mask).mask = mask
  BY DEF EngineType, Opened

\* An adapter is created.
LEMMA AddServed ==
  ASSUME Served, NEW a \in Adapters, NEW mask \in SUBSET Events, addAdapter(a, mask)
  PROVE  Served'
  <1> USE DEF Served
  <1> DEFINE free == {i \in Index : mLocAdapters[i] = Null}
  <1>1. /\ a \notin live /\ live' = live \cup {a}
        /\ mEvtMask' = [mEvtMask EXCEPT ![a] = mask]
        /\ UNCHANGED <<engine, told>>
    BY DEF addAdapter
  <1>2. CASE /\ free = {} /\ skipped' = skipped \cup {a}
             /\ UNCHANGED <<mLocAdapters, queue>>
    <2>1. live' \ skipped' = live \ skipped
      BY <1>1, <1>2 DEF TypeOK
    <2>2. TypeOK'
      BY <1>1, <1>2 DEF TypeOK
    <2>3. ArrayIsCompact' /\ ArrayHoldsLive'
      BY <1>2, <2>1 DEF ArrayIsCompact, ArrayHoldsLive
    <2>4. getEvtMask(live \ skipped, mEvtMask') = getEvtMask(live \ skipped, mEvtMask)
      BY <1>1, MaskOfOthers DEF TypeOK
    <2>5. EngineMaskIsWanted'
      BY <1>1, <1>2, <2>1, <2>4 DEF EngineMaskIsWanted
    <2> QED
      BY <1>1, <2>2, <2>3, <2>5
  <1>3. ASSUME NEW i \in free, \A j \in free : i <= j,
               mLocAdapters' = [mLocAdapters EXCEPT ![i] = a],
               sendMsg("LocOpenMsg"), UNCHANGED skipped
        PROVE  Served'
    <2>1. /\ queue' \in Seq({"LocOpenMsg", "LocSsrMsg"}) /\ Len(queue') <= MaxQueue
          /\ queue' # <<>>
      BY <1>3, SendType
    <2>2. TypeOK'
      BY <1>1, <1>3, <2>1 DEF TypeOK
    <2>3. ArrayIsCompact'
      <3>1. \A j \in Index : mLocAdapters'[j] = IF j = i THEN a ELSE mLocAdapters[j]
        BY <1>3 DEF TypeOK
      <3>2. a # Null /\ \A j \in Index : mLocAdapters[j] # a
        BY <1>1, LocApiAssumption DEF ArrayHoldsLive
      <3>3. \A j \in Index : j < i => mLocAdapters[j] # Null
        BY <1>3, LocApiAssumption DEF Index
      <3>4. Index \subseteq Nat /\ i \in Index
        BY LocApiAssumption DEF Index
      <3>5. ASSUME NEW k \in Index, NEW j \in Index, j <= k, mLocAdapters'[k] # Null
            PROVE  mLocAdapters'[j] # Null
        <4>1. CASE k = i
          BY <3>1, <3>2, <3>3, <3>4, <3>5, <4>1
        <4>2. CASE k # i
          BY <3>1, <3>2, <3>4, <3>5, <4>2 DEF ArrayIsCompact
        <4> QED
          BY <4>1, <4>2
      <3>6. ASSUME NEW k \in Index, NEW j \in Index, mLocAdapters'[k] # Null,
                   mLocAdapters'[k] = mLocAdapters'[j]
            PROVE  k = j
        BY <3>1, <3>2, <3>6 DEF ArrayIsCompact
      <3> QED
        BY <3>5, <3>6 DEF ArrayIsCompact
    <2>4. ArrayHoldsLive'
      <3>1. live' \ skipped' = (live \ skipped) \cup {a}
        BY <1>1, <1>3 DEF TypeOK
      <3> QED
        BY <1>3, <3>1, LocApiAssumption DEF ArrayHoldsLive, TypeOK
    <2>5. EngineMaskIsWanted'
      BY <2>1 DEF EngineMaskIsWanted
    <2> QED
      BY <1>1, <2>2, <2>3, <2>4, <2>5
  <1> QED
    BY <1>2, <1>3 DEF addAdapter

\* The last entry moved to the freed one leaves a compact array of the others.
LEMMA WithoutEntryCompact ==
  ASSUME TypeOK, ArrayIsCompact, NEW i \in Reached, mLocAdapters' = WithoutEntry(i)
  PROVE  /\ mLocAdapters' \in [Index -> Adapters \cup {Null}]
         /\ ArrayIsCompact'
         /\ \A a \in Adapters :
              (\E j \in Index : mLocAdapters'[j] = a) <=>
                a # mLocAdapters[i] /\ \E j \in Index : mLocAdapters[j] = a
  <1> DEFINE end == CHOOSE k \in Reached : \A j \in Reached : j <= k
  <1>1. Reached = Used /\ Reached \subseteq Index /\ Index \subseteq Nat
    BY ReachedIsUsed, LocApiAssumption DEF Index
  <1>2. end \in Reached /\ \A j \in Reached : j <= end
    <2>1. \E k \in Reached : \A j \in Reached : j <= k
      BY <1>1, LastEntry
    <2> QED
      BY <2>1, Zenon
  <1>3. mLocAdapters' = [mLocAdapters EXCEPT ![i] = mLocAdapters[end], ![end] = Null]
    BY DEF WithoutEntry
  <1> HIDE DEF end
  <1>4. mLocAdapters' \in [Index -> Adapters \cup {Null}]
    BY <1>1, <1>2, <1>3 DEF TypeOK
  <1>5. \A j \in Index : mLocAdapters'[j] = IF j = end THEN Null
                                            ELSE IF j = i THEN mLocAdapters[end]
                                            ELSE mLocAdapters[j]
    BY <1>1, <1>2, <1>3 DEF TypeOK
  <1>6. \A j \in Index : mLocAdapters[j] # Null => j <= end
    BY <1>1, <1>2 DEF Used
  <1>7. mLocAdapters[i] # Null /\ mLocAdapters[end] # Null
    BY <1>1, <1>2 DEF Used
  <1>8. ArrayIsCompact'
    <2>1. ASSUME NEW k \in Index, NEW j \in Index, j <= k, mLocAdapters'[k] # Null
          PROVE  mLocAdapters'[j] # Null
      <3>1. k < end
        BY <1>1, <1>2, <1>5, <1>6, <1>7, <2>1
      <3>2. j # end /\ mLocAdapters[j] # Null
        BY <1>1, <1>2, <1>7, <2>1, <3>1 DEF ArrayIsCompact
      <3> QED
        BY <1>5, <1>7, <3>2
    <2>2. ASSUME NEW k \in Index, NEW j \in Index, mLocAdapters'[k] # Null,
                 mLocAdapters'[k] = mLocAdapters'[j]
          PROVE  k = j
      BY <1>1, <1>2, <1>5, <2>2 DEF ArrayIsCompact
    <2> QED
      BY <2>1, <2>2 DEF ArrayIsCompact
  <1>9. ASSUME NEW a \in Adapters
        PROVE  (\E j \in Index : mLocAdapters'[j] = a) <=>
                 a # mLocAdapters[i] /\ \E j \in Index : mLocAdapters[j] = a
    <2>1. ASSUME NEW j \in Index, mLocAdapters'[j] = a
          PROVE  a # mLocAdapters[i] /\ \E k \in Index : mLocAdapters[k] = a
      BY <1>1, <1>2, <1>5, <2>1, LocApiAssumption DEF ArrayIsCompact
    <2>2. ASSUME NEW j \in Index, mLocAdapters[j] = a, a # mLocAdapters[i]
          PROVE  \E k \in Index : mLocAdapters'[k] = a
      BY <1>1, <1>2, <1>5, <2>2, LocApiAssumption
    <2> QED
      BY <2>1, <2>2
  <1> QED
    BY <1>4, <1>8, <1>9

\* An adapter is destroyed.
LEMMA RemoveServed ==
  ASSUME Served, NEW a \in Adapters, removeAdapter(a)
  PROVE  Served'
  <1> USE DEF Served
  <1>1. /\ a \in live /\ live' = live \ {a} /\ skipped' = skipped \ {a}
        /\ UNCHANGED <<mEvtMask, told>>
    BY DEF removeAdapter
  <1>2. Registered = live \ skipped
    BY RegisteredIsLive
  <1>3. CASE a \notin Registered /\ UNCHANGED <<mLocAdapters, queue, engine>>
    <2>1. live' \ skipped' = live \ skipped
      BY <1>1, <1>2, <1>3
    <2> QED
      BY <1>1, <1>3, <2>1 DEF TypeOK, ArrayIsCompact, ArrayHoldsLive, EngineMaskIsWanted
  <1>4. ASSUME NEW i \in Reached, mLocAdapters[i] = a, mLocAdapters' = WithoutEntry(i),
               AfterRemoval(i)
        PROVE  Served'
    <2>1. /\ mLocAdapters' \in [Index -> Adapters \cup {Null}]
          /\ ArrayIsCompact'
          /\ \A b \in Adapters :
               (\E j \in Index : mLocAdapters'[j] = b) <=>
                 b # a /\ \E j \in Index : mLocAdapters[j] = b
      BY <1>4, WithoutEntryCompact
    <2>2. live' \ skipped' = (live \ skipped) \ {a}
      BY <1>1
    <2>3. ArrayHoldsLive'
      BY <2>1, <2>2 DEF ArrayHoldsLive
    <2>4. CASE Cardinality(Reached) = 1
      <3>1. engine' = Opened(Closed) /\ UNCHANGED queue
        BY <1>4, <2>4 DEF AfterRemoval
      <3>2. engine' \in EngineType /\ engine'.up = engine.up
            /\ (engine.up => engine'.mask = Closed)
        BY <3>1, OpenedType
      <3>3. live' \ skipped' = {}
        BY <1>4, <2>2, <2>4, OneReached
      <3>4. TypeOK'
        BY <1>1, <2>1, <3>1, <3>2 DEF TypeOK, EngineType
      <3>5. EngineMaskIsWanted'
        BY <3>2, <3>3 DEF EngineMaskIsWanted
      <3> QED
        BY <2>1, <2>3, <3>2, <3>4, <3>5
    <2>5. CASE Cardinality(Reached) # 1
      <3>1. sendMsg("LocOpenMsg") /\ UNCHANGED engine
        BY <1>4, <2>5 DEF AfterRemoval
      <3>2. /\ queue' \in Seq({"LocOpenMsg", "LocSsrMsg"}) /\ Len(queue') <= MaxQueue
            /\ queue' # <<>>
        BY <3>1, SendType
      <3>3. TypeOK'
        BY <1>1, <2>1, <3>1, <3>2 DEF TypeOK
      <3> QED
        BY <2>1, <2>3, <3>1, <3>2, <3>3 DEF EngineMaskIsWanted
    <2> QED
      BY <2>4, <2>5
  <1> QED
    BY <1>3, <1>4 DEF removeAdapter

\* A mask changes, also that of an adapter the array has no entry for.
LEMMA UpdateServed ==
  ASSUME Served, NEW a \in Adapters, NEW event \in SUBSET Events,
         NEW status \in {"ENABLED", "DISABLED", "SET"}, updateEvtMask(a, event, status)
  PROVE  Served'
  <1> USE DEF Served
  <1>1. mEvtMask' \in [Adapters -> SUBSET Events]
    BY DEF updateEvtMask, Updated, TypeOK
  <1>2. Registered = live \ skipped /\ Registered \subseteq Adapters
    BY RegisteredIsLive DEF TypeOK
  <1>3. getEvtMask(Registered, mEvtMask') \in SUBSET Events
    BY <1>1, <1>2, MaskType
  <1>4. /\ engine' \in EngineType
        /\ engine'.up => engine'.mask = getEvtMask(Registered, mEvtMask')
    BY <1>3, OpenedType DEF updateEvtMask
  <1>5. UNCHANGED <<mLocAdapters, live, queue, told, skipped>>
    BY DEF updateEvtMask
  <1>6. TypeOK'
    BY <1>1, <1>4, <1>5 DEF TypeOK, EngineType
  <1> QED
    BY <1>2, <1>4, <1>5, <1>6 DEF ArrayIsCompact, ArrayHoldsLive, EngineMaskIsWanted

\* The message task opens the engine with the events wanted by then.
LEMMA HandleServed ==
  ASSUME Served, handleMsg
  PROVE  Served'
  <1> USE DEF Served
  <1>1. Registered = live \ skipped /\ Registered \subseteq Adapters
    BY RegisteredIsLive DEF TypeOK
  <1>2. getEvtMask(Registered, mEvtMask) \in SUBSET Events
    BY <1>1, MaskType DEF TypeOK
  <1>3. /\ engine' \in EngineType
        /\ engine'.up => engine'.mask = getEvtMask(Registered, mEvtMask)
    BY <1>2, OpenedType DEF handleMsg
  <1>4. /\ UNCHANGED <<mLocAdapters, live, mEvtMask, told, skipped>>
        /\ queue' \in Seq({"LocOpenMsg", "LocSsrMsg"}) /\ Len(queue') <= MaxQueue
    BY LocApiAssumption DEF handleMsg, TypeOK
  <1>5. TypeOK'
    BY <1>3, <1>4 DEF TypeOK, EngineType
  <1> QED
    BY <1>1, <1>3, <1>4, <1>5 DEF ArrayIsCompact, ArrayHoldsLive, EngineMaskIsWanted

\* The engine goes down, comes up and reports.
LEMMA EngineServed ==
  ASSUME Served, handleEngineDownEvent \/ handleEngineUpEvent \/ report
  PROVE  Served'
  <1> USE DEF Served
  <1>1. Registered = live \ skipped /\ Registered \subseteq Adapters
    BY RegisteredIsLive DEF TypeOK
  <1>2. UNCHANGED <<mLocAdapters, live, mEvtMask, skipped>>
    BY DEF handleEngineDownEvent, handleEngineUpEvent, report
  <1>3. ArrayIsCompact' /\ ArrayHoldsLive'
    BY <1>2 DEF ArrayIsCompact, ArrayHoldsLive
  <1>4. CASE handleEngineDownEvent
    BY <1>1, <1>2, <1>3, <1>4 DEF handleEngineDownEvent, TypeOK, EngineType, EngineMaskIsWanted
  <1>5. CASE handleEngineUpEvent
    <2>1. /\ queue' \in Seq({"LocOpenMsg", "LocSsrMsg"}) /\ Len(queue') <= MaxQueue
          /\ queue' # <<>>
      BY <1>5, SendType DEF handleEngineUpEvent
    <2>2. engine' \in EngineType /\ told' \subseteq Adapters
      BY <1>1, <1>5 DEF handleEngineUpEvent, EngineType
    <2> QED
      BY <1>2, <1>3, <2>1, <2>2 DEF TypeOK, EngineType, EngineMaskIsWanted
  <1>6. CASE report
    <2>1. told' \subseteq Registered
      BY <1>6 DEF report, Registered, ReachedBy1st
    <2> QED
      BY <1>1, <1>2, <1>3, <1>6, <2>1 DEF report, TypeOK, EngineMaskIsWanted
  <1> QED
    BY <1>4, <1>5, <1>6

-----------------------------------------------------------------------------
(* The theorems *)

\* There is no adapter at first and the engine is closed.
LEMMA ServedInit == Init => Served
  <1> SUFFICES ASSUME Init
               PROVE  Served
    OBVIOUS
  <1>1. TypeOK
    BY LocApiAssumption DEF Init, TypeOK
  <1>2. engine \in EngineType
    BY DEF Init, EngineType
  <1>3. ArrayIsCompact /\ ArrayHoldsLive
    BY LocApiAssumption DEF Init, ArrayIsCompact, ArrayHoldsLive
  <1>4. EngineMaskIsWanted
    BY DEF Init, EngineMaskIsWanted
  <1> QED
    BY <1>1, <1>2, <1>3, <1>4 DEF Served

\* Every step keeps the inductive invariant.
LEMMA ServedStep == Served /\ [Next]_vars => Served'
  <1> SUFFICES ASSUME Served, [Next]_vars
               PROVE  Served'
    OBVIOUS
  <1>1. CASE UNCHANGED vars
    BY <1>1 DEF vars, Served, TypeOK, ArrayIsCompact, ArrayHoldsLive, EngineMaskIsWanted
  <1>2. CASE Next
    BY <1>2, AddServed, RemoveServed, UpdateServed, HandleServed, EngineServed DEF Next
  <1> QED
    BY <1>1, <1>2

\* The array, the masks and the queue keep their types.
THEOREM AdaptersTyped == Spec => []TypeOK
  <1>1. Served => TypeOK
    BY DEF Served
  <1> QED
    BY ServedInit, ServedStep, <1>1, PTL DEF Spec

\* Every adapter that found a free entry is reached by each report, once, and an engine
\* that is up and has no message to wait for reports what these adapters want and no more,
\* whatever the order of creations, removals, changes of a mask and restarts of the engine
\* (LocApiBase.cpp 87-225).
THEOREM EveryoneIsServed == Spec => []AdaptersAreServed
  <1>1. Served => AdaptersAreServed
    BY RegisteredIsLive, ReachedOnce DEF Served, AdaptersAreServed, AdaptersAreReached
  <1> QED
    BY ServedInit, ServedStep, <1>1, PTL DEF Spec

-----------------------------------------------------------------------------
(* The other services *)

\* A step of MCServices is a step of each of its components, or leaves it as it is.
LEMMA PartSteps ==
  ASSUME [MCNext]_mcvars
  PROVE  /\ [Xtr!Next]_xtraVars
         /\ [Lig!Next]_lightVars
         /\ [Cfg!Next]_configVars
         /\ [Rep!Next]_reportVars
         /\ [Sta!StatusNext]_statusVars
         /\ [Obs!Next]_observerVars
         /\ [Geo!Next]_geofenceVars
         /\ [Ses!Next]_sessionVars
  BY DEF MCNext, Part, Rest, mcvars

-----------------------------------------------------------------------------
(* The XTRA daemon.  DaemonIsCurrent is not inductive: an update reaches the *)
(* daemon only if the status was requested, which for a daemon that is       *)
(* synced it was.                                                            *)

XtraInv ==
  /\ mine \in [Xtr!AllFields -> Values \union {Unsaid}]
  /\ DOMAIN daemon = {"up", "knows"}
  /\ daemon.knows \in [Xtr!AllFields -> Values \union {Unsaid}]
  /\ mReqStatusReceived \in BOOLEAN
  /\ synced /\ daemon.up => mReqStatusReceived /\ \A f \in Fields : daemon.knows[f] = mine[f]

\* Sending some fields to the daemon makes it know these, if it is up.
LEMMA XtraSent ==
  ASSUME NEW d, NEW fields, NEW values, d = Xtr!Sent(fields, values), XtraInv,
         values \in [Xtr!AllFields -> Values \union {Unsaid}]
  PROVE  /\ DOMAIN d = {"up", "knows"} /\ d.up = daemon.up
         /\ d.knows \in [Xtr!AllFields -> Values \union {Unsaid}]
         /\ daemon.up => \A f \in Xtr!AllFields :
              d.knows[f] = IF f \in fields THEN values[f] ELSE daemon.knows[f]
  BY DEF XtraInv, Xtr!Sent

\* Every step of the observer and of the daemon keeps the invariant.
LEMMA XtraStep ==
  ASSUME XtraInv, [Xtr!Next]_xtraVars
  PROVE  XtraInv'
  <1>1. ASSUME NEW f \in Xtr!AllFields, NEW v \in Values, Xtr!update(f, v)
        PROVE  XtraInv'
    <2>1. /\ mine' = [mine EXCEPT ![f] = v] /\ UNCHANGED <<mReqStatusReceived, synced>>
          /\ daemon' = IF mReqStatusReceived THEN Xtr!Sent({f}, mine') ELSE daemon
      BY <1>1 DEF Xtr!update
    <2>2. mine' \in [Xtr!AllFields -> Values \union {Unsaid}]
      BY <2>1 DEF XtraInv
    <2>3. CASE mReqStatusReceived
      <3>1. daemon' = Xtr!Sent({f}, mine')
        BY <2>1, <2>3
      <3>2. /\ DOMAIN daemon' = {"up", "knows"} /\ daemon'.up = daemon.up
            /\ daemon'.knows \in [Xtr!AllFields -> Values \union {Unsaid}]
            /\ daemon.up => \A g \in Xtr!AllFields :
                 daemon'.knows[g] = IF g \in {f} THEN mine'[g] ELSE daemon.knows[g]
        BY <2>2, <3>1, XtraSent
      <3>3. Fields \subseteq Xtr!AllFields
        BY DEF Xtr!AllFields
      <3> QED
        BY <2>1, <2>2, <2>3, <3>2, <3>3 DEF XtraInv
    <2>4. CASE ~mReqStatusReceived
      BY <2>1, <2>2, <2>4 DEF XtraInv
    <2> QED
      BY <2>3, <2>4
  <1>2. ASSUME NEW hasIt \in BOOLEAN, Xtr!onStatusRequested(hasIt)
        PROVE  XtraInv'
    <2>1. /\ mReqStatusReceived' = TRUE /\ UNCHANGED mine
          /\ daemon' = IF hasIt THEN daemon ELSE Xtr!Sent(Fields, mine)
          /\ synced' = (synced \/ (~hasIt /\ daemon.up))
      BY <1>2 DEF Xtr!onStatusRequested
    <2>2. CASE hasIt
      BY <2>1, <2>2 DEF XtraInv
    <2>3. CASE ~hasIt
      BY <2>1, <2>3, XtraSent DEF XtraInv, Xtr!AllFields
    <2> QED
      BY <2>2, <2>3
  <1>3. CASE Xtr!DaemonStarts
    BY <1>3 DEF Xtr!DaemonStarts, XtraInv, Xtr!Blank
  <1>4. CASE Xtr!DaemonAsksAgain \/ Xtr!DaemonStops
    BY <1>4 DEF Xtr!DaemonAsksAgain, Xtr!DaemonStops, XtraInv
  <1>5. CASE UNCHANGED xtraVars
    BY <1>5 DEF xtraVars, XtraInv
  <1>6. CASE Xtr!notify
    BY <1>1, <1>6 DEF Xtr!notify, Xtr!AllFields
  <1> QED
    BY <1>1, <1>2, <1>3, <1>4, <1>5, <1>6 DEF Xtr!Next

\* A daemon that was answered knows the lock, the connections, the TAC and the MCC/MNC as
\* they are, whenever it crashes and whatever is lost (XtraSystemStatusObserver.cpp 59-170).
THEOREM DaemonCurrent == MCSpec => []DaemonIsCurrent
  <1>1. MCInit => XtraInv
    <2>1. MCInit => Xtr!Init
      BY DEF MCInit
    <2>2. Xtr!Blank \in [Xtr!AllFields -> Values \union {Unsaid}]
      BY DEF Xtr!Blank
    <2>3. Xtr!Init => XtraInv
      <3> SUFFICES ASSUME Xtr!Init
                   PROVE  XtraInv
        OBVIOUS
      <3>1. mine = Xtr!Blank /\ daemon = [up |-> FALSE, knows |-> Xtr!Blank]
        BY DEF Xtr!Init
      <3>2. mReqStatusReceived \in BOOLEAN /\ ~synced
        BY DEF Xtr!Init
      <3>3. DOMAIN daemon = {"up", "knows"} /\ daemon.knows = Xtr!Blank
        BY <3>1
      <3> QED
        BY <2>2, <3>1, <3>2, <3>3 DEF XtraInv
    <2> QED
      BY <2>1, <2>3
  <1>2. XtraInv /\ [MCNext]_mcvars => XtraInv'
    BY PartSteps, XtraStep
  <1>3. XtraInv => DaemonIsCurrent
    BY DEF XtraInv, DaemonIsCurrent, Xtr!DaemonIsCurrent
  <1> QED
    BY <1>1, <1>2, <1>3, PTL DEF MCSpec

-----------------------------------------------------------------------------
(* The lights.  What the files hold is what the last call wrote for the light *)
(* that is shown; that this is the light which is wanted, and that the files  *)
(* show it as asked for, is arithmetic of bytes and milliseconds.             *)

\* What the framework sets a light to.
Byte == 0 .. 255
LightState == [alpha : Byte, rgb : [Lig!RGB -> Byte], mode : {"NONE", "TIMED"}, on : Nat, off : Nat]
Lamp == {"attention", "notification", "battery"}

\* Division as the code uses it.
LEMMA Quotients ==
  ASSUME NEW n \in Nat, NEW k \in Nat, k > 0
  PROVE  /\ n \div k \in Nat /\ k * (n \div k) <= n /\ n < k * (n \div k) + k
  OBVIOUS

\* Dimming a color: it is no brighter, and is dark if less than one of 255 is left.
LEMMA ScaledByte ==
  ASSUME NEW r \in Byte, NEW a \in 1 .. 254
  PROVE  /\ (r * a) \div 255 \in Byte /\ (r * a) \div 255 <= r
         /\ (r * a) \div 255 # 0 <=> r * a >= 255
         /\ r = 0 => (r * a) \div 255 = 0
  <1>1. r * a \in Nat /\ r * a <= r * 255
    BY DEF Byte
  <1> DEFINE q == (r * a) \div 255
  <1>2. q \in Nat /\ 255 * q <= r * a /\ r * a < 255 * q + 255
    BY <1>1, Quotients
  <1> HIDE DEF q
  <1>3. q <= r
    BY <1>1, <1>2 DEF Byte
  <1>4. q # 0 <=> r * a >= 255
    BY <1>1, <1>2
  <1>5. r = 0 => r * a = 0
    BY DEF Byte
  <1>6. r = 0 => q = 0
    BY <1>2, <1>5
  <1> QED
    BY <1>2, <1>3, <1>4, <1>6 DEF q, Byte

\* A dimmed notification blinks as it did, with the colors that are left of it.
LEMMA ScaledState ==
  ASSUME NEW s \in LightState
  PROVE  /\ Lig!Scaled(s) \in LightState
         /\ Lig!Blinks(Lig!Scaled(s)) <=> Lig!Blinks(s)
         /\ Lig!Scaled(s).on = s.on /\ Lig!Scaled(s).off = s.off
         /\ \A c \in Lig!RGB : /\ Lig!Scaled(s).rgb[c] <= s.rgb[c]
                               /\ s.rgb[c] = 0 => Lig!Scaled(s).rgb[c] = 0
                               /\ Lig!Scaled(s).rgb[c] # 0 <=>
                                    IF s.alpha \in 1 .. 254 THEN s.rgb[c] * s.alpha >= 255 ELSE s.rgb[c] > 0
  <1>1. CASE s.alpha \in 1 .. 254
    <2> DEFINE dimmed == [c \in Lig!RGB |-> (s.rgb[c] * s.alpha) \div 255]
    <2>1. Lig!Scaled(s) = [s EXCEPT !.rgb = dimmed, !.alpha = 0]
      BY <1>1 DEF Lig!Scaled
    <2>2. \A c \in Lig!RGB : s.rgb[c] \in Byte
      BY DEF LightState
    <2>3. \A c \in Lig!RGB : /\ dimmed[c] \in Byte /\ dimmed[c] <= s.rgb[c]
                             /\ dimmed[c] # 0 <=> s.rgb[c] * s.alpha >= 255
                             /\ s.rgb[c] = 0 => dimmed[c] = 0
      BY <1>1, <2>2, ScaledByte
    <2>4. dimmed \in [Lig!RGB -> Byte]
      BY <2>3
    <2> HIDE DEF dimmed
    <2>5. /\ Lig!Scaled(s) \in LightState /\ Lig!Scaled(s).rgb = dimmed
          /\ Lig!Scaled(s).mode = s.mode /\ Lig!Scaled(s).on = s.on /\ Lig!Scaled(s).off = s.off
      <3>1. s = [alpha |-> s.alpha, rgb |-> s.rgb, mode |-> s.mode, on |-> s.on, off |-> s.off]
        BY DEF LightState
      <3>2. Lig!Scaled(s) = [alpha |-> 0, rgb |-> dimmed, mode |-> s.mode, on |-> s.on, off |-> s.off]
        BY <2>1, <3>1
      <3>3. s.mode \in {"NONE", "TIMED"} /\ s.on \in Nat /\ s.off \in Nat /\ 0 \in Byte
        BY DEF LightState, Byte
      <3> QED
        BY <2>4, <3>2, <3>3 DEF LightState
    <2> QED
      BY <1>1, <2>3, <2>5 DEF Lig!Blinks
  <1>2. CASE s.alpha \notin 1 .. 254
    <2>1. Lig!Scaled(s) = s /\ \A c \in Lig!RGB : s.rgb[c] \in Byte
      BY <1>2 DEF Lig!Scaled, LightState
    <2> QED
      BY <1>2, <2>1 DEF LightState, Byte
  <1> QED
    BY <1>1, <1>2

\* The state of each light is the one it was set to, dimmed if it is a notification, and the
\* files are those that set_speaker_light_locked writes for the light that is shown.
Dimmed(l, s) == IF l = "notification" THEN Lig!Scaled(s) ELSE s

LedShows(s) ==
  IF Lig!Blinks(s)
  THEN /\ rgb_blink = 1
       /\ \A c \in Lig!RGB : blinkLed[c] = [duty |-> Lig!get_scaled_duty_pcts(s.rgb[c]), lo |-> s.off,
                                           hi |-> Lig!RampOf(s.on).hi, step |-> Lig!RampOf(s.on).step]
  ELSE rgb_blink = 0 /\ \A c \in Lig!RGB : led[c] = s.rgb[c]

LightsInv ==
  /\ requested \in [Lamp -> LightState] /\ lights \in [Lamp -> LightState]
  /\ \A l \in Lamp : lights[l] = Dimmed(l, requested[l])
  /\ LedShows(Lig!Shown(lights))

\* A call writes the files of what is shown.
LEMMA LightsStep ==
  ASSUME LightsInv, [Lig!Next]_lightVars
  PROVE  LightsInv'
  <1>1. ASSUME NEW l \in Lamp, NEW s \in States, Lig!set_light(l, s)
        PROVE  LightsInv'
    <2>1. s \in LightState
      BY ServicesAssumption DEF ServicesAssumption, LightState, Byte, Lig!RGB
    <2>2. Dimmed(l, s) \in LightState
      BY <2>1, ScaledState DEF Dimmed
    <2>3. /\ lights' = [lights EXCEPT ![l] = Dimmed(l, s)]
          /\ requested' = [requested EXCEPT ![l] = s]
          /\ Lig!set_speaker_light_locked(Lig!Shown(lights'))
      BY <1>1 DEF Lig!set_light, Dimmed
    <2>4. requested' \in [Lamp -> LightState] /\ lights' \in [Lamp -> LightState]
      BY <2>1, <2>2, <2>3 DEF LightsInv
    <2>5. \A k \in Lamp : lights'[k] = Dimmed(k, requested'[k])
      BY <2>3 DEF LightsInv
    <2>6. PICK top : top = Lig!Shown(lights')
      OBVIOUS
    <2>7. Lig!set_speaker_light_locked(top)
      BY <2>3, <2>6
    <2>8. LedShows(top)'
      BY <2>7 DEF Lig!set_speaker_light_locked, LedShows
    <2>9. LedShows(Lig!Shown(lights))'
      BY <2>6, <2>8 DEF LedShows
    <2> QED
      BY <2>4, <2>5, <2>9 DEF LightsInv
  <1>2. ASSUME NEW p \in DOMAIN panel, NEW s \in States, Lig!set_light_panel(p, s)
        PROVE  LightsInv'
    BY <1>2 DEF Lig!set_light_panel, LightsInv, LedShows
  <1>3. CASE UNCHANGED lightVars
    BY <1>3 DEF lightVars, LightsInv, LedShows
  <1>4. DOMAIN lights = Lamp
    BY DEF LightsInv
  <1> QED
    BY <1>1, <1>2, <1>3, <1>4 DEF Lig!Next

\* All lights are off at first.
LEMMA LightsInit ==
  ASSUME Lig!Init
  PROVE  LightsInv
  <1>1. lights = [l \in Lamp |-> Lig!Off] /\ requested = lights
    BY DEF Lig!Init, Lamp
  <1>2. Lig!Off \in LightState /\ \A c \in Lig!RGB : Lig!Off.rgb[c] = 0
    BY DEF Lig!Off, LightState, Byte, Lig!RGB
  <1>3. Lig!Scaled(Lig!Off) = Lig!Off /\ ~Lig!Blinks(Lig!Off)
    BY DEF Lig!Off, Lig!Scaled, Lig!Blinks
  <1>4. Lig!Shown(lights) = Lig!Off
    BY <1>1 DEF Lig!Shown, Lamp
  <1>5. rgb_blink = 0 /\ \A c \in Lig!RGB : led[c] = 0
    BY DEF Lig!Init
  <1> QED
    BY <1>1, <1>2, <1>3, <1>4, <1>5 DEF LightsInv, LedShows, Dimmed

\* The two ramps and the time between take the time of the flash but for less than a
\* millisecond for each step of a ramp.
LEMMA RampTime ==
  ASSUME NEW on \in Nat
  PROVE  LET time == 2 * Lig!RAMP_SIZE * Lig!RampOf(on).step + Lig!RampOf(on).hi
         IN  time <= on /\ on < time + 2 * Lig!RAMP_SIZE
  <1>1. CASE 800 > on
    <2>1. Lig!RampOf(on) = [step |-> on \div 16, hi |-> 0]
      BY <1>1 DEF Lig!RampOf, Lig!RAMP_SIZE, Lig!RAMP_STEP_DURATION
    <2>2. on \div 16 \in Nat /\ 16 * (on \div 16) <= on /\ on < 16 * (on \div 16) + 16
      BY Quotients
    <2> QED
      BY <2>1, <2>2 DEF Lig!RAMP_SIZE
  <1>2. CASE ~(800 > on)
    BY <1>2 DEF Lig!RampOf, Lig!RAMP_SIZE, Lig!RAMP_STEP_DURATION
  <1> QED
    BY <1>1, <1>2

\* A color that is not in the light is dark in every step of the ramp.
LEMMA DarkRamp ==
  ASSUME NEW i \in 1 .. Lig!RAMP_SIZE
  PROVE  Lig!get_scaled_duty_pcts(0)[i] = 0
  <1>1. Lig!BRIGHTNESS_RAMP[i] \in Nat
    BY DEF Lig!BRIGHTNESS_RAMP, Lig!RAMP_SIZE
  <1>2. Lig!BRIGHTNESS_RAMP[i] * 0 = 0
    BY <1>1
  <1>3. 0 \div 255 = 0
    BY Quotients
  <1> QED
    BY <1>2, <1>3 DEF Lig!get_scaled_duty_pcts

\* The light that is shown is the one that is wanted.
LEMMA TopIsWanted ==
  ASSUME LightsInv
  PROVE  Lig!Wanted \in Lamp /\ Lig!Shown(lights) = Dimmed(Lig!Wanted, requested[Lig!Wanted])
  <1> DEFINE visible(l) ==
        \E c \in Lig!RGB :
          IF l = "notification" /\ requested[l].alpha \in 1 .. 254
          THEN requested[l].rgb[c] * requested[l].alpha >= 255 ELSE requested[l].rgb[c] > 0
      top == IF visible("attention") THEN "attention"
             ELSE IF visible("notification") THEN "notification" ELSE "battery"
  <1>1. \A l \in Lamp : Lig!is_lit(lights[l]) <=> visible(l)
    <2> SUFFICES ASSUME NEW l \in Lamp
                 PROVE  Lig!is_lit(lights[l]) <=> visible(l)
      OBVIOUS
    <2>1. requested[l] \in LightState /\ lights[l] = Dimmed(l, requested[l])
      BY DEF LightsInv
    <2>2. \A c \in Lig!RGB : requested[l].rgb[c] \in Byte
      BY <2>1 DEF LightState
    <2>3. CASE l = "notification"
      <3>1. PICK s \in LightState : s = requested[l] /\ lights[l] = Lig!Scaled(s)
        BY <2>1, <2>3 DEF Dimmed
      <3>2. \A c \in Lig!RGB : Lig!Scaled(s).rgb[c] # 0 <=>
              IF s.alpha \in 1 .. 254 THEN s.rgb[c] * s.alpha >= 255 ELSE s.rgb[c] > 0
        BY ScaledState
      <3>3. Lig!is_lit(lights[l]) <=> \E c \in Lig!RGB : Lig!Scaled(s).rgb[c] # 0
        BY <3>1 DEF Lig!is_lit
      <3>4. \A c \in Lig!RGB : Lig!Scaled(s).rgb[c] # 0 <=>
              IF l = "notification" /\ requested[l].alpha \in 1 .. 254
              THEN requested[l].rgb[c] * requested[l].alpha >= 255 ELSE requested[l].rgb[c] > 0
        BY <2>3, <3>1, <3>2
      <3>5. visible(l) <=> \E c \in Lig!RGB : Lig!Scaled(s).rgb[c] # 0
        BY <3>4, Zenon
      <3> QED
        BY <3>3, <3>5, Zenon
    <2>4. CASE l # "notification"
      <3>1. lights[l] = requested[l]
        BY <2>1, <2>4 DEF Dimmed
      <3>2. \A c \in Lig!RGB : requested[l].rgb[c] # 0 <=> requested[l].rgb[c] > 0
        BY <2>2 DEF Byte
      <3> QED
        BY <2>4, <3>1, <3>2 DEF Lig!is_lit
    <2> QED
      BY <2>3, <2>4
  <1> HIDE DEF visible
  <1>2. Lig!Wanted = top
    <2>1. DOMAIN lights = Lamp
      BY DEF LightsInv
    <2>2. Lig!Wanted = CHOOSE l \in Lamp :
            \/ l = "attention" /\ visible(l)
            \/ l = "notification" /\ visible(l) /\ ~visible("attention")
            \/ l = "battery" /\ ~visible("attention") /\ ~visible("notification")
      BY <2>1 DEF Lig!Wanted, visible
    <2> QED
      BY <2>2 DEF Lamp
  <1>3. Lig!Shown(lights) = lights[top]
    BY <1>1 DEF Lig!Shown, Lamp
  <1>4. top \in Lamp
    BY DEF Lamp
  <1> QED
    BY <1>2, <1>3, <1>4 DEF LightsInv

\* What the LED shows does not depend on the lights before: it blinks exactly if the light on
\* top asks for it, for the time asked for but for less than one step of each ramp, and a
\* color that is not in the light is dark (lights.c 237-336).
THEOREM LedTrue == MCSpec => []LedShowsTopLight
  <1>1. MCInit => LightsInv
    BY LightsInit DEF MCInit
  <1>2. LightsInv /\ [MCNext]_mcvars => LightsInv'
    BY PartSteps, LightsStep
  <1>3. LightsInv => LedShowsTopLight
    <2> SUFFICES ASSUME LightsInv
                 PROVE  Lig!LedShowsTopLight
      BY DEF LedShowsTopLight
    <2> DEFINE s == requested[Lig!Wanted]
               t == Lig!Shown(lights)
    <2>1. s \in LightState /\ t = Dimmed(Lig!Wanted, s) /\ LedShows(t)
      BY TopIsWanted DEF LightsInv
    <2> HIDE DEF s, t
    <2>2. /\ t \in LightState
          /\ Lig!Blinks(t) <=> Lig!Blinks(s)
          /\ t.on = s.on /\ t.off = s.off
          /\ \A c \in Lig!RGB : t.rgb[c] <= s.rgb[c] /\ (s.rgb[c] = 0 => t.rgb[c] = 0)
      <3>1. CASE Lig!Wanted = "notification"
        BY <2>1, <3>1, ScaledState DEF Dimmed
      <3>2. CASE Lig!Wanted # "notification"
        <4>1. \A c \in Lig!RGB : s.rgb[c] \in Byte
          BY <2>1 DEF LightState
        <4> QED
          BY <2>1, <3>2, <4>1 DEF Dimmed, Byte
      <3> QED
        BY <3>1, <3>2
    <2>3. CASE Lig!Blinks(t)
      <3>1. /\ rgb_blink = 1
            /\ \A c \in Lig!RGB : /\ blinkLed[c].duty = Lig!get_scaled_duty_pcts(t.rgb[c])
                                  /\ blinkLed[c].lo = s.off /\ blinkLed[c].hi = Lig!RampOf(s.on).hi
                                  /\ blinkLed[c].step = Lig!RampOf(s.on).step
        <4>1. /\ rgb_blink = 1
              /\ \A c \in Lig!RGB : blinkLed[c] =
                   [duty |-> Lig!get_scaled_duty_pcts(t.rgb[c]), lo |-> s.off,
                    hi |-> Lig!RampOf(s.on).hi, step |-> Lig!RampOf(s.on).step]
          BY <2>1, <2>2, <2>3 DEF LedShows
        <4> SUFFICES ASSUME NEW c \in Lig!RGB
                     PROVE  /\ blinkLed[c].duty = Lig!get_scaled_duty_pcts(t.rgb[c])
                            /\ blinkLed[c].lo = s.off /\ blinkLed[c].hi = Lig!RampOf(s.on).hi
                            /\ blinkLed[c].step = Lig!RampOf(s.on).step
          BY <4>1
        <4> DEFINE duty == Lig!get_scaled_duty_pcts(t.rgb[c])
                   hi == Lig!RampOf(s.on).hi
                   step == Lig!RampOf(s.on).step
        <4>2. blinkLed[c] = [duty |-> duty, lo |-> s.off, hi |-> hi, step |-> step]
          BY <4>1
        <4> HIDE DEF duty, hi, step
        <4>3. /\ blinkLed[c].duty = duty /\ blinkLed[c].lo = s.off
              /\ blinkLed[c].hi = hi /\ blinkLed[c].step = step
          BY <4>2
        <4> QED
          BY <4>3 DEF duty, hi, step
      <3>2. ASSUME NEW c \in Lig!RGB, s.rgb[c] = 0
            PROVE  \A i \in 1 .. Lig!RAMP_SIZE : blinkLed[c].duty[i] = 0
        BY <2>2, <3>1, <3>2, DarkRamp
      <3>3. ASSUME NEW c \in Lig!RGB
            PROVE  LET time == 2 * Lig!RAMP_SIZE * blinkLed[c].step + blinkLed[c].hi
                   IN  time <= s.on /\ s.on < time + 2 * Lig!RAMP_SIZE /\ blinkLed[c].lo = s.off
        <4>1. s.on \in Nat
          BY <2>1 DEF LightState
        <4> QED
          BY <3>1, <4>1, RampTime
      <3> QED
        <4>1. rgb_blink = 1 /\ rgb_blink # 0 /\ Lig!Blinks(s)
          BY <2>2, <2>3, <3>1
        <4> QED
          BY <4>1, <3>2, <3>3 DEF Lig!LedShowsTopLight, s
    <2>4. CASE ~Lig!Blinks(t)
      <3>1. rgb_blink = 0 /\ \A c \in Lig!RGB : led[c] = t.rgb[c]
        BY <2>1, <2>4 DEF LedShows
      <3>2. \A c \in Lig!RGB : led[c] <= s.rgb[c] /\ (s.rgb[c] = 0 => led[c] = 0)
        BY <2>2, <3>1
      <3> QED
        BY <2>2, <2>4, <3>1, <3>2 DEF Lig!LedShowsTopLight, s
    <2> QED
      BY <2>3, <2>4
  <1> QED
    BY <1>1, <1>2, <1>3, PTL DEF MCSpec

-----------------------------------------------------------------------------
(* The reports.  FixFlagsSatellites is not inductive: the flags that a       *)
(* satellite report gets come from what was kept of the fix before it, which *)
(* is kept only as long as that fix is the last report and was delivered.    *)

SvReport == [type : Rep!Constellation, svId : Nat, used : BOOLEAN]

ReportsInv ==
  /\ DOMAIN lastReport = {"kind", "sv"}
  /\ lastReport = [kind |-> lastReport.kind, sv |-> lastReport.sv]
  /\ svUsedAvail \in BOOLEAN
  /\ lastReport.kind = "fix" => used = IF svUsedAvail THEN svUsed ELSE Rep!NoneUsed
  /\ lastReport.kind # "fix" => ~svUsedAvail
  /\ Rep!FixFlagsSatellites

\* A satellite whose number a 32-bit shift can express is flagged if it came with the flag or
\* is one of the satellites that were kept; no satellite loses its constellation.
LEMMA FlaggedSv ==
  ASSUME NEW sv \in SvReport, NEW wraps \in BOOLEAN, svUsedAvail \in BOOLEAN, sv.svId < 32
  PROVE  Rep!Flagged(sv, wraps).used <=> sv.used \/ (svUsedAvail /\ sv.svId \in svUsed[sv.type])
  <1>1. Rep!Bits(sv.svId, wraps) = {sv.svId}
    BY DEF Rep!Bits
  <1>2. DOMAIN sv = {"type", "svId", "used"} /\ sv.used \in BOOLEAN
    BY DEF SvReport
  <1>3. Rep!Flagged(sv, wraps).used = (sv.used \/ (svUsedAvail /\ svUsed[sv.type] \cap {sv.svId} # {}))
    BY <1>1, <1>2 DEF Rep!Flagged, Rep!Numbered
  <1> QED
    BY <1>3

\* Every report keeps the invariant.
LEMMA ReportsStep ==
  ASSUME ReportsInv, [Rep!Next]_reportVars
  PROVE  ReportsInv'
  <1>1. CASE Rep!SetTracking
    BY <1>1 DEF Rep!SetTracking, ReportsInv, Rep!FixFlagsSatellites
  <1>2. ASSUME NEW fix \in Fixes, Rep!reportPosition(fix)
        PROVE  ReportsInv'
    <2>1. /\ lastReport' = [kind |-> "fix", sv |-> <<>>]
          /\ used' = IF Rep!needReport(fix) THEN fix.used ELSE Rep!NoneUsed
      BY <1>2 DEF Rep!reportPosition, Rep!NoReport
    <2>2. /\ svUsedAvail' \in BOOLEAN
          /\ svUsedAvail' <=> Rep!needReport(fix) /\ fix.used # Rep!NoneUsed
          /\ svUsedAvail' => svUsed' = fix.used
      BY <1>2 DEF Rep!reportPosition, Rep!RememberSvUsed
    <2>3. used' = IF svUsedAvail' THEN svUsed' ELSE Rep!NoneUsed
      BY <2>1, <2>2
    <2> QED
      BY <2>1, <2>2, <2>3 DEF ReportsInv, Rep!FixFlagsSatellites, Rep!NoneUsed
  <1>3. ASSUME NEW svNotify \in SvReports, Rep!reportSv(svNotify)
        PROVE  ReportsInv'
    <2>1. PICK wraps \in BOOLEAN :
            /\ svStatus' = IF "sv" \in callbacks
                           THEN Rep!convertGnssSvStatus([k \in DOMAIN svNotify |->
                                                           Rep!Flagged(svNotify[k], wraps)])
                           ELSE svStatus
            /\ svUsedAvail' = FALSE
            /\ lastReport' = [kind |-> "sv", sv |-> svNotify]
            /\ used' = IF lastReport.kind = "fix" THEN used ELSE Rep!NoneUsed
            /\ callbacks' = callbacks
      BY <1>3 DEF Rep!reportSv, Rep!NoReport
    <2>2. svNotify \in Seq(SvReport) /\ MaxSvs \in Nat
      BY ReportsAssumption DEF SvReport
    <2>3. PICK flagged : flagged = [k \in DOMAIN svNotify |-> Rep!Flagged(svNotify[k], wraps)]
      OBVIOUS
    <2> DEFINE status == Rep!convertGnssSvStatus(flagged)
    <2>4. DOMAIN status \subseteq DOMAIN svNotify /\ \A k \in DOMAIN status : status[k] = flagged[k]
      <3>1. flagged \in Seq({flagged[k] : k \in DOMAIN flagged}) /\ Len(flagged) = Len(svNotify)
        BY <2>2, <2>3
      <3> QED
        BY <2>2, <2>3, <3>1 DEF Rep!convertGnssSvStatus
    <2>5. \A sv \in SvReport :
            svUsedAvail /\ sv.svId \in svUsed[sv.type] <=> sv.svId \in used'[sv.type]
      BY <2>1 DEF ReportsInv, SvReport, Rep!NoneUsed
    <2>6. "sv" \in callbacks => svStatus' = status
      BY <2>1, <2>3
    <2> HIDE DEF status
    <2>7. ASSUME "sv" \in callbacks, NEW k \in DOMAIN svStatus', svNotify[k].svId < 32
          PROVE  svStatus'[k].used <=>
                   svNotify[k].used \/ svNotify[k].svId \in used'[svNotify[k].type]
      <3>1. k \in DOMAIN svNotify /\ svStatus'[k] = Rep!Flagged(svNotify[k], wraps)
        BY <2>3, <2>4, <2>6, <2>7
      <3>2. svNotify[k] \in SvReport
        BY <2>2, <3>1
      <3> QED
        BY <2>5, <2>7, <3>1, <3>2, FlaggedSv DEF ReportsInv
    <2>8. Rep!FixFlagsSatellites'
      BY <2>1, <2>7 DEF Rep!FixFlagsSatellites
    <2> QED
      BY <2>1, <2>8 DEF ReportsInv
  <1>4. ASSUME NEW debug \in BOOLEAN, Rep!reportNmea(debug)
        PROVE  ReportsInv'
    <2>1. /\ lastReport' = [kind |-> IF lastReport.kind = "sv" THEN "none" ELSE lastReport.kind,
                            sv |-> lastReport.sv]
          /\ UNCHANGED <<callbacks, svUsedAvail, svUsed, svStatus, used>>
      <3>1. lastReport' = [lastReport EXCEPT !.kind = IF @ = "sv" THEN "none" ELSE @]
        BY <1>4 DEF Rep!reportNmea
      <3>2. lastReport = [kind |-> lastReport.kind, sv |-> lastReport.sv]
        BY DEF ReportsInv
      <3> QED
        BY <1>4, <3>1, <3>2 DEF Rep!reportNmea
    <2> QED
      BY <2>1 DEF ReportsInv, Rep!FixFlagsSatellites
  <1>5. CASE UNCHANGED reportVars
    BY <1>5 DEF reportVars, ReportsInv, Rep!FixFlagsSatellites
  <1> QED
    BY <1>1, <1>2, <1>3, <1>4, <1>5 DEF Rep!Next

\* Nothing was reported at the start.
LEMMA ReportsStart == MCInit => ReportsInv
  <1>1. MCInit => Rep!Init
    BY DEF MCInit
  <1>2. Rep!Init => lastReport = [kind |-> "none", sv |-> <<>>] /\ svUsedAvail = FALSE
    BY DEF Rep!Init, Rep!NoReport
  <1>3. Rep!Init => /\ DOMAIN lastReport = {"kind", "sv"} /\ lastReport.kind = "none"
                    /\ lastReport = [kind |-> lastReport.kind, sv |-> lastReport.sv]
    BY <1>2
  <1> QED
    BY <1>1, <1>2, <1>3 DEF ReportsInv, Rep!FixFlagsSatellites

\* FixFlagsSatellites: a satellite that came without the flag gets it exactly if it was used in
\* the fix that was delivered just before its report, not in an older one nor in one the
\* clients never got; one that came with the flag keeps it, for nothing clears it
\* (GnssAdapter::reportPosition and reportSv).
THEOREM FixFlagged == MCSpec => []FixFlagsSatellites
  <1>1. MCInit => ReportsInv
    BY ReportsStart
  <1>2. ReportsInv /\ [MCNext]_mcvars => ReportsInv'
    BY PartSteps, ReportsStep
  <1>3. ReportsInv => FixFlagsSatellites
    BY DEF ReportsInv, FixFlagsSatellites
  <1> QED
    BY <1>1, <1>2, <1>3, PTL DEF MCSpec

-----------------------------------------------------------------------------
(* The sentences of a satellite report *)

\* Induction over the numbers
LEMMA SetInduction ==
  ASSUME NEW P, 0 \in P, \A n \in Nat : n \in P => n + 1 \in P
  PROVE  Nat \subseteq P
  <1> SUFFICES ASSUME Nat \ P # {}
               PROVE  FALSE
    OBVIOUS
  <1>1. \E m \in Nat \ P : \A k \in Nat \ P : ~ (<<k, m>> \in OpToRel(<, Nat))
    BY NatLessThanWellFounded, WFMin, Zenon
  <1>2. PICK m \in Nat \ P : \A k \in Nat \ P : ~ (<<k, m>> \in OpToRel(<, Nat))
    BY <1>1
  <1>3. m # 0 /\ m - 1 \in Nat /\ m - 1 < m /\ m - 1 + 1 = m
    OBVIOUS
  <1>4. <<m - 1, m>> \in OpToRel(<, Nat)
    BY <1>3, Zenon DEF OpToRel
  <1>5. m - 1 \in P
    BY <1>2, <1>3, <1>4, Zenon
  <1> QED
    BY <1>3, <1>5, Zenon

-----------------------------------------------------------------------------
(* Sequences: the records with a value in a field, and sequences put together *)

\* The record e goes behind those that were found if it has the value.
Go(x, e, field, value) == IF e[field] = value THEN Append(x, e) ELSE x

FoundStep(f, s, field, value, n) ==
  IF n = 0 THEN <<>> ELSE Go(f[n - 1], s[n], field, value)

Found(f, s, field, value, m) == f = [n \in 0 .. m |-> FoundStep(f, s, field, value, n)]

\* There is such a function for every length.
LEMMA FoundExists ==
  ASSUME NEW s, NEW field, NEW value, NEW m \in Nat
  PROVE  \E f : Found(f, s, field, value, m)
  <1> DEFINE P == {n \in Nat : \E f : Found(f, s, field, value, n)}
  <1>1. 0 \in P
    <2> DEFINE f == [n \in 0 .. 0 |-> <<>>]
    <2>1. \A n \in 0 .. 0 : FoundStep(f, s, field, value, n) = <<>>
      BY DEF FoundStep
    <2>2. Found(f, s, field, value, 0)
      BY <2>1, Zenon DEF Found
    <2> QED
      BY <2>2
  <1>2. ASSUME NEW k \in Nat, k \in P
        PROVE  k + 1 \in P
    <2>1. PICK f : Found(f, s, field, value, k)
      BY <1>2
    <2> DEFINE g == [n \in 0 .. k + 1 |-> FoundStep(f, s, field, value, n)]
    <2>2. \A n \in 0 .. k : f[n] = FoundStep(f, s, field, value, n)
      BY <2>1, Zenon DEF Found
    <2>3. \A n \in 0 .. k + 1 : g[n] = FoundStep(f, s, field, value, n)
      BY Zenon
    <2>4. \A n \in 0 .. k : n \in 0 .. k + 1
      OBVIOUS
    <2> HIDE DEF g
    <2>5. \A n \in 0 .. k : g[n] = f[n]
      BY <2>2, <2>3, <2>4, Zenon
    <2>6. ASSUME NEW n \in 0 .. k + 1
          PROVE  FoundStep(g, s, field, value, n) = FoundStep(f, s, field, value, n)
      <3>1. n = 0 \/ n - 1 \in 0 .. k
        OBVIOUS
      <3>2. n = 0 \/ g[n - 1] = f[n - 1]
        BY <2>5, <3>1, Zenon
      <3> QED
        BY <3>2, Zenon DEF FoundStep
    <2>7. \A n \in 0 .. k + 1 : g[n] = FoundStep(g, s, field, value, n)
      BY <2>3, <2>6, Zenon
    <2>8. Found(g, s, field, value, k + 1)
      <3>1. g = [n \in 0 .. k + 1 |-> FoundStep(f, s, field, value, n)]
        BY Zenon DEF g
      <3> QED
        BY <2>6, <3>1, Zenon DEF Found
    <2> QED
      BY <2>8
  <1> QED
    BY <1>1, <1>2, SetInduction

\* f is as the recursion of Where says, for the whole of s.
Finds(f, s, field, value) == \A n \in 0 .. Len(s) : f[n] = FoundStep(f, s, field, value, n)

\* Where returns what such a function returns for the whole sequence.
LEMMA WhereIs ==
  ASSUME NEW s, NEW field, NEW value, Len(s) \in Nat
  PROVE  \E f : /\ Finds(f, s, field, value)
                /\ Rep!Where(s, field, value) = f[Len(s)]
  <1> DEFINE found == CHOOSE f : Found(f, s, field, value, Len(s))
  <1>1. Found(found, s, field, value, Len(s))
    BY FoundExists, Zenon
  <1>2. Rep!Where(s, field, value) = found[Len(s)]
    BY Zenon DEF Rep!Where, Found, FoundStep, Go
  <1> HIDE DEF found
  <1>3. Finds(found, s, field, value)
    BY <1>1, Zenon DEF Found, Finds
  <1> QED
    BY <1>2, <1>3

\* Its first value
LEMMA FoundFirst ==
  ASSUME NEW s, Len(s) \in Nat, NEW field, NEW value, NEW f, Finds(f, s, field, value)
  PROVE  f[0] = <<>>
  <1>1. 0 \in 0 .. Len(s)
    OBVIOUS
  <1> QED
    BY <1>1, Zenon DEF Finds, FoundStep

Goes(f, s, field, value, n) == f[n + 1] = Go(f[n], s[n + 1], field, value)

\* One record of s further
LEMMA FoundNext ==
  ASSUME NEW s, Len(s) \in Nat, NEW field, NEW value, NEW f, Finds(f, s, field, value),
         NEW n \in Nat, n + 1 <= Len(s)
  PROVE  Goes(f, s, field, value, n)
  <1>1. PICK k : k = n + 1
    OBVIOUS
  <1>2. k \in 0 .. Len(s)
    BY <1>1
  <1>3. f[k] = FoundStep(f, s, field, value, k)
    BY <1>2, Zenon DEF Finds
  <1>4. k # 0
    BY <1>1
  <1>5. f[k] = Go(f[k - 1], s[k], field, value)
    BY <1>3, <1>4, Zenon DEF FoundStep
  <1>6. k - 1 = n
    BY <1>1
  <1> QED
    BY <1>1, <1>5, <1>6 DEF Goes

\* All its values are sequences of records of s.
LEMMA FoundSeq ==
  ASSUME NEW V, NEW s \in Seq(V), NEW field, NEW value, NEW f,
         Finds(f, s, field, value)
  PROVE  \A n \in 0 .. Len(s) : f[n] \in Seq(V)
  <1> DEFINE P == {n \in Nat : n <= Len(s) => f[n] \in Seq(V)}
  <1>1. 0 \in P
    <2>0. Len(s) \in Nat
      OBVIOUS
    <2>1. f[0] = <<>>
      BY <2>0, FoundFirst, Zenon
    <2>2. <<>> \in Seq(V)
      OBVIOUS
    <2>3. f[0] \in Seq(V)
      BY <2>1, <2>2, Zenon
    <2> QED
      BY <2>3
  <1>2. ASSUME NEW n \in Nat, n \in P
        PROVE  n + 1 \in P
    <2> SUFFICES ASSUME n + 1 <= Len(s)
                 PROVE  f[n + 1] \in Seq(V)
      OBVIOUS
    <2>1. f[n] \in Seq(V) /\ s[n + 1] \in V /\ Len(s) \in Nat
      BY <1>2
    <2>2. f[n + 1] = Go(f[n], s[n + 1], field, value)
      <3>1. Goes(f, s, field, value, n)
        BY <2>1, FoundNext, Zenon
      <3> QED
        BY <3>1, Zenon DEF Goes
    <2>3. Append(f[n], s[n + 1]) \in Seq(V)
      BY <2>1
    <2> QED
      BY <2>1, <2>2, <2>3, Zenon DEF Go
  <1>3. Nat \subseteq P
    BY <1>1, <1>2, SetInduction
  <1> QED
    BY <1>3

\* All records of s have the value.
LEMMA WhereAll ==
  ASSUME NEW V, NEW s \in Seq(V), NEW field, NEW value, \A n \in 1 .. Len(s) : s[n][field] = value
  PROVE  Rep!Where(s, field, value) = s
  <1>1. PICK f : /\ Finds(f, s, field, value)
                 /\ Rep!Where(s, field, value) = f[Len(s)]
    BY WhereIs
  <1> DEFINE P == {n \in Nat : n <= Len(s) => f[n] = [i \in 1 .. n |-> s[i]]}
  <1>2. 0 \in P
    BY <1>1, FoundFirst
  <1>3. ASSUME NEW n \in Nat, n \in P
        PROVE  n + 1 \in P
    <2> SUFFICES ASSUME n + 1 <= Len(s)
                 PROVE  f[n + 1] = [i \in 1 .. n + 1 |-> s[i]]
      OBVIOUS
    <2>1. f[n] = [i \in 1 .. n |-> s[i]] /\ s[n + 1][field] = value
      BY <1>3
    <2>2. f[n + 1] = Append(f[n], s[n + 1])
      <3>1. Len(s) \in Nat
        OBVIOUS
      <3>2. f[n + 1] = Go(f[n], s[n + 1], field, value)
        <4>1. Goes(f, s, field, value, n)
          BY <1>1, <3>1, FoundNext, Zenon
        <4> QED
          BY <4>1, Zenon DEF Goes
      <3> QED
        BY <2>1, <3>2, Zenon DEF Go
    <2>3. \A i \in 1 .. n : s[i] \in V
      BY <2>1
    <2>4. f[n] \in Seq(V) /\ Len(f[n]) = n
      BY <2>1, <2>3
    <2> QED
      BY <2>1, <2>2, <2>4
  <1>4. Nat \subseteq P
    BY <1>2, <1>3, SetInduction
  <1> QED
    BY <1>1, <1>4

\* None has it.
LEMMA WhereNone ==
  ASSUME NEW V, NEW s \in Seq(V), NEW field, NEW value, \A n \in 1 .. Len(s) : s[n][field] # value
  PROVE  Rep!Where(s, field, value) = <<>>
  <1>1. PICK f : /\ Finds(f, s, field, value)
                 /\ Rep!Where(s, field, value) = f[Len(s)]
    BY WhereIs
  <1> DEFINE P == {n \in Nat : n <= Len(s) => f[n] = <<>>}
  <1>2. 0 \in P
    BY <1>1, FoundFirst
  <1>3. ASSUME NEW n \in Nat, n \in P
        PROVE  n + 1 \in P
    <2> SUFFICES ASSUME n + 1 <= Len(s)
                 PROVE  f[n + 1] = <<>>
      OBVIOUS
    <2>1. f[n] = <<>> /\ s[n + 1][field] # value
      BY <1>3
    <2>2. Len(s) \in Nat
      OBVIOUS
    <2>3. f[n + 1] = Go(f[n], s[n + 1], field, value)
      <3>1. Goes(f, s, field, value, n)
        BY <1>1, <2>2, FoundNext, Zenon
      <3> QED
        BY <3>1, Zenon DEF Goes
    <2> QED
      BY <2>1, <2>3, Zenon DEF Go
  <1>4. Nat \subseteq P
    BY <1>2, <1>3, SetInduction
  <1> QED
    BY <1>1, <1>4

Appended(w, x, e) == Append(w \o x, e) = w \o Append(x, e)

\* Appending to the second of two sequences put together
LEMMA AppendToConcat ==
  ASSUME NEW V, NEW w \in Seq(V), NEW x \in Seq(V), NEW e \in V
  PROVE  Appended(w, x, e)
  <1> DEFINE l == Append(w \o x, e)
             r == w \o Append(x, e)
  <1>1. l \in Seq(V) /\ Len(l) = Len(w) + Len(x) + 1
    OBVIOUS
  <1>2. r \in Seq(V) /\ Len(r) = Len(w) + Len(x) + 1
    OBVIOUS
  <1>3. ASSUME NEW i \in 1 .. Len(l)
        PROVE  l[i] = r[i]
    <2>1. Len(w) \in Nat /\ Len(x) \in Nat /\ i \in 1 .. Len(w) + Len(x) + 1
      BY <1>1
    <2>2. CASE i <= Len(w)
      BY <2>1, <2>2
    <2>3. CASE i > Len(w) /\ i <= Len(w) + Len(x)
      BY <2>1, <2>3
    <2>4. CASE i = Len(w) + Len(x) + 1
      BY <2>1, <2>4
    <2> QED
      BY <2>1, <2>2, <2>3, <2>4
  <1> HIDE DEF l, r
  <1>4. \A i \in 1 .. Len(l) : l[i] = r[i]
    BY <1>3
  <1>5. l = r
    BY <1>1, <1>2, <1>4, SeqEqual
  <1> QED
    BY <1>5 DEF Appended, l, r

WhereOf(s, t, field, value) ==
  Rep!Where(s \o t, field, value) = Rep!Where(s, field, value) \o Rep!Where(t, field, value)

\* Of two sequences put together, those of the first and then those of the second
LEMMA WhereConcat ==
  ASSUME NEW V, NEW s \in Seq(V), NEW t \in Seq(V), NEW field, NEW value
  PROVE  WhereOf(s, t, field, value)
  <1> DEFINE u == s \o t
  <1>1. u \in Seq(V) /\ Len(u) = Len(s) + Len(t)
        /\ (\A n \in 1 .. Len(s) : u[n] = s[n]) /\ \A n \in 1 .. Len(t) : u[Len(s) + n] = t[n]
    OBVIOUS
  <1> HIDE DEF u
  <1>0. Len(u) \in Nat /\ Len(s) \in Nat /\ Len(t) \in Nat
    BY <1>1
  <1>2. PICK f : /\ Finds(f, u, field, value)
                 /\ Rep!Where(u, field, value) = f[Len(u)]
    BY <1>0, WhereIs, Zenon
  <1>3. PICK g : /\ Finds(g, s, field, value)
                 /\ Rep!Where(s, field, value) = g[Len(s)]
    BY WhereIs
  <1>4. PICK h : /\ Finds(h, t, field, value)
                 /\ Rep!Where(t, field, value) = h[Len(t)]
    BY WhereIs
  <1> DEFINE P == {n \in Nat : n <= Len(s) => f[n] = g[n]}
  <1>5. 0 \in P
    <2>1. f[0] = <<>> /\ g[0] = <<>>
      BY <1>0, <1>2, <1>3, FoundFirst, Zenon
    <2>2. f[0] = g[0]
      BY <2>1, Zenon
    <2> QED
      BY <2>2
  <1>6. ASSUME NEW n \in Nat, n \in P
        PROVE  n + 1 \in P
    <2> SUFFICES ASSUME n + 1 <= Len(s)
                 PROVE  f[n + 1] = g[n + 1]
      OBVIOUS
    <2>1. n + 1 <= Len(u)
      BY <1>0, <1>1
    <2>2. f[n + 1] = Go(f[n], u[n + 1], field, value)
      <3>1. Goes(f, u, field, value, n)
        BY <1>0, <1>2, <2>1, FoundNext, Zenon
      <3> QED
        BY <3>1, Zenon DEF Goes
    <2>3. g[n + 1] = Go(g[n], s[n + 1], field, value)
      <3>1. Goes(g, s, field, value, n)
        BY <1>0, <1>3, FoundNext, Zenon
      <3> QED
        BY <3>1, Zenon DEF Goes
    <2>4. u[n + 1] = s[n + 1] /\ f[n] = g[n]
      BY <1>1, <1>6
    <2> QED
      BY <2>2, <2>3, <2>4, Zenon
  <1>7. Nat \subseteq P
    BY <1>5, <1>6, SetInduction
  <1>8. f[Len(s)] = g[Len(s)]
    BY <1>7
  <1>9. PICK w : w = g[Len(s)] /\ w \in Seq(V)
    BY <1>3, FoundSeq
  <1>10. \A n \in 0 .. Len(t) : h[n] \in Seq(V)
    BY <1>4, FoundSeq
  <1> DEFINE Q == {n \in Nat : n <= Len(t) => f[Len(s) + n] = w \o h[n]}
  <1>11. 0 \in Q
    <2>1. h[0] = <<>>
      BY <1>0, <1>4, FoundFirst, Zenon
    <2>2. w \o <<>> = w
      BY <1>9
    <2>3. PICK m : m = Len(s)
      OBVIOUS
    <2>4. f[m] = w \o h[0]
      BY <1>8, <1>9, <2>1, <2>2, <2>3, Zenon
    <2>5. Len(s) + 0 = m
      BY <1>0, <2>3
    <2>6. f[Len(s) + 0] = w \o h[0]
      BY <2>4, <2>5, Zenon
    <2> QED
      BY <2>6
  <1>12. ASSUME NEW n \in Nat, n \in Q
         PROVE  n + 1 \in Q
    <2> SUFFICES ASSUME n + 1 <= Len(t)
                 PROVE  f[Len(s) + (n + 1)] = w \o h[n + 1]
      OBVIOUS
    <2>1. PICK m, e : m = Len(s) + n /\ e = t[n + 1]
      OBVIOUS
    <2>2. m \in Nat /\ m + 1 <= Len(u)
      BY <1>0, <1>1, <2>1
    <2>3. f[m + 1] = Go(f[m], u[m + 1], field, value)
      <3>1. Goes(f, u, field, value, m)
        BY <1>0, <1>2, <2>2, FoundNext, Zenon
      <3> QED
        BY <3>1, Zenon DEF Goes
    <2>4. h[n + 1] = Go(h[n], t[n + 1], field, value)
      <3>1. Goes(h, t, field, value, n)
        BY <1>0, <1>4, FoundNext, Zenon
      <3> QED
        BY <3>1, Zenon DEF Goes
    <2>8. n \in 0 .. Len(t)
      BY <1>0
    <2>9. u[m + 1] = e /\ m + 1 = Len(s) + (n + 1) /\ e \in V
      BY <1>0, <1>1, <2>1
    <2>5. PICK x : x = h[n] /\ x \in Seq(V)
      BY <1>10, <2>8, Zenon
    <2>6. Append(w \o x, e) = w \o Append(x, e)
      <3>1. Appended(w, x, e)
        BY <1>9, <2>5, <2>9, AppendToConcat, Zenon
      <3> QED
        BY <3>1 DEF Appended
    <2>7. f[m] = w \o x
      BY <1>12, <2>1, <2>5, <2>8
    <2>10. f[m + 1] = Go(w \o x, e, field, value)
      BY <2>3, <2>7, <2>9, Zenon
    <2>11. h[n + 1] = Go(x, e, field, value)
      BY <2>1, <2>4, <2>5, Zenon
    <2>12. Go(w \o x, e, field, value) = w \o Go(x, e, field, value)
      BY <2>6, Zenon DEF Go
    <2> QED
      BY <2>9, <2>10, <2>11, <2>12, Zenon
  <1>13. Nat \subseteq Q
    BY <1>11, <1>12, SetInduction
  <1>14. f[Len(s) + Len(t)] = w \o h[Len(t)]
    BY <1>13
  <1> QED
    BY <1>1, <1>2, <1>3, <1>4, <1>9, <1>14 DEF u, WhereOf

\* They are of the sequence.
LEMMA WhereSeq ==
  ASSUME NEW V, NEW s \in Seq(V), NEW field, NEW value
  PROVE  Rep!Where(s, field, value) \in Seq(V)
  <1>1. PICK f : /\ Finds(f, s, field, value)
                 /\ Rep!Where(s, field, value) = f[Len(s)]
    BY WhereIs
  <1>2. \A n \in 0 .. Len(s) : f[n] \in Seq(V)
    BY <1>1, FoundSeq
  <1>3. Len(s) \in 0 .. Len(s)
    OBVIOUS
  <1> QED
    BY <1>1, <1>2, <1>3

-----------------------------------------------------------------------------
(* FlattenSeq                                                              *)

FlatStep(f, s, n) == IF n = 1 THEN s[n] ELSE f[n - 1] \o s[n]

Flat(f, s, m) == f = [n \in 1 .. m |-> FlatStep(f, s, n)]

\* There is such a function for every number of sequences.
LEMMA FlatExists ==
  ASSUME NEW s, NEW m \in Nat
  PROVE  \E f : Flat(f, s, m)
  <1> DEFINE P == {n \in Nat : \E f : Flat(f, s, n)}
  <1>1. 0 \in P
    <2> DEFINE f == [n \in 1 .. 0 |-> s[n]]
    <2>1. \A n \in 1 .. 0 : FlatStep(f, s, n) = s[n]
      OBVIOUS
    <2>2. Flat(f, s, 0)
      BY <2>1, Zenon DEF Flat
    <2> QED
      BY <2>2
  <1>2. ASSUME NEW k \in Nat, k \in P
        PROVE  k + 1 \in P
    <2>1. PICK f : Flat(f, s, k)
      BY <1>2
    <2> DEFINE g == [n \in 1 .. k + 1 |-> FlatStep(f, s, n)]
    <2>2. \A n \in 1 .. k : f[n] = FlatStep(f, s, n)
      BY <2>1, Zenon DEF Flat
    <2>3. \A n \in 1 .. k + 1 : g[n] = FlatStep(f, s, n)
      BY Zenon
    <2>4. \A n \in 1 .. k : n \in 1 .. k + 1
      OBVIOUS
    <2> HIDE DEF g
    <2>5. \A n \in 1 .. k : g[n] = f[n]
      BY <2>2, <2>3, <2>4, Zenon
    <2>6. ASSUME NEW n \in 1 .. k + 1
          PROVE  FlatStep(g, s, n) = FlatStep(f, s, n)
      <3>1. n = 1 \/ n - 1 \in 1 .. k
        OBVIOUS
      <3>2. n = 1 \/ g[n - 1] = f[n - 1]
        BY <2>5, <3>1, Zenon
      <3> QED
        BY <3>2, Zenon DEF FlatStep
    <2>8. Flat(g, s, k + 1)
      <3>1. g = [n \in 1 .. k + 1 |-> FlatStep(f, s, n)]
        BY Zenon DEF g
      <3> QED
        BY <2>6, <3>1, Zenon DEF Flat
    <2> QED
      BY <2>8
  <1> QED
    BY <1>1, <1>2, SetInduction

\* f puts the first of the sequences together, then the first two, and so on.
Flattens(f, s) == \A n \in 1 .. Len(s) : f[n] = FlatStep(f, s, n)

\* FlattenSeq returns what such a function returns for all of them.
LEMMA FlattenIs ==
  ASSUME NEW s, Len(s) \in Nat \ {0}
  PROVE  \E f : Flattens(f, s) /\ Rep!FlattenSeq(s) = f[Len(s)]
  <1> DEFINE flatten == CHOOSE f : Flat(f, s, Len(s))
  <1>1. Flat(flatten, s, Len(s))
    BY FlatExists, Zenon
  <1>0. Len(s) # 0
    OBVIOUS
  <1>2. Rep!FlattenSeq(s) = flatten[Len(s)]
    BY <1>0, Zenon DEF Rep!FlattenSeq, Flat, FlatStep
  <1> HIDE DEF flatten
  <1>3. Flattens(flatten, s)
    BY <1>1, Zenon DEF Flat, Flattens
  <1> QED
    BY <1>2, <1>3

FlatStarts(f, s) == f[1] = s[1]

\* Its first value
LEMMA FlatFirst ==
  ASSUME NEW s, Len(s) \in Nat \ {0}, NEW f, Flattens(f, s)
  PROVE  FlatStarts(f, s)
  <1>1. 1 \in 1 .. Len(s)
    OBVIOUS
  <1> QED
    BY <1>1, Zenon DEF Flattens, FlatStep, FlatStarts

FlatGoes(f, s, n) == f[n + 1] = f[n] \o s[n + 1]

\* One sequence further
LEMMA FlatNext ==
  ASSUME NEW s, Len(s) \in Nat \ {0}, NEW f, Flattens(f, s),
         NEW n \in Nat \ {0}, n + 1 <= Len(s)
  PROVE  FlatGoes(f, s, n)
  <1>1. PICK k : k = n + 1
    OBVIOUS
  <1>2. k \in 1 .. Len(s) /\ k # 1 /\ k - 1 = n
    BY <1>1
  <1>3. f[k] = FlatStep(f, s, k)
    BY <1>2, Zenon DEF Flattens
  <1>4. f[k] = f[k - 1] \o s[k]
    BY <1>2, <1>3, Zenon DEF FlatStep
  <1> QED
    BY <1>1, <1>2, <1>4 DEF FlatGoes

\* What is in all the sequences
LEMMA FlatSeq ==
  ASSUME NEW V, NEW s \in Seq(Seq(V)), s # <<>>, NEW f, Flattens(f, s)
  PROVE  \A n \in 1 .. Len(s) : f[n] \in Seq(V)
  <1>0. Len(s) \in Nat \ {0}
    OBVIOUS
  <1> DEFINE P == {n \in Nat : n + 1 <= Len(s) => f[n + 1] \in Seq(V)}
  <1>1. 0 \in P
    <2>1. FlatStarts(f, s)
      BY <1>0, FlatFirst, Zenon
    <2> QED
      BY <1>0, <2>1 DEF FlatStarts
  <1>2. ASSUME NEW n \in Nat, n \in P
        PROVE  n + 1 \in P
    <2> SUFFICES ASSUME (n + 1) + 1 <= Len(s)
                 PROVE  f[(n + 1) + 1] \in Seq(V)
      OBVIOUS
    <2>1. PICK k : k = n + 1
      OBVIOUS
    <2>2. k \in Nat \ {0} /\ k + 1 <= Len(s)
      BY <1>0, <2>1
    <2>3. FlatGoes(f, s, k)
      BY <1>0, <2>2, FlatNext, Zenon
    <2>4. f[k] \in Seq(V) /\ s[k + 1] \in Seq(V)
      BY <1>0, <1>2, <2>1, <2>2
    <2>5. f[k] \o s[k + 1] \in Seq(V)
      BY <2>4
    <2> QED
      BY <2>1, <2>3, <2>5 DEF FlatGoes
  <1>3. Nat \subseteq P
    BY <1>1, <1>2, SetInduction
  <1>4. ASSUME NEW n \in 1 .. Len(s)
        PROVE  f[n] \in Seq(V)
    <2>1. PICK k : k = n - 1
      OBVIOUS
    <2>2. k \in Nat /\ k + 1 = n /\ k + 1 <= Len(s)
      BY <1>0, <2>1
    <2>3. f[k + 1] \in Seq(V)
      BY <1>3, <2>2
    <2> QED
      BY <2>2, <2>3
  <1> QED
    BY <1>4

WhereIn(s, j, field, value) == Rep!Where(Rep!FlattenSeq(s), field, value) = s[j]

\* The one of the sequences whose records have the value
LEMMA WherePart ==
  ASSUME NEW V, NEW s \in Seq(Seq(V)), NEW j \in 1 .. Len(s), NEW field, NEW value,
         \A k \in 1 .. Len(s) : \A n \in 1 .. Len(s[k]) : s[k][n][field] = value <=> k = j
  PROVE  WhereIn(s, j, field, value)
  <1>0. Len(s) \in Nat \ {0} /\ s # <<>>
    OBVIOUS
  <1>1. PICK f : Flattens(f, s) /\ Rep!FlattenSeq(s) = f[Len(s)]
    BY <1>0, FlattenIs
  <1>2. \A n \in 1 .. Len(s) : f[n] \in Seq(V)
    BY <1>0, <1>1, FlatSeq, Zenon
  <1> DEFINE Share(k) == IF k = j THEN s[j] ELSE <<>>
             Owned(k) == IF k < j THEN <<>> ELSE s[j]
  <1>3. ASSUME NEW k \in 1 .. Len(s)
        PROVE  Rep!Where(s[k], field, value) = Share(k) /\ s[k] \in Seq(V)
    <2>1. s[k] \in Seq(V)
      OBVIOUS
    <2>2. CASE k = j
      <3>1. \A n \in 1 .. Len(s[k]) : s[k][n][field] = value
        BY <2>2
      <3>2. PICK t : t = s[k]
        OBVIOUS
      <3>3. Rep!Where(t, field, value) = t
        BY <2>1, <3>1, <3>2, WhereAll
      <3> QED
        BY <2>1, <2>2, <3>2, <3>3
    <2>3. CASE k # j
      <3>1. \A n \in 1 .. Len(s[k]) : s[k][n][field] # value
        BY <2>3
      <3>2. PICK t : t = s[k]
        OBVIOUS
      <3>3. Rep!Where(t, field, value) = <<>>
        BY <2>1, <3>1, <3>2, WhereNone
      <3> QED
        BY <2>1, <2>3, <3>2, <3>3
    <2> QED
      BY <2>2, <2>3
  <1> DEFINE P == {n \in Nat : n + 1 <= Len(s) => Rep!Where(f[n + 1], field, value) = Owned(n + 1)}
  <1>4. 0 \in P
    <2>1. FlatStarts(f, s)
      BY <1>0, <1>1, FlatFirst, Zenon
    <2>2. Share(1) = Owned(1)
      OBVIOUS
    <2> QED
      BY <1>0, <1>3, <2>1, <2>2 DEF FlatStarts
  <1>5. ASSUME NEW n \in Nat, n \in P
        PROVE  n + 1 \in P
    <2> SUFFICES ASSUME (n + 1) + 1 <= Len(s)
                 PROVE  Rep!Where(f[(n + 1) + 1], field, value) = Owned((n + 1) + 1)
      OBVIOUS
    <2>1. PICK k : k = n + 1
      OBVIOUS
    <2>2. k \in Nat \ {0} /\ k + 1 <= Len(s) /\ k \in 1 .. Len(s) /\ k + 1 \in 1 .. Len(s)
      BY <1>0, <2>1
    <2>3. FlatGoes(f, s, k)
      BY <1>0, <1>1, <2>2, FlatNext, Zenon
    <2>4. PICK a, b : a = f[k] /\ b = s[k + 1]
      OBVIOUS
    <2>5. a \in Seq(V) /\ b \in Seq(V)
      BY <1>2, <1>3, <2>2, <2>4
    <2>6. WhereOf(a, b, field, value)
      BY <2>5, WhereConcat, Zenon
    <2>7. Rep!Where(a, field, value) = Owned(k)
      BY <1>5, <2>1, <2>2, <2>4
    <2>8. Rep!Where(b, field, value) = Share(k + 1)
      BY <1>3, <2>2, <2>4
    <2>9. Owned(k) \o Share(k + 1) = Owned(k + 1)
      <3>1. PICK w : w = s[j]
        OBVIOUS
      <3>2. w \in Seq(V) /\ w \o <<>> = w /\ <<>> \o w = w /\ <<>> \o <<>> = <<>>
        <4>1. w \in Seq(V)
          BY <1>3, <3>1
        <4> QED
          BY <4>1
      <3>3. Owned(k) = (IF k < j THEN <<>> ELSE w) /\ Share(k + 1) = (IF k + 1 = j THEN w ELSE <<>>)
            /\ Owned(k + 1) = (IF k + 1 < j THEN <<>> ELSE w)
        BY <3>1
      <3> HIDE DEF Owned, Share
      <3>4. CASE k + 1 < j
        <4>1. Owned(k) = <<>> /\ Share(k + 1) = <<>> /\ Owned(k + 1) = <<>>
          BY <2>2, <3>3, <3>4
        <4> QED
          BY <3>2, <4>1, Zenon
      <3>5. CASE k + 1 = j
        <4>1. Owned(k) = <<>> /\ Share(k + 1) = w /\ Owned(k + 1) = w
          BY <2>2, <3>3, <3>5
        <4> QED
          BY <3>2, <4>1, Zenon
      <3>6. CASE k + 1 > j
        <4>1. Owned(k) = w /\ Share(k + 1) = <<>> /\ Owned(k + 1) = w
          BY <2>2, <3>3, <3>6
        <4> QED
          BY <3>2, <4>1, Zenon
      <3> QED
        BY <2>2, <3>4, <3>5, <3>6, SMTT(20)
    <2> QED
      BY <2>1, <2>3, <2>4, <2>6, <2>7, <2>8, <2>9 DEF FlatGoes, WhereOf
  <1>6. Nat \subseteq P
    BY <1>4, <1>5, SetInduction
  <1>7. PICK k : k = Len(s) - 1
    OBVIOUS
  <1>8. k \in Nat /\ k + 1 = Len(s)
    BY <1>0, <1>7
  <1>9. Rep!Where(f[k + 1], field, value) = Owned(k + 1)
    BY <1>0, <1>6, <1>8
  <1>10. Owned(k + 1) = s[j]
    BY <1>0, <1>8
  <1> QED
    BY <1>1, <1>8, <1>9, <1>10, Zenon DEF WhereIn

\* What is put together is a beginning of a sequence.
Begins(V, x, s, l) == x \in Seq(V) /\ Len(x) = l /\ \A j \in 1 .. l : x[j] = s[j]

\* The next elements of s may be put behind a beginning of it.
LEMMA BeginsConcat ==
  ASSUME NEW V, NEW s, NEW x, NEW l \in Nat, Begins(V, x, s, l),
         NEW y \in Seq(V), \A j \in 1 .. Len(y) : y[j] = s[l + j]
  PROVE  Begins(V, x \o y, s, l + Len(y))
  <1>1. x \in Seq(V) /\ Len(x) = l /\ \A j \in 1 .. l : x[j] = s[j]
    BY DEF Begins
  <1>2. x \o y \in Seq(V) /\ Len(x \o y) = l + Len(y)
    BY <1>1
  <1>3. ASSUME NEW j \in 1 .. l + Len(y)
        PROVE  (x \o y)[j] = s[j]
    <2>1. CASE j <= l
      BY <1>1, <2>1
    <2>2. CASE j > l
      <3>1. PICK i : i = j - l
        OBVIOUS
      <3>2. i \in 1 .. Len(y) /\ l + i = j
        BY <2>2, <3>1
      <3>3. (x \o y)[j] = y[i]
        BY <1>1, <2>2, <3>1, <3>2
      <3> QED
        BY <3>2, <3>3
    <2>3. Len(y) \in Nat
      OBVIOUS
    <2>4. j <= l \/ j > l
      BY <2>3
    <2> QED
      BY <2>1, <2>2, <2>4, Zenon
  <1> QED
    BY <1>2, <1>3 DEF Begins

\* Up to where the k-th sentence lists
Upto(n, k) == IF 4 * k > n THEN n ELSE 4 * k

\* A sequence that was cut into pieces of four, but for the last, is put together again.
LEMMA Pieces ==
  ASSUME NEW V, NEW s \in Seq(V), s # <<>>, NEW p \in Seq(Seq(V)), p # <<>>,
         4 * (Len(p) - 1) < Len(s), Len(s) <= 4 * Len(p),
         \A k \in 1 .. Len(p) : Len(p[k]) = Upto(Len(s), k) - 4 * (k - 1),
         \A k \in 1 .. Len(p) : \A j \in 1 .. Len(p[k]) : p[k][j] = s[4 * (k - 1) + j]
  PROVE  Rep!FlattenSeq(p) = s
  <1>0. Len(p) \in Nat \ {0} /\ Len(s) \in Nat
    OBVIOUS
  <1>1. PICK f : Flattens(f, p) /\ Rep!FlattenSeq(p) = f[Len(p)]
    BY <1>0, FlattenIs
  <1> DEFINE P == {n \in Nat : n + 1 <= Len(p) => Begins(V, f[n + 1], s, Upto(Len(s), n + 1))}
  <1>2. ASSUME NEW k \in Nat \ {0}, k < Len(p)
        PROVE  Upto(Len(s), k) = 4 * k
    BY <1>0, <1>2 DEF Upto
  <1>3. 0 \in P
    <2>1. FlatStarts(f, p)
      BY <1>0, <1>1, FlatFirst, Zenon
    <2>2. PICK q : q = p[1] /\ q \in Seq(V)
      BY <1>0
    <2>3. Len(q) = Upto(Len(s), 1) /\ \A j \in 1 .. Len(q) : q[j] = s[j]
      <3>1. 1 \in 1 .. Len(p) /\ 4 * (1 - 1) = 0
        BY <1>0
      <3>2. Upto(Len(s), 1) \in Nat /\ Len(q) \in Nat
        BY <1>0, <2>2 DEF Upto
      <3>3. Len(q) = Upto(Len(s), 1) - 4 * (1 - 1)
        BY <2>2, <3>1
      <3>4. ASSUME NEW j \in 1 .. Len(q)
            PROVE  q[j] = s[j]
        <4>1. 4 * (1 - 1) + j = j
          BY <3>1
        <4>2. q[j] = s[4 * (1 - 1) + j]
          BY <2>2, <3>1
        <4> QED
          BY <4>1, <4>2
      <3> QED
        BY <3>1, <3>2, <3>3, <3>4
    <2>4. Begins(V, q, s, Upto(Len(s), 1))
      BY <2>2, <2>3 DEF Begins
    <2> QED
      BY <2>1, <2>2, <2>4 DEF FlatStarts
  <1>4. ASSUME NEW n \in Nat, n \in P
        PROVE  n + 1 \in P
    <2> SUFFICES ASSUME (n + 1) + 1 <= Len(p)
                 PROVE  Begins(V, f[(n + 1) + 1], s, Upto(Len(s), (n + 1) + 1))
      OBVIOUS
    <2>1. PICK k : k = n + 1
      OBVIOUS
    <2>2. k \in Nat \ {0} /\ k + 1 <= Len(p) /\ k < Len(p) /\ (k + 1) \in 1 .. Len(p) /\ (k + 1) - 1 = k
      BY <1>0, <2>1
    <2>3. FlatGoes(f, p, k)
      BY <1>0, <1>1, <2>2, FlatNext, Zenon
    <2>4. Begins(V, f[k], s, Upto(Len(s), k))
      BY <1>4, <2>1, <2>2
    <2>5. PICK q : q = p[k + 1] /\ q \in Seq(V)
      BY <2>2
    <2>6. PICK l : l = 4 * k
      OBVIOUS
    <2>7. l \in Nat /\ Begins(V, f[k], s, l)
      BY <1>2, <2>2, <2>4, <2>6
    <2>8. Len(q) = Upto(Len(s), k + 1) - l
      BY <2>2, <2>5, <2>6
    <2>9. \A j \in 1 .. Len(q) : q[j] = s[l + j]
      BY <2>2, <2>5, <2>6
    <2>10. Begins(V, f[k] \o q, s, l + Len(q))
      BY <2>5, <2>7, <2>9, BeginsConcat, Zenon
    <2>11. l + Len(q) = Upto(Len(s), k + 1)
      <3>1. Upto(Len(s), k + 1) \in Nat /\ Len(q) \in Nat
        BY <1>0, <2>2, <2>5 DEF Upto
      <3> QED
        BY <2>7, <2>8, <3>1
    <2> QED
      BY <2>1, <2>3, <2>5, <2>10, <2>11 DEF FlatGoes
  <1>5. Nat \subseteq P
    BY <1>3, <1>4, SetInduction
  <1>6. PICK k : k = Len(p) - 1
    OBVIOUS
  <1>7. k \in Nat /\ k + 1 = Len(p)
    BY <1>0, <1>6
  <1>8. Begins(V, f[k + 1], s, Upto(Len(s), k + 1))
    BY <1>0, <1>5, <1>7
  <1>9. Upto(Len(s), Len(p)) = Len(s)
    BY <1>0 DEF Upto
  <1>10. Begins(V, f[Len(p)], s, Len(s))
    BY <1>7, <1>8, <1>9
  <1>11. PICK w : w = f[Len(p)]
    OBVIOUS
  <1>12. w \in Seq(V) /\ Len(w) = Len(s) /\ \A j \in 1 .. Len(s) : w[j] = s[j]
    BY <1>10, <1>11 DEF Begins
  <1>13. w = s
    BY <1>12, SeqEqual
  <1> QED
    BY <1>1, <1>11, <1>13

-----------------------------------------------------------------------------
(* Satellites that differ in their flags only                              *)

Alike(x, y) == Len(x) = Len(y) /\ \A k \in 1 .. Len(x) : x[k].svId = y[k].svId

\* They stay alike if both or neither of the next two are taken.
LEMMA AlikeGo ==
  ASSUME NEW V, NEW x \in Seq(V), NEW y \in Seq(V), NEW a \in V, NEW b \in V, Alike(x, y),
         NEW c, a.type = c <=> b.type = c, a.type = c => a.svId = b.svId
  PROVE  Alike(Go(x, a, "type", c), Go(y, b, "type", c))
  <1>1. CASE a.type = c
    <2>1. Alike(Append(x, a), Append(y, b))
      <3>1. \A k \in 1 .. Len(x) + 1 : Append(x, a)[k].svId = Append(y, b)[k].svId
        <4>1. ASSUME NEW k \in 1 .. Len(x) + 1
              PROVE  Append(x, a)[k].svId = Append(y, b)[k].svId
          <5>1. Len(x) = Len(y) /\ Len(x) \in Nat
            BY DEF Alike
          <5>2. CASE k = Len(x) + 1
            BY <1>1, <5>1, <5>2
          <5>3. CASE k \in 1 .. Len(x)
            <6>1. x[k].svId = y[k].svId
              BY <5>3 DEF Alike
            <6>2. Append(x, a)[k] = x[k] /\ Append(y, b)[k] = y[k]
              BY <5>1, <5>3
            <6> QED
              BY <6>1, <6>2
          <5> QED
            BY <5>1, <5>2, <5>3
        <4> QED
          BY <4>1
      <3> QED
        BY <3>1 DEF Alike
    <2> QED
      BY <1>1, <2>1 DEF Go
  <1>2. CASE a.type # c
    BY <1>2 DEF Go
  <1> QED
    BY <1>1, <1>2

\* Lists that differ in the flags differ in the flags for each constellation.
LEMMA WhereAlike ==
  ASSUME NEW V, NEW s \in Seq(V), NEW t \in Seq(V), Len(s) = Len(t), NEW c,
         \A k \in 1 .. Len(s) : s[k].type = c <=> t[k].type = c,
         \A k \in 1 .. Len(s) : s[k].type = c => s[k].svId = t[k].svId
  PROVE  Alike(Rep!Where(s, "type", c), Rep!Where(t, "type", c))
  <1>0. Len(s) \in Nat /\ Len(t) \in Nat
    OBVIOUS
  <1>1. PICK f : /\ Finds(f, s, "type", c)
                 /\ Rep!Where(s, "type", c) = f[Len(s)]
    BY WhereIs
  <1>2. PICK g : /\ Finds(g, t, "type", c)
                 /\ Rep!Where(t, "type", c) = g[Len(t)]
    BY WhereIs
  <1>3. \A n \in 0 .. Len(s) : f[n] \in Seq(V)
    BY <1>1, FoundSeq
  <1>4. \A n \in 0 .. Len(t) : g[n] \in Seq(V)
    BY <1>2, FoundSeq
  <1> DEFINE P == {n \in Nat : n <= Len(s) => Alike(f[n], g[n])}
  <1>5. 0 \in P
    <2>1. f[0] = <<>>
      BY <1>0, <1>1, FoundFirst, Zenon
    <2>2. g[0] = <<>>
      BY <1>0, <1>2, FoundFirst, Zenon
    <2> QED
      BY <2>1, <2>2 DEF Alike
  <1>6. ASSUME NEW n \in Nat, n \in P
        PROVE  n + 1 \in P
    <2> SUFFICES ASSUME n + 1 <= Len(s)
                 PROVE  Alike(f[n + 1], g[n + 1])
      OBVIOUS
    <2>1. Goes(f, s, "type", c, n)
      BY <1>0, <1>1, FoundNext, Zenon
    <2>2. n + 1 <= Len(t)
      BY <1>0
    <2>3. Goes(g, t, "type", c, n)
      BY <1>0, <1>2, <2>2, FoundNext, Zenon
    <2>4. n \in 0 .. Len(s) /\ n \in 0 .. Len(t) /\ n + 1 \in 1 .. Len(s) /\ n + 1 \in 1 .. Len(t)
      BY <1>0
    <2>5. PICK a, b : a = s[n + 1] /\ b = t[n + 1]
      OBVIOUS
    <2>6. a \in V /\ b \in V /\ (a.type = c <=> b.type = c) /\ (a.type = c => a.svId = b.svId)
      BY <2>4, <2>5
    <2>7. f[n] \in Seq(V) /\ g[n] \in Seq(V) /\ Alike(f[n], g[n])
      BY <1>3, <1>4, <1>6, <2>4
    <2>8. Alike(Go(f[n], a, "type", c), Go(g[n], b, "type", c))
      BY <2>6, <2>7, AlikeGo, Zenon
    <2> QED
      BY <2>1, <2>3, <2>5, <2>8 DEF Goes
  <1>7. Nat \subseteq P
    BY <1>5, <1>6, SetInduction
  <1>8. Alike(f[Len(s)], g[Len(s)])
    BY <1>0, <1>7
  <1> QED
    BY <1>1, <1>2, <1>8

-----------------------------------------------------------------------------
(* The sentences of a constellation                                        *)

Sentence == [type : {"GSV"}, talker : {"GP", "GL", "GA", "PQ"}, of : Nat, number : Nat,
             inView : Nat, svs : Seq(Nat)]

\* What is said of the satellites of a constellation
SvIds(svs, c) == [k \in DOMAIN svs |-> svs[k].svId + Rep!SvIdOffset(c)]

\* The sentences list these satellites, number themselves and count.
Listed(own, svIds) ==
  /\ Rep!FlattenSeq([k \in DOMAIN own |-> own[k].svs]) = svIds
  /\ \A k \in DOMAIN own :
       /\ own[k].number = k /\ own[k].of = Len(own) /\ own[k].inView = Len(svIds)
       /\ svIds # <<>> => own[k].svs # <<>>

\* A function on the first numbers is a sequence.
LEMMA FunctionIsSeq ==
  ASSUME NEW S, NEW n \in Nat, NEW f \in [1 .. n -> S]
  PROVE  f \in Seq(S) /\ Len(f) = n
  OBVIOUS

\* Four in each sentence, but for the last
LEMMA SentenceCounts ==
  ASSUME NEW n \in Nat, n > 0
  PROVE  /\ Rep!SentenceCount(n) \in Nat \ {0}
         /\ 4 * (Rep!SentenceCount(n) - 1) < n /\ n <= 4 * Rep!SentenceCount(n)
  <1> DEFINE q == n \div 4
             r == n % 4
  <1>1. q \in Nat /\ r \in 0 .. 3 /\ n = 4 * q + r
    OBVIOUS
  <1>2. Rep!SentenceCount(n) = q + (IF r # 0 THEN 1 ELSE 0)
    BY DEF Rep!SentenceCount
  <1> HIDE DEF q, r
  <1> QED
    BY <1>1, <1>2

\* No satellite in view: one sentence that says so
LEMMA GSVNone ==
  ASSUME NEW s, NEW c \in Rep!Constellation, Rep!OfType(s, c) = <<>>
  PROVE  /\ Rep!GSV(s, c) \in Seq(Sentence) /\ Rep!GSV(s, c) # <<>>
         /\ \A k \in 1 .. Len(Rep!GSV(s, c)) : Rep!GSV(s, c)[k].talker = Rep!Talker(c)
         /\ Listed(Rep!GSV(s, c), SvIds(Rep!OfType(s, c), c))
  <1> DEFINE e == [type |-> "GSV", talker |-> Rep!Talker(c), of |-> 1, number |-> 1,
                   inView |-> 0, svs |-> <<>>]
  <1>1. Rep!GSV(s, c) = <<e>>
    BY DEF Rep!GSV
  <1>2. Rep!Talker(c) \in {"GP", "GL", "GA", "PQ"}
    BY DEF Rep!Constellation, Rep!Talker
  <1>3. <<>> \in Seq(Nat)
    OBVIOUS
  <1>4. e \in Sentence
    BY <1>2, <1>3 DEF Sentence
  <1>5. SvIds(Rep!OfType(s, c), c) = <<>>
    BY DEF SvIds
  <1>6. /\ e.talker = Rep!Talker(c) /\ e.number = 1 /\ e.of = 1 /\ e.inView = 0 /\ e.svs = <<>>
    OBVIOUS
  <1> HIDE DEF e
  <1>7. PICK g : g = <<e>>
    OBVIOUS
  <1>8. g \in Seq(Sentence) /\ Len(g) = 1 /\ DOMAIN g = {1} /\ g[1] = e
    BY <1>4, <1>7
  <1>9. PICK p : p = [k \in DOMAIN g |-> g[k].svs]
    OBVIOUS
  <1>10. p = <<<<>>>>
    BY <1>6, <1>8, <1>9
  <1>11. Len(p) = 1 /\ p[1] = <<>>
    BY <1>10
  <1>12. Rep!FlattenSeq(p) = <<>>
    <2>0. Len(p) \in Nat \ {0}
      BY <1>11
    <2>1. PICK f : Flattens(f, p) /\ Rep!FlattenSeq(p) = f[Len(p)]
      BY <2>0, FlattenIs, Zenon
    <2>2. FlatStarts(f, p)
      BY <2>0, <2>1, FlatFirst, Zenon
    <2> QED
      BY <1>11, <2>1, <2>2 DEF FlatStarts
  <1>13. Listed(g, <<>>)
    BY <1>6, <1>8, <1>9, <1>12 DEF Listed
  <1>14. \A k \in 1 .. Len(g) : g[k].talker = Rep!Talker(c)
    BY <1>6, <1>8
  <1>15. g # <<>>
    BY <1>7
  <1> QED
    BY <1>1, <1>5, <1>7, <1>8, <1>13, <1>14, <1>15

\* Some in view: they are cut into pieces of four, and the pieces are all of them.
LEMMA GSVSome ==
  ASSUME NEW V, \A v \in V : v.svId \in Nat, NEW s \in Seq(V), NEW c \in Rep!Constellation,
         Rep!OfType(s, c) # <<>>
  PROVE  /\ Rep!GSV(s, c) \in Seq(Sentence) /\ Rep!GSV(s, c) # <<>>
         /\ \A k \in 1 .. Len(Rep!GSV(s, c)) : Rep!GSV(s, c)[k].talker = Rep!Talker(c)
         /\ Listed(Rep!GSV(s, c), SvIds(Rep!OfType(s, c), c))
  <1> DEFINE svs == Rep!OfType(s, c)
             n == Len(svs)
             m == Rep!SentenceCount(n)
             offset == Rep!SvIdOffset(c)
             Chunk(k) == SubSeq(svs, 4 * (k - 1) + 1, IF 4 * k > n THEN n ELSE 4 * k)
             Named(k) == [j \in DOMAIN Chunk(k) |-> Chunk(k)[j].svId + offset]
             Told(k) == [type |-> "GSV", talker |-> Rep!Talker(c), of |-> m, number |-> k,
                         inView |-> n, svs |-> Named(k)]
  <1>1. svs \in Seq(V)
    BY WhereSeq DEF Rep!OfType
  <1>3. n \in Nat /\ n # 0 /\ n > 0 /\ DOMAIN svs = 1 .. n
    BY <1>1
  <1>9. Rep!GSV(s, c) = [k \in 1 .. m |-> Told(k)]
    BY <1>3, Zenon DEF Rep!GSV
  <1>4. SvIds(Rep!OfType(s, c), c) = [j \in DOMAIN svs |-> svs[j].svId + offset]
    BY Zenon DEF SvIds
  <1>6. offset \in Nat
    BY DEF Rep!SvIdOffset
  <1>2. Len(svs) = n
    OBVIOUS
  <1> HIDE DEF svs, offset
  <1>5. m \in Nat \ {0} /\ 4 * (m - 1) < n /\ n <= 4 * m
    BY <1>3, SentenceCounts
  <1> HIDE DEF n, m
  <1>7. PICK svIds : svIds = SvIds(Rep!OfType(s, c), c)
    OBVIOUS
  <1>8. svIds \in Seq(Nat) /\ Len(svIds) = n /\ \A j \in 1 .. n : svIds[j] = svs[j].svId + offset
    <2>1. svIds = [j \in 1 .. n |-> svs[j].svId + offset]
      BY <1>3, <1>4, <1>7
    <2>2. \A j \in 1 .. n : svs[j].svId + offset \in Nat
      BY <1>1, <1>2, <1>3, <1>6
    <2> QED
      BY <1>3, <2>1, <2>2
  <1>10. ASSUME NEW k \in 1 .. m
         PROVE  /\ Named(k) \in Seq(Nat) /\ Len(Named(k)) = Upto(n, k) - 4 * (k - 1)
                /\ Named(k) # <<>>
                /\ \A j \in 1 .. Len(Named(k)) : Named(k)[j] = svIds[4 * (k - 1) + j]
    <2>1. PICK a, b : a = 4 * (k - 1) + 1 /\ b = Upto(n, k)
      OBVIOUS
    <2>2. a \in 1 .. n /\ b \in a .. n /\ b - a + 1 = Upto(n, k) - 4 * (k - 1)
      <3>1. CASE 4 * k > n
        BY <1>3, <1>5, <2>1, <3>1 DEF Upto
      <3>2. CASE 4 * k <= n
        BY <1>3, <1>5, <2>1, <3>2 DEF Upto
      <3> QED
        BY <1>3, <3>1, <3>2
    <2>3. Chunk(k) = SubSeq(svs, a, b)
      BY <2>1 DEF Upto
    <2>4. PICK x : x = SubSeq(svs, a, b)
      OBVIOUS
    <2>5. x \in Seq(V) /\ Len(x) = b - a + 1 /\ \A j \in 1 .. b - a + 1 : x[j] = svs[a + j - 1]
      <3>1. a \in Int /\ b \in Int /\ \A i \in a .. b : svs[i] \in V
        BY <1>1, <1>2, <1>3, <2>2
      <3>2. a <= b
        BY <2>2
      <3> QED
        BY <2>4, <3>1, <3>2, SubSeqProperties
    <2>6. Named(k) = [j \in 1 .. b - a + 1 |-> x[j].svId + offset]
      <3>1. Chunk(k) = x
        BY <2>3, <2>4
      <3>2. DOMAIN x = 1 .. b - a + 1
        BY <2>5
      <3> HIDE DEF Chunk
      <3> QED
        BY <3>1, <3>2, Zenon
    <2> HIDE DEF Named, Chunk
    <2>7. ASSUME NEW j \in 1 .. b - a + 1
          PROVE  x[j].svId + offset = svIds[4 * (k - 1) + j] /\ x[j].svId + offset \in Nat
      <3>1. a + j - 1 = 4 * (k - 1) + j /\ 4 * (k - 1) + j \in 1 .. n
        BY <1>3, <2>1, <2>2
      <3>2. x[j] = svs[4 * (k - 1) + j]
        BY <2>5, <3>1
      <3>3. svIds[4 * (k - 1) + j] = svs[4 * (k - 1) + j].svId + offset
        BY <1>8, <3>1
      <3>4. svIds[4 * (k - 1) + j] \in Nat
        BY <1>8, <3>1
      <3> QED
        BY <3>2, <3>3, <3>4
    <2>8. b - a + 1 \in Nat \ {0}
      BY <2>2
    <2>9. Named(k) \in Seq(Nat) /\ Len(Named(k)) = b - a + 1
      <3>1. \A j \in 1 .. b - a + 1 : x[j].svId + offset \in Nat
        BY <2>7, Zenon
      <3>2. Named(k) \in [1 .. b - a + 1 -> Nat]
        BY <2>6, <3>1, Zenon
      <3> QED
        BY <2>8, <3>2, FunctionIsSeq
    <2>10. \A j \in 1 .. b - a + 1 : Named(k)[j] = svIds[4 * (k - 1) + j]
      BY <2>6, <2>7
    <2> QED
      BY <2>2, <2>8, <2>9, <2>10
  <1> HIDE DEF Named, Chunk
  <1>11. Rep!Talker(c) \in {"GP", "GL", "GA", "PQ"}
    BY DEF Rep!Constellation, Rep!Talker
  <1>12. \A k \in 1 .. m : Told(k) \in Sentence
    BY <1>3, <1>5, <1>10, <1>11 DEF Sentence
  <1>13. \A k \in 1 .. m : /\ Told(k).talker = Rep!Talker(c) /\ Told(k).of = m
                           /\ Told(k).number = k /\ Told(k).inView = n /\ Told(k).svs = Named(k)
    OBVIOUS
  <1> HIDE DEF Told
  <1>14. PICK g : g = [k \in 1 .. m |-> Told(k)]
    OBVIOUS
  <1>15. g \in Seq(Sentence) /\ Len(g) = m /\ DOMAIN g = 1 .. m /\ \A k \in 1 .. m : g[k] = Told(k)
    BY <1>5, <1>12, <1>14
  <1>16. PICK p : p = [k \in DOMAIN g |-> g[k].svs]
    OBVIOUS
  <1>17. p = [k \in 1 .. m |-> Named(k)]
    BY <1>13, <1>15, <1>16
  <1>18. p \in Seq(Seq(Nat)) /\ Len(p) = m /\ p # <<>> /\ \A k \in 1 .. m : p[k] = Named(k)
    <2>1. \A k \in 1 .. m : Named(k) \in Seq(Nat)
      BY <1>10
    <2>2. \A k \in 1 .. m : p[k] = Named(k)
      BY <1>17, Zenon
    <2>3. \A k \in 1 .. m : p[k] \in Seq(Nat)
      BY <2>1, <2>2, Zenon
    <2>4. DOMAIN p = 1 .. m /\ p = [k \in 1 .. m |-> p[k]]
      BY <1>17, <2>2, Zenon
    <2>6. p \in [1 .. m -> Seq(Nat)]
      BY <2>3, <2>4, Zenon
    <2>7. p \in Seq(Seq(Nat)) /\ Len(p) = m
      BY <1>5, <2>6, FunctionIsSeq
    <2>5. p \in Seq(Seq(Nat)) /\ Len(p) = m /\ p # <<>>
      BY <1>5, <2>7
    <2> QED
      BY <2>2, <2>5, Zenon
  <1>19. Rep!FlattenSeq(p) = svIds
    <2>1. svIds # <<>>
      BY <1>3, <1>8
    <2>2. \A k \in 1 .. Len(p) : Len(p[k]) = Upto(Len(svIds), k) - 4 * (k - 1)
      BY <1>8, <1>10, <1>18
    <2>3. \A k \in 1 .. Len(p) : \A j \in 1 .. Len(p[k]) : p[k][j] = svIds[4 * (k - 1) + j]
      BY <1>10, <1>18
    <2>4. 4 * (Len(p) - 1) < Len(svIds) /\ Len(svIds) <= 4 * Len(p)
      BY <1>5, <1>8, <1>18
    <2> QED
      BY <1>8, <1>18, <2>1, <2>2, <2>3, <2>4, Pieces
  <1>20. Listed(g, svIds)
    BY <1>8, <1>10, <1>13, <1>15, <1>16, <1>19 DEF Listed
  <1>21. \A k \in 1 .. Len(g) : g[k].talker = Rep!Talker(c)
    BY <1>13, <1>15
  <1>22. Rep!GSV(s, c) = g
    BY <1>9, <1>14, Zenon
  <1>23. g \in Seq(Sentence)
    BY <1>15, Zenon
  <1>24. g # <<>>
    BY <1>5, <1>15
  <1> QED
    BY <1>7, <1>20, <1>21, <1>22, <1>23, <1>24, Zenon

\* With satellites in view or without
LEMMA GSVLists ==
  ASSUME NEW V, \A v \in V : v.svId \in Nat, NEW s \in Seq(V), NEW c \in Rep!Constellation
  PROVE  /\ Rep!GSV(s, c) \in Seq(Sentence) /\ Rep!GSV(s, c) # <<>>
         /\ \A k \in 1 .. Len(Rep!GSV(s, c)) : Rep!GSV(s, c)[k].talker = Rep!Talker(c)
         /\ Listed(Rep!GSV(s, c), SvIds(Rep!OfType(s, c), c))
  BY GSVNone, GSVSome

\* The sentences of a report are put together from these.
AreParts(p, s) ==
  /\ p \in Seq(Seq(Sentence)) /\ Len(p) = 5 /\ Rep!generate_sv(s) = Rep!FlattenSeq(p)
  /\ \A k \in 1 .. 5 :
       /\ p[k] = Rep!GSV(s, Rep!InOrder[k])
       /\ \A n \in 1 .. Len(p[k]) : p[k][n].talker = Rep!Talker(Rep!InOrder[k])

\* They are those of the constellations.
LEMMA AllSentences ==
  ASSUME NEW V, \A v \in V : v.svId \in Nat, NEW s \in Seq(V)
  PROVE  \E p : AreParts(p, s)
  <1>1. \A k \in 1 .. 5 : Rep!InOrder[k] \in Rep!Constellation
    BY DEF Rep!InOrder, Rep!Constellation
  <1>3. PICK p : p = [k \in 1 .. 5 |-> Rep!GSV(s, Rep!InOrder[k])]
    OBVIOUS
  <1>4. \A k \in 1 .. 5 : p[k] = Rep!GSV(s, Rep!InOrder[k])
    BY <1>3, Zenon
  <1>5. ASSUME NEW k \in 1 .. 5
        PROVE  p[k] \in Seq(Sentence) /\ \A n \in 1 .. Len(p[k]) : p[k][n].talker = Rep!Talker(Rep!InOrder[k])
    <2>1. PICK d \in Rep!Constellation : d = Rep!InOrder[k]
      BY <1>1
    <2>2. p[k] = Rep!GSV(s, d)
      BY <1>4, <2>1
    <2>3. /\ Rep!GSV(s, d) \in Seq(Sentence)
          /\ \A n \in 1 .. Len(Rep!GSV(s, d)) : Rep!GSV(s, d)[n].talker = Rep!Talker(d)
      BY GSVLists, Zenon
    <2> QED
      BY <2>1, <2>2, <2>3, Zenon
  <1>6. p \in [1 .. 5 -> Seq(Sentence)]
    <2>1. \A k \in 1 .. 5 : Rep!GSV(s, Rep!InOrder[k]) \in Seq(Sentence)
      BY <1>4, <1>5, Zenon
    <2> QED
      BY <1>3, <2>1, Zenon
  <1>7. p \in Seq(Seq(Sentence)) /\ Len(p) = 5
    <2>1. PICK m \in Nat : m = 5
      OBVIOUS
    <2>2. p \in [1 .. m -> Seq(Sentence)]
      BY <1>6, <2>1
    <2>3. p \in Seq(Seq(Sentence)) /\ Len(p) = m
      BY <2>2, FunctionIsSeq, Zenon
    <2> QED
      BY <2>1, <2>3
  <1>8. Rep!generate_sv(s) = Rep!FlattenSeq(p)
    BY <1>3, Zenon DEF Rep!generate_sv
  <1> QED
    BY <1>4, <1>5, <1>7, <1>8, Zenon DEF AreParts

\* Of all the sentences those of its talker are those of the constellation.
LEMMA TalkersOwn ==
  ASSUME NEW V, \A v \in V : v.svId \in Nat, NEW s \in Seq(V),
         NEW c \in {"GPS", "GLONASS", "GALILEO"}
  PROVE  Rep!Where(Rep!generate_sv(s), "talker", Rep!Talker(c)) = Rep!GSV(s, c)
  <1>2. PICK j \in 1 .. 5 : /\ Rep!InOrder[j] = c
                           /\ \A k \in 1 .. 5 : Rep!Talker(Rep!InOrder[k]) = Rep!Talker(c) <=> k = j
    <2>1. \A k \in 1 .. 5 : Rep!Talker(Rep!InOrder[k]) =
                              <<"GP", "GL", "GA", "PQ", "PQ">>[k]
      BY DEF Rep!InOrder, Rep!Talker
    <2>2. CASE c = "GPS"
      <3>1. Rep!InOrder[1] = c /\ Rep!Talker(c) = "GP"
        BY <2>2 DEF Rep!InOrder, Rep!Talker
      <3> QED
        BY <2>1, <3>1
    <2>3. CASE c = "GLONASS"
      <3>1. Rep!InOrder[2] = c /\ Rep!Talker(c) = "GL"
        BY <2>3 DEF Rep!InOrder, Rep!Talker
      <3> QED
        BY <2>1, <3>1
    <2>4. CASE c = "GALILEO"
      <3>1. Rep!InOrder[3] = c /\ Rep!Talker(c) = "GA"
        BY <2>4 DEF Rep!InOrder, Rep!Talker
      <3> QED
        BY <2>1, <3>1
    <2> QED
      BY <2>2, <2>3, <2>4
  <1>3. PICK p :
           /\ p \in Seq(Seq(Sentence)) /\ Len(p) = 5 /\ Rep!generate_sv(s) = Rep!FlattenSeq(p)
           /\ \A k \in 1 .. 5 :
                /\ p[k] = Rep!GSV(s, Rep!InOrder[k])
                /\ \A n \in 1 .. Len(p[k]) : p[k][n].talker = Rep!Talker(Rep!InOrder[k])
    <2>1. \E p : AreParts(p, s)
      BY AllSentences, Zenon
    <2> QED
      BY <2>1, Zenon DEF AreParts
  <1>8. \A k \in 1 .. Len(p) : \A n \in 1 .. Len(p[k]) : p[k][n]["talker"] = Rep!Talker(c) <=> k = j
    BY <1>2, <1>3
  <1>9. Rep!Where(Rep!FlattenSeq(p), "talker", Rep!Talker(c)) = p[j]
    <2>1. j \in 1 .. Len(p)
      BY <1>3
    <2>2. p \in Seq(Seq(Sentence))
      BY <1>3
    <2>3. WhereIn(p, j, "talker", Rep!Talker(c))
      BY <1>8, <2>1, <2>2, WherePart, Zenon
    <2> QED
      BY <2>3, Zenon DEF WhereIn
  <1> QED
    BY <1>2, <1>3, <1>9

DropsAll(s, field, value) == Rep!Where(s, field, value) = <<>>
KeepsAll(s, field, value) == Rep!Where(s, field, value) = s

LEMMA NoneHas ==
  ASSUME NEW V, NEW s \in Seq(V), NEW field, NEW value, \A n \in 1 .. Len(s) : s[n][field] # value
  PROVE  DropsAll(s, field, value)
  BY WhereNone DEF DropsAll

LEMMA AllHave ==
  ASSUME NEW V, NEW s \in Seq(V), NEW field, NEW value, \A n \in 1 .. Len(s) : s[n][field] = value
  PROVE  KeepsAll(s, field, value)
  BY WhereAll DEF KeepsAll

WhereBoth(p, field, value) ==
  Rep!Where(Rep!FlattenSeq(p), field, value) = p[4] \o p[5]

\* The records of the last two of five sequences have the value.
LEMMA WhereTwo ==
  ASSUME NEW V, NEW p \in Seq(Seq(V)), Len(p) = 5, NEW field, NEW value,
         \A k \in 1 .. 5 : \A n \in 1 .. Len(p[k]) : p[k][n][field] = value <=> k \in {4, 5}
  PROVE  WhereBoth(p, field, value)
  <1>0. Len(p) \in Nat \ {0} /\ p # <<>>
    OBVIOUS
  <1>1. PICK f : Flattens(f, p) /\ Rep!FlattenSeq(p) = f[Len(p)]
    BY <1>0, FlattenIs
  <1>2. \A k \in 1 .. 5 : f[k] \in Seq(V)
    BY <1>0, <1>1, FlatSeq, Zenon
  <1>3. PICK a, b, c, d, e : /\ a = p[1] /\ b = p[2] /\ c = p[3] /\ d = p[4] /\ e = p[5]
                             /\ a \in Seq(V) /\ b \in Seq(V) /\ c \in Seq(V)
                             /\ d \in Seq(V) /\ e \in Seq(V)
    OBVIOUS
  <1>4. /\ \A n \in 1 .. Len(a) : a[n][field] # value
        /\ \A n \in 1 .. Len(b) : b[n][field] # value
        /\ \A n \in 1 .. Len(c) : c[n][field] # value
        /\ \A n \in 1 .. Len(d) : d[n][field] = value
        /\ \A n \in 1 .. Len(e) : e[n][field] = value
    BY <1>3
  <1> DEFINE W(s) == Rep!Where(s, field, value)
  <1>5. W(a) = <<>> /\ W(b) = <<>> /\ W(c) = <<>>
    <2>1. DropsAll(a, field, value)
      <3>1. a \in Seq(V)
        BY <1>3
      <3>2. \A n \in 1 .. Len(a) : a[n][field] # value
        BY <1>4
      <3> QED
        BY <3>1, <3>2, NoneHas, Zenon
    <2>2. DropsAll(b, field, value)
      <3>1. b \in Seq(V)
        BY <1>3
      <3>2. \A n \in 1 .. Len(b) : b[n][field] # value
        BY <1>4
      <3> QED
        BY <3>1, <3>2, NoneHas, Zenon
    <2>3. DropsAll(c, field, value)
      <3>1. c \in Seq(V)
        BY <1>3
      <3>2. \A n \in 1 .. Len(c) : c[n][field] # value
        BY <1>4
      <3> QED
        BY <3>1, <3>2, NoneHas, Zenon
    <2> QED
      BY <2>1, <2>2, <2>3, Zenon DEF DropsAll
  <1>6. W(d) = d /\ W(e) = e
    <2>1. KeepsAll(d, field, value)
      <3>1. d \in Seq(V)
        BY <1>3
      <3>2. \A n \in 1 .. Len(d) : d[n][field] = value
        BY <1>4
      <3> QED
        BY <3>1, <3>2, AllHave, Zenon
    <2>2. KeepsAll(e, field, value)
      <3>1. e \in Seq(V)
        BY <1>3
      <3>2. \A n \in 1 .. Len(e) : e[n][field] = value
        BY <1>4
      <3> QED
        BY <3>1, <3>2, AllHave, Zenon
    <2> QED
      BY <2>1, <2>2, Zenon DEF KeepsAll
  <1>7. ASSUME NEW k \in 1 .. 4
        PROVE  W(f[k + 1]) = W(f[k]) \o W(p[k + 1])
    <2>1. FlatGoes(f, p, k)
      <3>1. k \in Nat \ {0} /\ k + 1 <= Len(p)
        OBVIOUS
      <3> QED
        BY <1>0, <1>1, <3>1, FlatNext, Zenon
    <2>2. PICK x, y : x = f[k] /\ y = p[k + 1] /\ x \in Seq(V) /\ y \in Seq(V)
      <3>1. k \in 1 .. 5 /\ k + 1 \in {2, 3, 4, 5}
        OBVIOUS
      <3>2. f[k] \in Seq(V)
        BY <1>2, <3>1
      <3>3. \A i \in {2, 3, 4, 5} : p[i] \in Seq(V)
        BY <1>3
      <3>4. p[k + 1] \in Seq(V)
        BY <3>1, <3>3, Zenon
      <3> QED
        BY <3>2, <3>4, Zenon
    <2>3. WhereOf(x, y, field, value)
      BY <2>2, WhereConcat, Zenon
    <2> QED
      BY <2>1, <2>2, <2>3 DEF FlatGoes, WhereOf
  <1>8. f[1] = a
    <2>1. FlatStarts(f, p)
      BY <1>0, <1>1, FlatFirst, Zenon
    <2> QED
      BY <1>3, <2>1 DEF FlatStarts
  <1>9. /\ W(f[2]) = W(f[1]) \o W(b) /\ W(f[3]) = W(f[2]) \o W(c)
        /\ W(f[4]) = W(f[3]) \o W(d) /\ W(f[5]) = W(f[4]) \o W(e)
    <2> DEFINE Lengthens(k) == W(f[k + 1]) = W(f[k]) \o W(p[k + 1])
    <2>1. \A k \in 1 .. 4 : Lengthens(k)
      BY <1>7
    <2>2. 1 \in 1 .. 4 /\ 2 \in 1 .. 4 /\ 3 \in 1 .. 4 /\ 4 \in 1 .. 4
      OBVIOUS
    <2>3. Lengthens(1) /\ Lengthens(2) /\ Lengthens(3) /\ Lengthens(4)
      <3> HIDE DEF Lengthens, W
      <3> QED
        BY <2>1, <2>2, Zenon
    <2>4. 1 + 1 = 2 /\ 2 + 1 = 3 /\ 3 + 1 = 4 /\ 4 + 1 = 5
      OBVIOUS
    <2> HIDE DEF W
    <2>5. W(f[2]) = W(f[1]) \o W(b) /\ W(f[3]) = W(f[2]) \o W(c)
      BY <1>3, <2>3, <2>4
    <2>6. W(f[4]) = W(f[3]) \o W(d) /\ W(f[5]) = W(f[4]) \o W(e)
      BY <1>3, <2>3, <2>4
    <2> QED
      BY <2>5, <2>6, Zenon
  <1> HIDE DEF W
  <1>10. <<>> \o <<>> = <<>> /\ <<>> \o d = d
    BY <1>3
  <1>11. W(f[2]) = <<>>
    BY <1>5, <1>8, <1>9, <1>10
  <1>12. W(f[3]) = <<>>
    BY <1>5, <1>9, <1>10, <1>11
  <1>13. W(f[4]) = d
    BY <1>6, <1>9, <1>10, <1>12
  <1>14. W(f[5]) = d \o e
    BY <1>6, <1>9, <1>13
  <1> QED
    BY <1>1, <1>3, <1>14 DEF W, WhereBoth

SharedTalker(s) ==
  Rep!Where(Rep!generate_sv(s), "talker", Rep!Talker("QZSS")) = Rep!GSV(s, "QZSS") \o Rep!GSV(s, "BEIDOU")

\* Those of the talker PQ are those of QZSS and behind them those of BeiDou.
LEMMA TalkersShare ==
  ASSUME NEW V, \A v \in V : v.svId \in Nat, NEW s \in Seq(V)
  PROVE  SharedTalker(s)
  <1>1. \A k \in 1 .. 5 : Rep!Talker(Rep!InOrder[k]) = Rep!Talker("QZSS") <=> k \in {4, 5}
    <2>1. \A k \in 1 .. 5 : Rep!Talker(Rep!InOrder[k]) =
                              <<"GP", "GL", "GA", "PQ", "PQ">>[k]
      BY DEF Rep!InOrder, Rep!Talker
    <2>2. Rep!Talker("QZSS") = "PQ"
      BY DEF Rep!Talker
    <2> QED
      BY <2>1, <2>2
  <1>2. PICK p :
           /\ p \in Seq(Seq(Sentence)) /\ Len(p) = 5 /\ Rep!generate_sv(s) = Rep!FlattenSeq(p)
           /\ \A k \in 1 .. 5 :
                /\ p[k] = Rep!GSV(s, Rep!InOrder[k])
                /\ \A n \in 1 .. Len(p[k]) : p[k][n].talker = Rep!Talker(Rep!InOrder[k])
    <2>1. \E p : AreParts(p, s)
      BY AllSentences, Zenon
    <2> QED
      BY <2>1, Zenon DEF AreParts
  <1>3. \A k \in 1 .. 5 : \A n \in 1 .. Len(p[k]) :
          p[k][n]["talker"] = Rep!Talker("QZSS") <=> k \in {4, 5}
    BY <1>1, <1>2
  <1>4. WhereBoth(p, "talker", Rep!Talker("QZSS"))
    BY <1>2, <1>3, WhereTwo, Zenon
  <1>5. Rep!InOrder[4] = "QZSS" /\ Rep!InOrder[5] = "BEIDOU"
    BY DEF Rep!InOrder
  <1>6. p[4] = Rep!GSV(s, "QZSS") /\ p[5] = Rep!GSV(s, "BEIDOU")
    BY <1>2, <1>5
  <1> QED
    BY <1>2, <1>4, <1>6 DEF WhereBoth, SharedTalker

\* What is listed in front and what is listed behind, of two sequences put together
LEMMA FrontAndBehind ==
  ASSUME NEW V, NEW x \in Seq(V), NEW y \in Seq(V)
  PROVE  /\ SubSeq(x \o y, 1, Len(x)) = x
         /\ SubSeq(x \o y, Len(x) + 1, Len(x \o y)) = y
  <1>1. x \o y \in Seq(V) /\ Len(x \o y) = Len(x) + Len(y) /\ Len(x) \in Nat /\ Len(y) \in Nat
    OBVIOUS
  <1>2. (\A i \in 1 .. Len(x) : (x \o y)[i] = x[i]) /\ \A i \in 1 .. Len(y) : (x \o y)[Len(x) + i] = y[i]
    OBVIOUS
  <1>3. PICK z : z = x \o y
    OBVIOUS
  <1>4. SubSeq(z, 1, Len(x)) = x
    <2>1. PICK u : u = SubSeq(z, 1, Len(x))
      OBVIOUS
    <2>2. u \in Seq(V) /\ Len(u) = Len(x) /\ \A i \in 1 .. Len(x) : u[i] = z[i]
      BY <1>1, <1>3, <2>1
    <2>3. \A i \in 1 .. Len(u) : u[i] = x[i]
      BY <1>2, <1>3, <2>2
    <2> QED
      BY <2>1, <2>2, <2>3, SeqEqual
  <1>5. SubSeq(z, Len(x) + 1, Len(z)) = y
    <2>1. PICK u : u = SubSeq(z, Len(x) + 1, Len(z))
      OBVIOUS
    <2>2. u \in Seq(V) /\ Len(u) = Len(y) /\ \A i \in 1 .. Len(y) : u[i] = z[Len(x) + i]
      <3>1. PICK a \in Nat, b \in Nat :
              a = Len(x) + 1 /\ b = Len(z) /\ b - a + 1 = Len(y) /\ a >= 1 /\ b <= Len(z)
        BY <1>1, <1>3
      <3>2. u = SubSeq(z, a, b) /\ \A i \in a .. b : z[i] \in V
        BY <1>1, <1>3, <2>1, <3>1
      <3>3. /\ u \in Seq(V) /\ Len(u) = (IF a <= b THEN b - a + 1 ELSE 0)
            /\ \A i \in 1 .. b - a + 1 : u[i] = z[a + i - 1]
        BY <3>1, <3>2, SubSeqProperties
      <3>4. \A i \in 1 .. Len(y) : i \in 1 .. b - a + 1 /\ a + i - 1 = Len(x) + i
        BY <1>1, <3>1
      <3>5. Len(u) = Len(y)
        <4>1. PICK m \in Nat : m = Len(y)
          BY <1>1
        <4>2. b - a + 1 = m
          BY <3>1, <4>1, Zenon
        <4>3. (IF a <= b THEN b - a + 1 ELSE 0) = m
          BY <4>2
        <4> QED
          BY <3>3, <4>1, <4>3, Zenon
      <3>6. \A i \in 1 .. Len(y) : u[i] = z[Len(x) + i]
        BY <3>3, <3>4, Zenon
      <3> QED
        BY <3>3, <3>5, <3>6
    <2>3. \A i \in 1 .. Len(u) : u[i] = y[i]
      BY <1>2, <1>3, <2>2
    <2> QED
      BY <2>1, <2>2, <2>3, SeqEqual
  <1> QED
    BY <1>3, <1>4, <1>5

\* What IsSeries says of the sentences, for the satellites of the report r
Series(sentences, r, c) ==
  LET svs == Rep!OfType([k \in DOMAIN r.sv |-> Rep!Numbered(r.sv[k])], c) IN
  /\ Rep!FlattenSeq([k \in DOMAIN sentences |-> sentences[k].svs]) =
       [k \in DOMAIN svs |-> svs[k].svId + Rep!SvIdOffset(c)]
  /\ \A k \in DOMAIN sentences :
       /\ sentences[k].number = k /\ sentences[k].of = Len(sentences)
       /\ sentences[k].inView = Len(svs)
       /\ svs # <<>> => sentences[k].svs # <<>>

\* What GsvListsInView says of the sentences of a report
GsvSaid(sentences, r) ==
  r.kind = "sv" /\ sentences # <<>> =>
    /\ \A c \in {"GPS", "GLONASS", "GALILEO"} :
         Series(Rep!Where(sentences, "talker", Rep!Talker(c)), r, c)
    /\ LET pq == Rep!Where(sentences, "talker", Rep!Talker("QZSS")) IN
       \E n \in 1 .. Len(pq) :
         Series(SubSeq(pq, 1, n), r, "QZSS") /\ Series(SubSeq(pq, n + 1, Len(pq)), r, "BEIDOU")

\* It says the same.
LEMMA GsvSays ==
  /\ Rep!GsvListsInView <=> GsvSaid(nmea, lastReport)
  /\ Rep!GsvListsInView' <=> GsvSaid(nmea', lastReport')
  BY Zenon DEF Rep!GsvListsInView, Rep!OfTalker, Rep!IsSeries, Series, GsvSaid

\* Sentences that list the satellites of the report are a series.
LEMMA ListedIsSeries ==
  ASSUME NEW r, NEW c, NEW shown, shown = [k \in DOMAIN r.sv |-> Rep!Numbered(r.sv[k])],
         NEW V, shown \in Seq(V), NEW own, Listed(own, SvIds(Rep!OfType(shown, c), c))
  PROVE  Series(own, r, c)
  <1> DEFINE svs == Rep!OfType(shown, c)
  <1>1. svs \in Seq(V)
    BY WhereSeq DEF Rep!OfType
  <1>2. PICK svIds : svIds = SvIds(svs, c)
    OBVIOUS
  <1>3. Listed(own, svIds)
    BY <1>2
  <1>4. svs = Rep!OfType([k \in DOMAIN r.sv |-> Rep!Numbered(r.sv[k])], c)
    OBVIOUS
  <1> HIDE DEF svs
  <1>5. Len(svIds) = Len(svs)
    BY <1>1, <1>2 DEF SvIds
  <1>6. svs # <<>> => svIds # <<>>
    BY <1>1, <1>5
  <1>7. Rep!FlattenSeq([k \in DOMAIN own |-> own[k].svs]) =
          [k \in DOMAIN svs |-> svs[k].svId + Rep!SvIdOffset(c)]
    BY <1>2, <1>3, Zenon DEF Listed, SvIds
  <1>8. \A k \in DOMAIN own :
          /\ own[k].number = k /\ own[k].of = Len(own) /\ own[k].inView = Len(svIds)
          /\ svIds # <<>> => own[k].svs # <<>>
    BY <1>3, Zenon DEF Listed
  <1> QED
    BY <1>4, <1>5, <1>6, <1>7, <1>8, Zenon DEF Series

\* If the sentences of each constellation are a series the property holds.
LEMMA SeriesSaid ==
  ASSUME NEW V, \A v \in V : v.svId \in Nat, NEW s \in Seq(V), NEW r,
         \A c \in Rep!Constellation : Series(Rep!GSV(s, c), r, c)
  PROVE  GsvSaid(Rep!generate_sv(s), r)
  <1>1. ASSUME NEW c \in {"GPS", "GLONASS", "GALILEO"}
        PROVE  Series(Rep!Where(Rep!generate_sv(s), "talker", Rep!Talker(c)), r, c)
    <2>1. c \in Rep!Constellation
      BY DEF Rep!Constellation
    <2>2. Rep!Where(Rep!generate_sv(s), "talker", Rep!Talker(c)) = Rep!GSV(s, c)
      BY TalkersOwn
    <2> QED
      BY <2>1, <2>2
  <1>2. PICK pq : pq = Rep!Where(Rep!generate_sv(s), "talker", Rep!Talker("QZSS"))
    OBVIOUS
  <1>3. PICK x, y : x = Rep!GSV(s, "QZSS") /\ y = Rep!GSV(s, "BEIDOU")
    OBVIOUS
  <1>4. "QZSS" \in Rep!Constellation /\ "BEIDOU" \in Rep!Constellation
    BY DEF Rep!Constellation
  <1>5. x \in Seq(Sentence) /\ x # <<>> /\ y \in Seq(Sentence)
    BY <1>3, <1>4, GSVLists, Zenon
  <1>6. pq = x \o y
    <2>1. SharedTalker(s)
      BY TalkersShare, Zenon
    <2> QED
      BY <1>2, <1>3, <2>1 DEF SharedTalker
  <1>7. SubSeq(pq, 1, Len(x)) = x /\ SubSeq(pq, Len(x) + 1, Len(pq)) = y
    BY <1>5, <1>6, FrontAndBehind
  <1>8. Len(x) \in 1 .. Len(pq)
    BY <1>5, <1>6
  <1>9. Series(x, r, "QZSS") /\ Series(y, r, "BEIDOU")
    BY <1>3, <1>4
  <1>10. \E n \in 1 .. Len(pq) :
           Series(SubSeq(pq, 1, n), r, "QZSS") /\ Series(SubSeq(pq, n + 1, Len(pq)), r, "BEIDOU")
    BY <1>7, <1>8, <1>9, Zenon
  <1> QED
    BY <1>1, <1>2, <1>10, Zenon DEF GsvSaid

\* The flagged satellites are those shown: the numbers are those of the framework.
AsShown(V, shown, s, flagged) ==
  /\ flagged \in Seq(V) /\ \A v \in V : v.svId \in Nat
  /\ shown = [k \in DOMAIN s |-> Rep!Numbered(s[k])] /\ shown \in Seq(V)
  /\ \A c \in Rep!Constellation :
       SvIds(Rep!OfType(flagged, c), c) = SvIds(Rep!OfType(shown, c), c)

\* The satellites that a report tells of are those of the report with the numbers of the
\* framework, but for the flags.
LEMMA ToldAreReported ==
  ASSUME NEW s \in Seq(SvReport), NEW wraps \in BOOLEAN, NEW flagged,
         flagged = [k \in DOMAIN s |-> Rep!Flagged(s[k], wraps)]
  PROVE  \E V, shown : AsShown(V, shown, s, flagged)
  <1>0. PICK shown : shown = [k \in DOMAIN s |-> Rep!Numbered(s[k])]
    OBVIOUS
  <1> DEFINE V == {shown[k] : k \in DOMAIN s} \union {flagged[k] : k \in DOMAIN s}
  <1>1. PICK n \in Nat : n = Len(s) /\ DOMAIN s = 1 .. n
    OBVIOUS
  <1>2. \A k \in 1 .. n : /\ s[k] \in SvReport
                          /\ flagged[k] = Rep!Flagged(s[k], wraps)
                          /\ shown[k] = Rep!Numbered(s[k])
    BY <1>0, <1>1
  <1>3. ASSUME NEW sv \in SvReport
        PROVE  /\ Rep!Flagged(sv, wraps).type = Rep!Numbered(sv).type
               /\ Rep!Flagged(sv, wraps).svId = Rep!Numbered(sv).svId
               /\ Rep!Numbered(sv).svId \in Nat
    <2>1. sv.svId \in Nat /\ sv.svId + 192 \in Nat
      BY DEF SvReport
    <2>2. Rep!Numbered(sv).svId = IF sv.type = "QZSS" THEN sv.svId + 192 ELSE sv.svId
      BY DEF Rep!Numbered, SvReport
    <2>3. /\ Rep!Flagged(sv, wraps).type = Rep!Numbered(sv).type
          /\ Rep!Flagged(sv, wraps).svId = Rep!Numbered(sv).svId
      BY DEF Rep!Flagged, Rep!Numbered, SvReport
    <2> QED
      BY <2>1, <2>2, <2>3
  <1>4. ASSUME NEW k \in 1 .. n
        PROVE  /\ shown[k].svId \in Nat /\ flagged[k].svId = shown[k].svId
               /\ flagged[k].type = shown[k].type
    <2>1. PICK sv \in SvReport : sv = s[k] /\ flagged[k] = Rep!Flagged(sv, wraps)
                                 /\ shown[k] = Rep!Numbered(sv)
      BY <1>2
    <2> QED
      BY <1>3, <2>1
  <1>5. \A v \in V : v.svId \in Nat
    BY <1>1, <1>4
  <1>6. flagged \in [1 .. n -> V] /\ shown \in [1 .. n -> V]
    BY <1>0, <1>1
  <1> HIDE DEF V
  <1>7. flagged \in Seq(V) /\ Len(flagged) = n /\ shown \in Seq(V) /\ Len(shown) = n
    BY <1>6, FunctionIsSeq
  <1>8. ASSUME NEW c \in Rep!Constellation
        PROVE  SvIds(Rep!OfType(flagged, c), c) = SvIds(Rep!OfType(shown, c), c)
    <2>2. \A k \in 1 .. Len(flagged) : flagged[k].type = c <=> shown[k].type = c
      BY <1>4, <1>7
    <2>3. \A k \in 1 .. Len(flagged) : flagged[k].type = c => flagged[k].svId = shown[k].svId
      BY <1>4, <1>7
    <2>4. Alike(Rep!Where(flagged, "type", c), Rep!Where(shown, "type", c))
      BY <1>7, <2>2, <2>3, WhereAlike
    <2>5. PICK x, y : /\ x = Rep!OfType(flagged, c) /\ y = Rep!OfType(shown, c)
                      /\ x \in Seq(V) /\ y \in Seq(V)
      BY <1>7, WhereSeq DEF Rep!OfType
    <2>6. Alike(x, y)
      BY <2>4, <2>5 DEF Rep!OfType
    <2>7. DOMAIN x = DOMAIN y /\ \A k \in DOMAIN x : x[k].svId = y[k].svId
      BY <2>5, <2>6 DEF Alike
    <2>8. SvIds(x, c) = SvIds(y, c)
      BY <2>7 DEF SvIds
    <2> QED
      BY <2>5, <2>8
  <1> QED
    BY <1>0, <1>5, <1>7, <1>8, Zenon DEF AsShown

\* Every report keeps the property.
LEMMA GsvStep ==
  ASSUME ReportsInv, Rep!GsvListsInView, [Rep!Next]_reportVars
  PROVE  Rep!GsvListsInView'
  <1>1. CASE Rep!SetTracking
    <2>1. UNCHANGED <<lastReport, nmea>>
      BY <1>1 DEF Rep!SetTracking
    <2> QED
      BY <2>1, GsvSays
  <1>2. ASSUME NEW fix \in Fixes, Rep!reportPosition(fix)
        PROVE  Rep!GsvListsInView'
    <2>1. lastReport'.kind = "fix"
      BY <1>2 DEF Rep!reportPosition, Rep!NoReport
    <2> QED
      BY <2>1 DEF Rep!GsvListsInView
  <1>3. ASSUME NEW svNotify \in SvReports, Rep!reportSv(svNotify)
        PROVE  Rep!GsvListsInView'
    <2>1. PICK wraps \in BOOLEAN :
            /\ Rep!NmeaTold(Rep!generate_sv([k \in DOMAIN svNotify |-> Rep!Flagged(svNotify[k], wraps)]))
            /\ lastReport' = [kind |-> "sv", sv |-> svNotify]
      BY <1>3 DEF Rep!reportSv, Rep!NoReport
    <2>2. PICK flagged : flagged = [k \in DOMAIN svNotify |-> Rep!Flagged(svNotify[k], wraps)]
      OBVIOUS
    <2>3. nmea' = Rep!generate_sv(flagged) \/ nmea' = <<>>
      BY <2>1, <2>2 DEF Rep!NmeaTold
    <2>4. CASE nmea' = <<>>
      BY <2>4 DEF Rep!GsvListsInView
    <2>5. CASE nmea' = Rep!generate_sv(flagged)
      <3>1. svNotify \in Seq(SvReport) /\ lastReport'.sv = svNotify
        BY <2>1, ReportsAssumption DEF SvReport
      <3>2. PICK V, shown :
              /\ flagged \in Seq(V) /\ \A v \in V : v.svId \in Nat
              /\ shown = [k \in DOMAIN svNotify |-> Rep!Numbered(svNotify[k])] /\ shown \in Seq(V)
              /\ \A c \in Rep!Constellation :
                   SvIds(Rep!OfType(flagged, c), c) = SvIds(Rep!OfType(shown, c), c)
        <4>1. \E V, shown : AsShown(V, shown, svNotify, flagged)
          BY <2>2, <3>1, ToldAreReported, Zenon
        <4> QED
          BY <4>1, Zenon DEF AsShown
      <3>3. ASSUME NEW c \in Rep!Constellation
            PROVE  Series(Rep!GSV(flagged, c), lastReport', c)
        <4>1. Listed(Rep!GSV(flagged, c), SvIds(Rep!OfType(shown, c), c))
          BY <3>2, GSVLists, Zenon
        <4> QED
          BY <3>1, <3>2, <4>1, ListedIsSeries, Zenon
      <3>4. GsvSaid(nmea', lastReport')
        <4>1. GsvSaid(Rep!generate_sv(flagged), lastReport')
          BY <3>2, <3>3, SeriesSaid, Zenon
        <4> QED
          BY <2>5, <4>1
      <3> QED
        BY <3>4, GsvSays
    <2> QED
      BY <2>3, <2>4, <2>5
  <1>4. ASSUME NEW debug \in BOOLEAN, Rep!reportNmea(debug)
        PROVE  Rep!GsvListsInView'
    <2>1. lastReport' = [lastReport EXCEPT !.kind = IF @ = "sv" THEN "none" ELSE @]
      BY <1>4 DEF Rep!reportNmea
    <2>2. lastReport'.kind # "sv"
      BY <2>1 DEF ReportsInv
    <2> QED
      BY <2>2 DEF Rep!GsvListsInView
  <1>5. CASE UNCHANGED reportVars
    <2>1. UNCHANGED <<lastReport, nmea>>
      BY <1>5 DEF reportVars
    <2> QED
      BY <2>1, GsvSays
  <1> QED
    BY <1>1, <1>2, <1>3, <1>4, <1>5 DEF Rep!Next

\* GsvListsInView: the GSV sentences of GP, of GL and of GA are a series each, which names
\* every satellite of the constellation in view once and in the order of the report, numbers
\* itself and counts right; those of PQ are two such series, of QZSS and behind it of BeiDou,
\* whatever the number and the order of the satellites (loc_nmea_generate_sv and
\* loc_nmea_generate_GSV).
THEOREM GsvComplete == MCSpec => []GsvListsInView
  <1>1. MCInit => ReportsInv /\ Rep!GsvListsInView
    <2>1. MCInit => Rep!Init
      BY DEF MCInit
    <2>2. Rep!Init => lastReport.kind = "none"
      BY DEF Rep!Init, Rep!NoReport
    <2> QED
      BY <2>1, <2>2, ReportsStart DEF Rep!GsvListsInView
  <1>2. ReportsInv /\ Rep!GsvListsInView /\ [MCNext]_mcvars => (ReportsInv /\ Rep!GsvListsInView)'
    <2> SUFFICES ASSUME ReportsInv, Rep!GsvListsInView, [MCNext]_mcvars
                 PROVE  ReportsInv' /\ Rep!GsvListsInView'
      OBVIOUS
    <2>1. [Rep!Next]_reportVars
      BY PartSteps
    <2> QED
      BY <2>1, ReportsStep, GsvStep
  <1>3. ReportsInv /\ Rep!GsvListsInView => GsvListsInView
    BY DEF GsvListsInView
  <1> QED
    BY <1>1, <1>2, <1>3, PTL DEF MCSpec

-----------------------------------------------------------------------------
(* The status cache.  StatusIsCurrent is not inductive: a network report is  *)
(* collated with the last one, so what is up must be what the cache holds    *)
(* from the first report on, and nothing may be up before it.                *)

Said == StatusValues \union {Sta!Cleared, Sta!Default} \union SUBSET NetworkTypes

NetworksInv ==
  IF "NETWORKINFO" \in DataItems
  THEN /\ reportCache["NETWORKINFO"] \in Seq(SUBSET NetworkTypes)
       /\ reportCache["NETWORKINFO"] = <<>> => connected = {} /\ ~connectedFirst
       /\ Sta!NetworksAreUp
  ELSE ~connectedFirst

StatusInv ==
  /\ reportCache \in [Sta!Items -> Seq(Said)]
  /\ \A i \in Sta!Items : Len(reportCache[i]) <= Sta!maxItem
  /\ Sta!LatestIsCurrent
  /\ NetworksInv

\* A report at the end of a history that is full pushes out the oldest one alone.
LEMMA RecentReport ==
  ASSUME NEW s \in Seq(Said), Len(s) <= Sta!maxItem, NEW v \in Said,
         NEW r, r = Sta!Recent(Append(s, v))
  PROVE  r \in Seq(Said) /\ r # <<>> /\ Len(r) <= Sta!maxItem /\ r[Len(r)] = v
  <1> DEFINE n == Len(s)
  <1>1. n \in Nat /\ (n < 5 \/ n = 5)
    <2>1. n \in Nat
      OBVIOUS
    <2>2. n <= 5
      BY DEF Sta!maxItem
    <2> HIDE DEF n
    <2> QED
      BY <2>1, <2>2
  <1>2. /\ Append(s, v) \in Seq(Said) /\ Len(Append(s, v)) = n + 1
        /\ Append(s, v)[n + 1] = v
    OBVIOUS
  <1>3. r = IF n + 1 > 5 THEN Tail(Append(s, v)) ELSE Append(s, v)
    BY <1>2 DEF Sta!Recent, Sta!maxItem
  <1> HIDE DEF n
  <1>4. CASE n = 5
    BY <1>2, <1>3, <1>4 DEF Sta!maxItem
  <1>5. CASE n < 5
    BY <1>1, <1>2, <1>3, <1>5 DEF Sta!maxItem
  <1> QED
    BY <1>1, <1>4, <1>5

\* After a report of an item the latest in its history is no different from the report.
LEMMA ItemReported ==
  ASSUME StatusInv, NEW i \in Sta!Items, NEW v \in Said, NEW r, r = Sta!setIteminReport(i, v)
  PROVE  /\ r \in Seq(Said) /\ r # <<>> /\ Len(r) <= Sta!maxItem
         /\ Sta!SameReport(i, r[Len(r)], v)
  <1>1. reportCache[i] \in Seq(Said) /\ Len(reportCache[i]) <= Sta!maxItem
    BY DEF StatusInv
  <1>2. CASE Sta!Changes(i, v)
    <2>1. r = Sta!Recent(Append(reportCache[i], v))
      BY <1>2 DEF Sta!setIteminReport
    <2> QED
      BY <1>1, <2>1, RecentReport DEF Sta!SameReport
  <1>3. CASE ~Sta!Changes(i, v)
    BY <1>1, <1>3 DEF Sta!setIteminReport, Sta!Changes, Sta!Latest
  <1> QED
    BY <1>2, <1>3

\* What every event keeps: the histories it reports to end with what it said.
LEMMA EventStep ==
  ASSUME StatusInv, NEW items, NEW v \in Said, Sta!Event(items, v)
  PROVE  /\ reportCache' \in [Sta!Items -> Seq(Said)]
         /\ \A i \in Sta!Items : Len(reportCache'[i]) <= Sta!maxItem
         /\ Sta!LatestIsCurrent'
         /\ \A i \in Sta!Items \ items : reportCache'[i] = reportCache[i]
         /\ \A i \in items \cap Sta!Items :
              /\ reportCache'[i] # <<>>
              /\ Sta!SameReport(i, reportCache'[i][Len(reportCache'[i])], v)
  <1>1. /\ reportCache' = [i \in Sta!Items |-> IF i \in items THEN Sta!setIteminReport(i, v)
                                                ELSE reportCache[i]]
        /\ lastReported' = [i \in Sta!Items |-> IF i \in items THEN <<v>> ELSE lastReported[i]]
    BY DEF Sta!Event
  <1>2. ASSUME NEW i \in Sta!Items, i \notin items
        PROVE  /\ reportCache'[i] = reportCache[i] /\ lastReported'[i] = lastReported[i]
               /\ reportCache'[i] \in Seq(Said) /\ Len(reportCache'[i]) <= Sta!maxItem
    BY <1>1, <1>2 DEF StatusInv
  <1>3. ASSUME NEW i \in Sta!Items, i \in items
        PROVE  /\ lastReported'[i] = <<v>> /\ reportCache'[i] # <<>>
               /\ reportCache'[i] \in Seq(Said) /\ Len(reportCache'[i]) <= Sta!maxItem
               /\ Sta!SameReport(i, reportCache'[i][Len(reportCache'[i])], v)
    <2>1. reportCache'[i] = Sta!setIteminReport(i, v) /\ lastReported'[i] = <<v>>
      BY <1>1, <1>3
    <2> QED
      BY <2>1, ItemReported
  <1>4. reportCache' \in [Sta!Items -> Seq(Said)]
    BY <1>1, <1>2, <1>3
  <1>5. Sta!LatestIsCurrent'
    <2> SUFFICES ASSUME NEW i \in Sta!Items \ Sta!ScanItems, lastReported'[i] # <<>>
                 PROVE  /\ reportCache'[i] # <<>> /\ Len(reportCache'[i]) <= Sta!maxItem
                        /\ IF i \in Sta!PartlyCompared
                           THEN lastReported'[i][1][1] = reportCache'[i][Len(reportCache'[i])][1]
                           ELSE lastReported'[i] = <<reportCache'[i][Len(reportCache'[i])]>>
      BY DEF Sta!LatestIsCurrent, Sta!Latest
    <2>1. CASE i \in items
      BY <1>3, <2>1 DEF Sta!SameReport
    <2>2. CASE i \notin items
      BY <1>2, <2>2 DEF StatusInv, Sta!LatestIsCurrent, Sta!Latest
    <2> QED
      BY <2>1, <2>2
  <1> QED
    BY <1>2, <1>3, <1>4, <1>5

\* The network item belongs to none of the engine's reports.
LEMMA NetworkIsApart ==
  /\ "NETWORKINFO" \notin Sta!EngineItems \union Sta!ScanItems \union Sta!PartlyCompared
  /\ \A t \in Talkers : "NETWORKINFO" \notin Sta!Parser[t].items
  /\ "NETWORKINFO" \in DataItems => "NETWORKINFO" \in Sta!Items
  <1>1. "NETWORKINFO" \notin Sta!SentenceItems
    BY DEF Sta!SentenceItems, Sta!ClockItems, Sta!RfItems, Sta!PositionItems, Sta!AidingItems,
           Sta!SvHealthItems, Sta!NavItems
  <1>2. "NETWORKINFO" \notin Sta!EngineItems \union Sta!ScanItems \union Sta!PartlyCompared
    BY <1>1 DEF Sta!EngineItems, Sta!ScanItems, Sta!PartlyCompared
  <1>3. ASSUME NEW t \in DOMAIN Sta!Parser
        PROVE  Sta!Parser[t].items \subseteq Sta!SentenceItems
    BY DEF Sta!Parser, Sta!PQWM1, Sta!PQWP1, Sta!PQWP2, Sta!PQWP3, Sta!PQWP4, Sta!PQWP5,
           Sta!PQWP6, Sta!PQWP7, Sta!PQWS1, Sta!SentenceItems, Sta!ClockItems, Sta!RfItems,
           Sta!PositionItems, Sta!AidingItems, Sta!SvHealthItems, Sta!NavItems
  <1>4. \A t \in Talkers : "NETWORKINFO" \notin Sta!Parser[t].items
    BY <1>1, <1>3, ReportsAssumption
  <1>5. DataItems \subseteq Sta!Items
    BY DEF Sta!Items
  <1> QED
    BY <1>2, <1>4, <1>5

\* An event of other items leaves the networks as they are.
LEMMA OtherItems ==
  ASSUME StatusInv, UNCHANGED <<connected, connectedFirst>>,
         "NETWORKINFO" \in DataItems => reportCache'["NETWORKINFO"] = reportCache["NETWORKINFO"]
  PROVE  NetworksInv'
  <1>1. CASE "NETWORKINFO" \in DataItems
    BY <1>1 DEF StatusInv, NetworksInv, Sta!NetworksAreUp, Sta!Latest
  <1>2. CASE "NETWORKINFO" \notin DataItems
    BY <1>2 DEF StatusInv, NetworksInv
  <1> QED
    BY <1>1, <1>2

\* An event of items that have nothing to do with networks keeps the invariant.
LEMMA OtherEvent ==
  ASSUME StatusInv, NEW items, "NETWORKINFO" \notin items, NEW v \in Said, Sta!Event(items, v),
         UNCHANGED <<connected, connectedFirst>>
  PROVE  StatusInv'
  <1>1. "NETWORKINFO" \in DataItems => reportCache'["NETWORKINFO"] = reportCache["NETWORKINFO"]
    BY EventStep, NetworkIsApart
  <1>2. NetworksInv'
    BY <1>1, OtherItems
  <1> QED
    BY <1>2, EventStep DEF StatusInv

\* Deleting aiding data ends the history of every engine item with the default.
LEMMA DefaultStep ==
  ASSUME StatusInv, Sta!setDefaultGnssEngineStates
  PROVE  StatusInv'
  <1>1. /\ reportCache' = [i \in Sta!Items |->
             IF i \in Sta!EngineItems THEN Sta!Recent(Append(reportCache[i], Sta!Default))
             ELSE reportCache[i]]
        /\ lastReported' = [i \in Sta!Items |->
             IF i \in Sta!EngineItems THEN <<Sta!Default>> ELSE lastReported[i]]
        /\ UNCHANGED <<connected, connectedFirst>>
    BY DEF Sta!setDefaultGnssEngineStates
  <1>2. ASSUME NEW i \in Sta!Items, i \notin Sta!EngineItems
        PROVE  /\ reportCache'[i] = reportCache[i] /\ lastReported'[i] = lastReported[i]
               /\ reportCache'[i] \in Seq(Said) /\ Len(reportCache'[i]) <= Sta!maxItem
    BY <1>1, <1>2 DEF StatusInv
  <1>3. ASSUME NEW i \in Sta!Items, i \in Sta!EngineItems
        PROVE  /\ lastReported'[i] = <<Sta!Default>> /\ reportCache'[i] # <<>>
               /\ reportCache'[i] \in Seq(Said) /\ Len(reportCache'[i]) <= Sta!maxItem
               /\ reportCache'[i][Len(reportCache'[i])] = Sta!Default
    <2>1. /\ reportCache'[i] = Sta!Recent(Append(reportCache[i], Sta!Default))
          /\ lastReported'[i] = <<Sta!Default>>
      BY <1>1, <1>3
    <2>2. /\ reportCache[i] \in Seq(Said) /\ Len(reportCache[i]) <= Sta!maxItem
          /\ Sta!Default \in Said
      BY DEF StatusInv, Said
    <2>3. PICK r : r = reportCache'[i]
      OBVIOUS
    <2>4. PICK s \in Seq(Said) : s = reportCache[i] /\ Len(s) <= Sta!maxItem
      BY <2>2
    <2>5. r = Sta!Recent(Append(s, Sta!Default))
      BY <2>1, <2>3, <2>4
    <2>6. r \in Seq(Said) /\ r # <<>> /\ Len(r) <= Sta!maxItem /\ r[Len(r)] = Sta!Default
      BY <2>2, <2>4, <2>5, RecentReport
    <2> QED
      BY <2>1, <2>3, <2>6
  <1>4. reportCache' \in [Sta!Items -> Seq(Said)]
    BY <1>1, <1>2, <1>3
  <1>5. Sta!LatestIsCurrent'
    <2> SUFFICES ASSUME NEW i \in Sta!Items \ Sta!ScanItems, lastReported'[i] # <<>>
                 PROVE  /\ reportCache'[i] # <<>> /\ Len(reportCache'[i]) <= Sta!maxItem
                        /\ IF i \in Sta!PartlyCompared
                           THEN lastReported'[i][1][1] = reportCache'[i][Len(reportCache'[i])][1]
                           ELSE lastReported'[i] = <<reportCache'[i][Len(reportCache'[i])]>>
      BY DEF Sta!LatestIsCurrent, Sta!Latest
    <2>1. CASE i \in Sta!EngineItems
      BY <1>3, <2>1
    <2>2. CASE i \notin Sta!EngineItems
      BY <1>2, <2>2 DEF StatusInv, Sta!LatestIsCurrent, Sta!Latest
    <2> QED
      BY <2>1, <2>2
  <1>6. NetworksInv'
    BY <1>1, <1>2, OtherItems, NetworkIsApart
  <1> QED
    BY <1>2, <1>3, <1>4, <1>5, <1>6 DEF StatusInv

\* A report of a network leaves the latest report with the networks that are up.
LEMMA NetworkStep ==
  ASSUME StatusInv, "NETWORKINFO" \in DataItems, NEW types \in SUBSET NetworkTypes,
         NEW isUp \in BOOLEAN, Sta!notifyNetwork(types, isUp)
  PROVE  StatusInv'
  <1> DEFINE item == "NETWORKINFO"
             history == reportCache[item]
             v == Sta!NetworkReport(types, isUp)
  <1>1. /\ Sta!Event({item}, v)
        /\ connected' = IF isUp THEN connected \union types
                        ELSE IF types # {} THEN connected \ types ELSE {}
        /\ connectedFirst' = IF history = <<>> THEN isUp ELSE connectedFirst
    BY DEF Sta!notifyNetwork
  <1>2. /\ history \in Seq(SUBSET NetworkTypes)
        /\ history = <<>> => connected = {} /\ ~connectedFirst
        /\ history # <<>> => Sta!Latest(item) \in SUBSET NetworkTypes
        /\ connectedFirst => Sta!Latest(item) = connected
    BY DEF StatusInv, NetworksInv, Sta!NetworksAreUp, Sta!Latest
  <1>3. /\ v = IF history = <<>> THEN types ELSE Sta!CollateNetwork(types, isUp, Sta!Latest(item))
        /\ v \in SUBSET NetworkTypes
    BY <1>2 DEF Sta!NetworkReport, Sta!CollateNetwork
  <1>4. v \in Said
    BY <1>3 DEF Said
  <1>5. /\ reportCache' \in [Sta!Items -> Seq(Said)]
        /\ \A i \in Sta!Items : Len(reportCache'[i]) <= Sta!maxItem
        /\ Sta!LatestIsCurrent'
        /\ reportCache'[item] # <<>>
        /\ Sta!SameReport(item, reportCache'[item][Len(reportCache'[item])], v)
        /\ reportCache'[item] = Sta!setIteminReport(item, v)
    BY <1>1, <1>4, EventStep, NetworkIsApart DEF Sta!Event
  <1>6. Sta!Latest(item)' = v
    BY <1>5, NetworkIsApart DEF Sta!SameReport, Sta!Latest
  <1>7. reportCache'[item] \in Seq(SUBSET NetworkTypes)
    BY <1>2, <1>3, <1>5 DEF Sta!setIteminReport, Sta!Recent
  <1>8. connectedFirst' => v = connected'
    <2>1. CASE history = <<>>
      BY <1>1, <1>2, <1>3, <2>1
    <2>2. CASE history # <<>>
      BY <1>1, <1>2, <1>3, <2>2 DEF Sta!CollateNetwork
    <2> QED
      BY <2>1, <2>2
  <1>9. NetworksInv'
    BY <1>5, <1>6, <1>7, <1>8 DEF NetworksInv, Sta!NetworksAreUp
  <1> QED
    BY <1>5, <1>9 DEF StatusInv

\* Every event of the engine and of the framework keeps the invariant.
LEMMA StatusStep ==
  ASSUME StatusInv, [Sta!StatusNext]_statusVars
  PROVE  StatusInv'
  <1>1. ASSUME NEW t \in Talkers, NEW complete \in BOOLEAN, NEW v \in StatusValues,
               Sta!setNmeaString(t, complete, v)
        PROVE  StatusInv'
    <2> DEFINE items == Sta!Parser[t].items
               w == Sta!Parsed(t, complete, v)
    <2>1. Sta!Event(items, w) /\ UNCHANGED <<connected, connectedFirst>>
      BY <1>1 DEF Sta!setNmeaString
    <2>2. w \in Said
      BY DEF Sta!Parsed, Said
    <2>3. "NETWORKINFO" \notin items
      BY NetworkIsApart
    <2> HIDE DEF items, w
    <2> QED
      BY <2>1, <2>2, <2>3, OtherEvent
  <1>2. ASSUME NEW v \in StatusValues, Sta!eventPosition(v)
        PROVE  StatusInv'
    <2>1. v \in Said /\ "NETWORKINFO" \notin {"Location"}
      BY DEF Said
    <2> QED
      BY <1>2, <2>1, OtherEvent DEF Sta!eventPosition
  <1>3. CASE Sta!setDefaultGnssEngineStates
    BY <1>3, DefaultStep
  <1>4. CASE Sta!eventDataItemNotify
    <2>1. ASSUME "NETWORKINFO" \in DataItems, NEW types \in Sta!TypeSets, NEW isUp \in BOOLEAN,
                 Sta!notifyNetwork(types, isUp)
          PROVE  StatusInv'
      <3>1. types \in SUBSET NetworkTypes
        BY DEF Sta!TypeSets
      <3> QED
        BY <2>1, <3>1, NetworkStep
    <2>2. ASSUME NEW i \in DataItems, NEW v \in StatusValues, Sta!notifyItem(i, v)
          PROVE  StatusInv'
      <3>1. v \in Said
        BY DEF Said
      <3> QED
        BY <2>2, <3>1, OtherEvent DEF Sta!notifyItem
    <2> QED
      BY <1>4, <2>1, <2>2 DEF Sta!eventDataItemNotify
  <1>5. CASE UNCHANGED statusVars
    BY <1>5 DEF statusVars, StatusInv, NetworksInv, Sta!LatestIsCurrent, Sta!NetworksAreUp, Sta!Latest
  <1> QED
    BY <1>1, <1>2, <1>3, <1>4, <1>5 DEF Sta!StatusNext

\* StatusIsCurrent: whatever was dropped from a history, left out as unchanged or deleted, the
\* latest report of an item is what was last said of it in the fields that are compared, and
\* the networks in it are those that are up if the first report was of a connection
\* (SystemStatus::setIteminReport, SystemStatusNetworkInfo::collate).
THEOREM StatusCurrent == MCSpec => []StatusIsCurrent
  <1>1. MCInit => StatusInv
    <2> SUFFICES ASSUME Sta!StatusInit
                 PROVE  StatusInv
      BY DEF MCInit
    <2>1. /\ reportCache = [i \in Sta!Items |-> <<>>] /\ lastReported = [i \in Sta!Items |-> <<>>]
          /\ connected = {} /\ connectedFirst = FALSE
      BY DEF Sta!StatusInit
    <2>2. reportCache \in [Sta!Items -> Seq(Said)]
      BY <2>1
    <2>3. \A i \in Sta!Items : Len(reportCache[i]) <= Sta!maxItem
      BY <2>1 DEF Sta!maxItem
    <2>4. Sta!LatestIsCurrent
      BY <2>1 DEF Sta!LatestIsCurrent
    <2>5. NetworksInv
      BY <2>1, NetworkIsApart DEF NetworksInv, Sta!NetworksAreUp
    <2> QED
      BY <2>2, <2>3, <2>4, <2>5 DEF StatusInv
  <1>2. StatusInv /\ [MCNext]_mcvars => StatusInv'
    BY PartSteps, StatusStep
  <1>3. StatusInv => StatusIsCurrent
    <2> SUFFICES ASSUME StatusInv
                 PROVE  Sta!NetworksAreUp
      BY DEF StatusInv, StatusIsCurrent
    <2> QED
      BY DEF StatusInv, NetworksInv, Sta!NetworksAreUp
  <1> QED
    BY <1>1, <1>2, <1>3, PTL DEF MCSpec
-----------------------------------------------------------------------------
(* The observer of data items.  That a client has been told the latest value  *)
(* needs that it was told nothing of an item the cache does not have; that    *)
(* the framework reports on an item is inductive for the items that have a    *)
(* client, whether the client used updateSubscription or not.                 *)

ObserverTypes ==
  /\ mDataItemToClients \in [ObservedItems -> SUBSET Observers]
  /\ mClientToDataItems \in [Observers -> SUBSET ObservedItems]
  /\ wants \in [Observers -> SUBSET ObservedItems]
  /\ mDataItemCache = [i \in ObservedItems |-> mDataItemCache[i]]
  /\ seen = [c \in Observers |-> seen[c]]
  /\ \A c \in Observers : seen[c] = [i \in ObservedItems |-> seen[c][i]]

\* What is not cached was told to nobody.
NothingToTell ==
  \A i \in ObservedItems : mDataItemCache[i] = <<>> => \A c \in Observers : seen[c][i] = <<>>

\* The framework reports on the items that have a client.
ItemsAreReported ==
  mSubscriptionObj =>
    \A i \in ObservedItems \ oneShot : mDataItemToClients[i] # {} => i \in framework

ObserverInv == ObserverTypes /\ NothingToTell /\ Obs!ClientsAreCurrent /\ ItemsAreReported

\* After the cached items were told, the client knows the cache for these items.
LEMMA CacheTold ==
  ASSUME ObserverInv, NEW c \in Observers, NEW items \in SUBSET ObservedItems,
         NEW s, s = Obs!Told(c, items)
  PROVE  /\ s = [d \in Observers |-> s[d]]
         /\ \A d \in Observers : s[d] = [i \in ObservedItems |-> s[d][i]]
         /\ \A d \in Observers \ {c} : s[d] = seen[d]
         /\ \A i \in ObservedItems : s[c][i] = IF i \in items THEN mDataItemCache[i] ELSE seen[c][i]
  <1> DEFINE new == [i \in ObservedItems |-> IF i \in items /\ mDataItemCache[i] # <<>>
                                            THEN mDataItemCache[i] ELSE seen[c][i]]
  <1>1. s = [d \in Observers |-> IF d = c THEN new ELSE seen[d]]
    BY DEF Obs!Told, ObserverInv, ObserverTypes
  <1>2. \A i \in ObservedItems : new[i] = IF i \in items THEN mDataItemCache[i] ELSE seen[c][i]
    BY DEF ObserverInv, NothingToTell
  <1>3. new = [i \in ObservedItems |-> new[i]]
    OBVIOUS
  <1> HIDE DEF new
  <1>4. \A d \in Observers : s[d] = IF d = c THEN new ELSE seen[d]
    BY <1>1
  <1> QED
    BY <1>1, <1>2, <1>3, <1>4 DEF ObserverInv, ObserverTypes

\* A client that subscribes is told what is cached.
LEMMA ObserverSubscribe ==
  ASSUME ObserverInv, NEW c \in Observers, NEW items \in SUBSET ObservedItems,
         NEW once \in BOOLEAN, Obs!subscribe(c, items, once)
  PROVE  ObserverInv'
  <1>1. /\ mDataItemToClients' = Obs!Added(mDataItemToClients, items, {c})
        /\ mClientToDataItems' = Obs!Added(mClientToDataItems, {c}, items)
        /\ seen' = Obs!Told(c, items)
        /\ framework' = IF mSubscriptionObj /\ ~once
                        THEN framework \union Obs!NewKeys(mDataItemToClients, items) ELSE framework
        /\ wants' = [wants EXCEPT ![c] = @ \union items]
        /\ oneShot' = IF once THEN oneShot \union items ELSE oneShot
        /\ UNCHANGED <<mDataItemCache, mSubscriptionObj, updated>>
    BY DEF Obs!subscribe
  <1>2. /\ mDataItemToClients' \in [ObservedItems -> SUBSET Observers]
        /\ \A i \in ObservedItems : mDataItemToClients'[i] =
             IF i \in items THEN mDataItemToClients[i] \union {c} ELSE mDataItemToClients[i]
    BY <1>1 DEF ObserverInv, ObserverTypes, Obs!Added
  <1>3. /\ mClientToDataItems' \in [Observers -> SUBSET ObservedItems]
        /\ \A d \in Observers : mClientToDataItems'[d] =
             IF d = c THEN mClientToDataItems[d] \union items ELSE mClientToDataItems[d]
    BY <1>1 DEF ObserverInv, ObserverTypes, Obs!Added
  <1>4. PICK s : s = seen'
    OBVIOUS
  <1>5. /\ s = [d \in Observers |-> s[d]]
        /\ \A d \in Observers : s[d] = [i \in ObservedItems |-> s[d][i]]
        /\ \A d \in Observers \ {c} : s[d] = seen[d]
        /\ \A i \in ObservedItems : s[c][i] = IF i \in items THEN mDataItemCache[i] ELSE seen[c][i]
    BY <1>1, <1>4, CacheTold
  <1>6. ObserverTypes'
    <2>1. wants' \in [Observers -> SUBSET ObservedItems]
      BY <1>1 DEF ObserverInv, ObserverTypes
    <2>2. mDataItemCache' = [i \in ObservedItems |-> mDataItemCache'[i]]
      BY <1>1 DEF ObserverInv, ObserverTypes
    <2> QED
      BY <1>2, <1>3, <1>4, <1>5, <2>1, <2>2 DEF ObserverTypes
  <1>7. NothingToTell'
    BY <1>1, <1>4, <1>5 DEF ObserverInv, NothingToTell
  <1>8. Obs!ClientsAreCurrent'
    <2> SUFFICES ASSUME NEW d \in Observers \ updated', NEW i \in wants'[d]
                 PROVE  seen'[d][i] = mDataItemCache'[i] /\ d \in mDataItemToClients'[i] /\ i \in mClientToDataItems'[d]
      BY DEF Obs!ClientsAreCurrent
    <2>1. d \notin updated /\ i \in ObservedItems /\ (i \in wants[d] \/ (d = c /\ i \in items))
      <3>1. \A e \in Observers : wants'[e] = IF e = c THEN wants[e] \union items ELSE wants[e]
        BY <1>1 DEF ObserverInv, ObserverTypes
      <3>2. \A e \in Observers : wants[e] \subseteq ObservedItems
        BY DEF ObserverInv, ObserverTypes
      <3>3. updated' = updated
        BY <1>1
      <3> QED
        BY <3>1, <3>2, <3>3
    <2>2. i \in wants[d] => seen[d][i] = mDataItemCache[i] /\ d \in mDataItemToClients[i] /\ i \in mClientToDataItems[d]
      BY <2>1 DEF ObserverInv, Obs!ClientsAreCurrent
    <2>3. mDataItemCache'[i] = mDataItemCache[i] /\ seen'[d][i] = s[d][i]
      BY <1>1, <1>4
    <2> QED
      BY <1>2, <1>3, <1>5, <2>1, <2>2, <2>3
  <1>9. ItemsAreReported'
    BY <1>1, <1>2 DEF ObserverInv, ItemsAreReported, Obs!NewKeys
  <1> QED
    BY <1>6, <1>7, <1>8, <1>9 DEF ObserverInv

\* A client that calls updateSubscription drops out of ClientsAreCurrent; the others keep
\* their entries.
LEMMA ObserverUpdate ==
  ASSUME ObserverInv, NEW c \in Observers, NEW items \in SUBSET ObservedItems,
         Obs!updateSubscription(c, items)
  PROVE  ObserverInv'
  <1>1. PICK kept \in Obs!Intersections(mClientToDataItems[c], items) :
          /\ mClientToDataItems' = [mClientToDataItems EXCEPT ![c] = items]
          /\ mDataItemToClients' =
               Obs!Added(Obs!Trimmed(mDataItemToClients, kept, {c}), items \ kept, {c})
          /\ seen' = Obs!Told(c, items \ kept)
          /\ \E gone \in SUBSET Obs!GoneKeys(mDataItemToClients, kept, {c}) :
               framework' = IF mSubscriptionObj
                            THEN (framework \union
                                  Obs!NewKeys(Obs!Trimmed(mDataItemToClients, kept, {c}), items \ kept)) \ gone
                            ELSE framework
          /\ wants' = [wants EXCEPT ![c] = items] /\ updated' = updated \union {c}
          /\ UNCHANGED <<mDataItemCache, mSubscriptionObj, oneShot>>
    BY DEF Obs!updateSubscription
  <1>2. PICK trimmed : trimmed = Obs!Trimmed(mDataItemToClients, kept, {c})
    OBVIOUS
  <1>3. /\ trimmed \in [ObservedItems -> SUBSET Observers]
        /\ \A i \in ObservedItems : trimmed[i] =
             IF i \in kept THEN mDataItemToClients[i] \ {c} ELSE mDataItemToClients[i]
    BY <1>2 DEF ObserverInv, ObserverTypes, Obs!Trimmed
  <1>4. /\ mDataItemToClients' \in [ObservedItems -> SUBSET Observers]
        /\ \A i \in ObservedItems : mDataItemToClients'[i] =
             IF i \in items \ kept THEN trimmed[i] \union {c} ELSE trimmed[i]
    BY <1>1, <1>2, <1>3 DEF Obs!Added
  <1>5. PICK s : s = seen'
    OBVIOUS
  <1>6. /\ s = [d \in Observers |-> s[d]]
        /\ \A d \in Observers : s[d] = [i \in ObservedItems |-> s[d][i]]
        /\ \A d \in Observers \ {c} : s[d] = seen[d]
        /\ \A i \in ObservedItems : s[c][i] = IF i \in items \ kept THEN mDataItemCache[i] ELSE seen[c][i]
    <2>1. PICK fresh \in SUBSET ObservedItems : fresh = items \ kept
      OBVIOUS
    <2>2. s = Obs!Told(c, fresh)
      BY <1>1, <1>5, <2>1
    <2>3. /\ s = [d \in Observers |-> s[d]]
          /\ \A d \in Observers : s[d] = [i \in ObservedItems |-> s[d][i]]
          /\ \A d \in Observers \ {c} : s[d] = seen[d]
          /\ \A i \in ObservedItems : s[c][i] = IF i \in fresh THEN mDataItemCache[i] ELSE seen[c][i]
      BY <2>2, CacheTold
    <2> QED
      BY <2>1, <2>3
  <1>7. ObserverTypes'
    <2>1. mClientToDataItems' \in [Observers -> SUBSET ObservedItems]
      BY <1>1 DEF ObserverInv, ObserverTypes
    <2>2. wants' \in [Observers -> SUBSET ObservedItems]
      BY <1>1 DEF ObserverInv, ObserverTypes
    <2>3. mDataItemCache' = [i \in ObservedItems |-> mDataItemCache'[i]]
      BY <1>1 DEF ObserverInv, ObserverTypes
    <2>4. /\ seen' = [d \in Observers |-> seen'[d]]
          /\ \A d \in Observers : seen'[d] = [i \in ObservedItems |-> seen'[d][i]]
      BY <1>5, <1>6, Zenon
    <2> QED
      BY <1>4, <2>1, <2>2, <2>3, <2>4 DEF ObserverTypes
  <1>8. NothingToTell'
    <2>1. mDataItemCache' = mDataItemCache /\ seen' = s
      BY <1>1, <1>5
    <2>2. \A i \in ObservedItems : mDataItemCache[i] = <<>> => s[c][i] = <<>>
      BY <1>6 DEF ObserverInv, NothingToTell
    <2>3. \A d \in Observers : d # c => s[d] = seen[d]
      BY <1>6
    <2> QED
      BY <2>1, <2>2, <2>3 DEF ObserverInv, NothingToTell
  <1>9. Obs!ClientsAreCurrent'
    <2>1. \A d \in Observers \ {c} : /\ mClientToDataItems'[d] = mClientToDataItems[d]
                                    /\ wants'[d] = wants[d] /\ seen'[d] = seen[d]
      BY <1>1, <1>5, <1>6 DEF ObserverInv, ObserverTypes
    <2>2. \A d \in Observers \ {c}, i \in ObservedItems : d \in mDataItemToClients'[i] <=> d \in mDataItemToClients[i]
      BY <1>3, <1>4
    <2>3. \A d \in Observers \ updated' : d # c /\ d \notin updated
      BY <1>1
    <2>4. mDataItemCache' = mDataItemCache
      BY <1>1
    <2>5. \A d \in Observers : wants[d] \subseteq ObservedItems
      BY DEF ObserverInv, ObserverTypes
    <2> QED
      BY <2>1, <2>2, <2>3, <2>4, <2>5 DEF ObserverInv, Obs!ClientsAreCurrent
  <1>10. ItemsAreReported'
    <2>1. PICK gone \in SUBSET Obs!GoneKeys(mDataItemToClients, kept, {c}) :
            mSubscriptionObj => framework' = (framework \union Obs!NewKeys(trimmed, items \ kept)) \ gone
      BY <1>1, <1>2
    <2>2. \A i \in ObservedItems : mDataItemToClients'[i] # {} /\ i \in gone => FALSE
      BY <1>3, <1>4 DEF Obs!GoneKeys
    <2> QED
      BY <1>1, <1>3, <1>4, <2>1, <2>2 DEF ObserverInv, ItemsAreReported, Obs!NewKeys
  <1> QED
    BY <1>7, <1>8, <1>9, <1>10 DEF ObserverInv

\* A client leaves some items, which it no longer wants.
LEMMA ObserverLeave ==
  ASSUME ObserverInv, NEW c \in Observers, NEW items \in SUBSET mClientToDataItems[c], NEW left,
         Obs!Leave(c, items), left \intersect items = {},
         wants' = [wants EXCEPT ![c] = left], left \subseteq wants[c],
         UNCHANGED <<mDataItemCache, mSubscriptionObj, seen, updated, oneShot>>
  PROVE  ObserverInv'
  <1>1. PICK gone \in SUBSET Obs!GoneKeys(mDataItemToClients, items, {c}) :
          /\ mClientToDataItems' = Obs!Trimmed(mClientToDataItems, {c}, items)
          /\ mDataItemToClients' = Obs!Trimmed(mDataItemToClients, items, {c})
          /\ framework' = IF mSubscriptionObj THEN framework \ gone ELSE framework
    BY DEF Obs!Leave
  <1>2. /\ mDataItemToClients' \in [ObservedItems -> SUBSET Observers]
        /\ \A i \in ObservedItems : mDataItemToClients'[i] =
             IF i \in items THEN mDataItemToClients[i] \ {c} ELSE mDataItemToClients[i]
    BY <1>1 DEF ObserverInv, ObserverTypes, Obs!Trimmed
  <1>3. /\ mClientToDataItems' \in [Observers -> SUBSET ObservedItems]
        /\ \A d \in Observers : mClientToDataItems'[d] =
             IF d = c THEN mClientToDataItems[d] \ items ELSE mClientToDataItems[d]
    BY <1>1 DEF ObserverInv, ObserverTypes, Obs!Trimmed
  <1>4. ObserverTypes' /\ NothingToTell'
    BY <1>2, <1>3 DEF ObserverInv, ObserverTypes, NothingToTell
  <1>5. Obs!ClientsAreCurrent'
    <2>1. /\ \A d \in Observers : wants'[d] \subseteq wants[d]
          /\ wants'[c] \intersect items = {}
      BY DEF ObserverInv, ObserverTypes
    <2>2. /\ \A d \in Observers : wants[d] \subseteq ObservedItems
          /\ mDataItemCache' = mDataItemCache /\ seen' = seen /\ updated' = updated
      BY DEF ObserverInv, ObserverTypes
    <2> QED
      BY <1>2, <1>3, <2>1, <2>2 DEF ObserverInv, Obs!ClientsAreCurrent
  <1>6. ItemsAreReported'
    <2>1. \A i \in gone : i \in items /\ mDataItemToClients[i] \subseteq {c}
      BY DEF Obs!GoneKeys
    <2> QED
      BY <1>1, <1>2, <2>1 DEF ObserverInv, ItemsAreReported
  <1> QED
    BY <1>4, <1>5, <1>6 DEF ObserverInv

\* A report that changes something reaches the cache and the subscribed clients.
LEMMA ObserverPublish ==
  ASSUME ObserverInv, NEW i \in ObservedItems, NEW v, Obs!Publish(i, v),
         UNCHANGED <<mDataItemToClients, mClientToDataItems, wants, updated, oneShot,
                     mSubscriptionObj, framework>>
  PROVE  ObserverInv'
  <1>1. CASE UNCHANGED <<mDataItemCache, seen>>
    <2>1. ObserverTypes'
      BY <1>1 DEF ObserverInv, ObserverTypes
    <2>2. NothingToTell'
      BY <1>1 DEF ObserverInv, NothingToTell
    <2>3. Obs!ClientsAreCurrent'
      BY <1>1 DEF ObserverInv, Obs!ClientsAreCurrent
    <2>4. ItemsAreReported'
      BY DEF ObserverInv, ItemsAreReported
    <2> QED
      BY <2>1, <2>2, <2>3, <2>4 DEF ObserverInv
  <1>2. CASE /\ mDataItemCache' = [mDataItemCache EXCEPT ![i] = <<v>>]
             /\ seen' = [c \in Observers |->
                           IF c \in mDataItemToClients[i] /\ i \in mClientToDataItems[c]
                           THEN [seen[c] EXCEPT ![i] = <<v>>] ELSE seen[c]]
    <2>1. /\ mDataItemCache' = [j \in ObservedItems |-> mDataItemCache'[j]]
          /\ \A j \in ObservedItems : mDataItemCache'[j] = IF j = i THEN <<v>> ELSE mDataItemCache[j]
      BY <1>2 DEF ObserverInv, ObserverTypes
    <2>2. \A c \in Observers : \A j \in ObservedItems :
            seen'[c][j] = IF j = i /\ c \in mDataItemToClients[i] /\ i \in mClientToDataItems[c]
                          THEN <<v>> ELSE seen[c][j]
      BY <1>2 DEF ObserverInv, ObserverTypes
    <2>3. \A c \in Observers : seen'[c] = [j \in ObservedItems |-> seen'[c][j]]
      BY <1>2 DEF ObserverInv, ObserverTypes
    <2>4. ObserverTypes'
      BY <1>2, <2>1, <2>3 DEF ObserverInv, ObserverTypes
    <2>5. <<v>> # <<>>
      OBVIOUS
    <2>6. NothingToTell'
      BY <2>1, <2>2, <2>5 DEF ObserverInv, NothingToTell
    <2>7. Obs!ClientsAreCurrent'
      <3>1. /\ \A c \in Observers : wants[c] \subseteq ObservedItems
            /\ UNCHANGED <<wants, updated, mDataItemToClients, mClientToDataItems>>
        BY DEF ObserverInv, ObserverTypes
      <3> QED
        BY <2>1, <2>2, <3>1 DEF ObserverInv, Obs!ClientsAreCurrent
    <2> QED
      BY <2>4, <2>6, <2>7 DEF ObserverInv, ItemsAreReported
  <1> QED
    BY <1>1, <1>2 DEF Obs!Publish

\* Every step of the observer keeps the invariant.
LEMMA ObserverStep ==
  ASSUME ObserverInv, [Obs!Next]_observerVars
  PROVE  ObserverInv'
  <1> USE DEF Obs!actionVars, Obs!ghostVars, Obs!mapVars
  <1>1. CASE Obs!setSubscriptionObj
    <2>1. UNCHANGED <<mDataItemToClients, mClientToDataItems, wants, updated, oneShot, mDataItemCache, seen>>
      BY <1>1 DEF Obs!setSubscriptionObj
    <2>2. framework' = {i \in ObservedItems : mDataItemToClients[i] # {}}
      BY <1>1 DEF Obs!setSubscriptionObj
    <2>3. ObserverTypes'
      BY <2>1 DEF ObserverInv, ObserverTypes
    <2>4. NothingToTell'
      BY <2>1 DEF ObserverInv, NothingToTell
    <2>5. Obs!ClientsAreCurrent'
      BY <2>1 DEF ObserverInv, Obs!ClientsAreCurrent
    <2>6. ItemsAreReported'
      BY <2>1, <2>2, SMT DEF ObserverInv, ItemsAreReported
    <2> QED
      BY <2>3, <2>4, <2>5, <2>6 DEF ObserverInv
  <1>2. ASSUME NEW c \in Observers, Obs!unsubscribeAll(c)
        PROVE  ObserverInv'
    <2>1. PICK left : left = {}
      OBVIOUS
    <2>2. /\ Obs!Leave(c, mClientToDataItems[c]) /\ wants' = [wants EXCEPT ![c] = left]
          /\ UNCHANGED <<mDataItemCache, mSubscriptionObj, seen, updated, oneShot>>
      BY <1>2, <2>1 DEF Obs!unsubscribeAll
    <2>3. left \subseteq wants[c] /\ left \intersect mClientToDataItems[c] = {}
      BY <2>1
    <2> QED
      BY <2>2, <2>3, ObserverLeave
  <1>3. ASSUME NEW c \in Observers, NEW items \in SUBSET ObservedItems, Obs!unsubscribe(c, items)
        PROVE  ObserverInv'
    <2> DEFINE left == wants[c] \ items
               own == items \intersect mClientToDataItems[c]
    <2>1. /\ Obs!Leave(c, own) /\ wants' = [wants EXCEPT ![c] = left]
          /\ UNCHANGED <<mDataItemCache, mSubscriptionObj, seen, updated, oneShot>>
      BY <1>3 DEF Obs!unsubscribe
    <2>2. left \subseteq wants[c] /\ left \intersect own = {} /\ own \in SUBSET mClientToDataItems[c]
      OBVIOUS
    <2> HIDE DEF left, own
    <2> QED
      BY <2>1, <2>2, ObserverLeave
  <1>4. CASE Obs!Subscriptions
    BY <1>2, <1>3, <1>4, ObserverSubscribe, ObserverUpdate DEF Obs!Subscriptions
  <1>5. CASE Obs!notify
    <2>1. UNCHANGED <<mDataItemToClients, mClientToDataItems, wants, updated, oneShot,
                      mSubscriptionObj, framework>>
      BY <1>5 DEF Obs!notify
    <2>2. \E i \in ObservedItems : \E v : Obs!Publish(i, v)
      BY <1>5 DEF Obs!notify
    <2> QED
      BY <2>1, <2>2, ObserverPublish
  <1>6. CASE Obs!Actions \/ UNCHANGED observerVars
    <2>1. UNCHANGED <<mDataItemToClients, mClientToDataItems, wants, updated, oneShot,
                      mSubscriptionObj, framework, mDataItemCache, seen>>
      BY <1>6 DEF Obs!Actions, Obs!setFrameworkActionReqObj, Obs!handleAction, Obs!turnOn,
                  Obs!turnOff, observerVars
    <2>3. ObserverTypes'
      BY <2>1 DEF ObserverInv, ObserverTypes
    <2>4. NothingToTell'
      BY <2>1 DEF ObserverInv, NothingToTell
    <2>5. Obs!ClientsAreCurrent'
      BY <2>1 DEF ObserverInv, Obs!ClientsAreCurrent
    <2>6. ItemsAreReported'
      BY <2>1, SMT DEF ObserverInv, ItemsAreReported
    <2> QED
      BY <2>3, <2>4, <2>5, <2>6 DEF ObserverInv
  <1> QED
    BY <1>1, <1>4, <1>5, <1>6 DEF Obs!Next

\* The invariant both theorems about the observer come from
LEMMA ObserverAlways == MCSpec => []ObserverInv
  <1>1. MCInit => ObserverInv
    BY DEF MCInit, Obs!Init, ObserverInv, ObserverTypes, NothingToTell, Obs!ClientsAreCurrent,
           ItemsAreReported
  <1>2. ObserverInv /\ [MCNext]_mcvars => ObserverInv'
    BY PartSteps, ObserverStep
  <1> QED
    BY <1>1, <1>2, PTL DEF MCSpec

\* A client that has only subscribed and unsubscribed has been told the latest value of every
\* item it wants (SystemStatusOsObserver.cpp 92-374 and 513-572).
THEOREM ClientsCurrent == MCSpec => []ClientsAreCurrent
  <1>1. ObserverInv => ClientsAreCurrent
    BY DEF ObserverInv, ClientsAreCurrent
  <1> QED
    BY <1>1, ObserverAlways, PTL

\* The framework reports on what such clients subscribed to, unless somebody asked for it
\* once (SystemStatusOsObserver.cpp 62-292, LocUnorderedSetMap.h 41-185).
THEOREM FrameworkSubscribed == MCSpec => []FrameworkIsSubscribed
  <1>1. ObserverInv => FrameworkIsSubscribed
    BY DEF ObserverInv, ObserverTypes, ItemsAreReported, Obs!ClientsAreCurrent,
           FrameworkIsSubscribed, Obs!FrameworkIsSubscribed
  <1> QED
    BY <1>1, ObserverAlways, PTL
=============================================================================
