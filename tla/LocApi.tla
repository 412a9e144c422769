------------------------------- MODULE LocApi --------------------------------
(***************************************************************************)
(* The link between the adapters and the engine (gps/core/LocApiBase.cpp,  *)
(* LocAdapterBase.cpp and .h, LocDualContext.cpp).                         *)
(*                                                                         *)
(* The adapters of a context sit in an array of MAX_ADAPTERS entries that  *)
(* is read up to its first NULL.  Each has a mask of the events it wants;  *)
(* the engine is opened with the union of the masks, by messages that wait *)
(* in the queue of the message task.  The engine forgets what it was       *)
(* opened with when it goes down, and is opened again by the message that  *)
(* its coming up sends.                                                    *)
(*                                                                         *)
(* External: the engine's own library, which implements open and close.    *)
(***************************************************************************)
EXTENDS Naturals, Sequences, FiniteSets

CONSTANTS
  Adapters,      \* the adapters that may be created
  Null,          \* NULL
  Events,        \* the events of LOC_API_ADAPTER_EVENT_MASK_T
  ExcludedMask,  \* mExcludedMask: those the context never asks for
  MAX_ADAPTERS,  \* entries of the array
  Handling,      \* the adapters whose request handlers return true
  MaxQueue       \* bound on the messages that wait

\* NULL is no adapter, and the array and the queue have some length.
ASSUME LocApiAssumption == Null \notin Adapters /\ MAX_ADAPTERS \in Nat /\ MaxQueue \in Nat

VARIABLES
  mLocAdapters,  \* the array
  live,          \* adapters that exist
  mEvtMask,      \* the mask of each adapter
  queue,         \* messages of the message task: "LocOpenMsg", "LocSsrMsg"
  engine,        \* [up, mask]: what the engine reports; closed has the mask Closed
  told,          \* the adapters that got the last report or request
  skipped        \* ghost: live adapters that found the array full

vars == <<mLocAdapters, live, mEvtMask, queue, engine, told, skipped>>

Index == 1 .. MAX_ADAPTERS
Closed == {"closed"}

TypeOK ==
  /\ mLocAdapters \in [Index -> Adapters \cup {Null}]
  /\ live \subseteq Adapters /\ skipped \subseteq live
  /\ mEvtMask \in [Adapters -> SUBSET Events]
  /\ queue \in Seq({"LocOpenMsg", "LocSsrMsg"}) /\ Len(queue) <= MaxQueue
  /\ engine.up \in BOOLEAN /\ (engine.mask = Closed \/ engine.mask \subseteq Events)
  /\ told \subseteq Adapters

Init ==
  /\ mLocAdapters = [i \in Index |-> Null]
  /\ live = {} /\ skipped = {}
  /\ mEvtMask = [a \in Adapters |-> {}]
  /\ queue = <<>>
  /\ engine = [up |-> TRUE, mask |-> Closed]
  /\ told = {}

-----------------------------------------------------------------------------
\* TO_ALL_ADAPTERS: the entries before the first NULL.
Reached == {i \in Index : \A j \in 1 .. i : mLocAdapters[j] # Null}
Registered == {mLocAdapters[i] : i \in Reached}

\* TO_1ST_HANDLING_ADAPTER: up to and with the first that handles the call.
ReachedBy1st ==
  {i \in Reached : \A j \in 1 .. (i - 1) : mLocAdapters[j] \notin Handling}

getEvtMask(adapters, masks) == (UNION {masks[a] : a \in adapters}) \ ExcludedMask

sendMsg(msg) == Len(queue) < MaxQueue /\ queue' = Append(queue, msg)

\* open and close of the engine's library: without an engine they do nothing.
Opened(mask) == [engine EXCEPT !.mask = IF engine.up THEN mask ELSE @]

-----------------------------------------------------------------------------
\* LocAdapterBase::LocAdapterBase.  The adapter takes the first free entry; when
\* there is none, nothing is said.
addAdapter(a, mask) ==
  /\ a \notin live
  /\ live' = live \cup {a}
  /\ mEvtMask' = [mEvtMask EXCEPT ![a] = mask]
  /\ LET free == {i \in Index : mLocAdapters[i] = Null} IN
     \/ /\ free = {}
        /\ skipped' = skipped \cup {a}
        /\ UNCHANGED <<mLocAdapters, queue>>
     \/ \E i \in free :
          /\ \A j \in free : i <= j
          /\ mLocAdapters' = [mLocAdapters EXCEPT ![i] = a]
          /\ sendMsg("LocOpenMsg")
          /\ UNCHANGED skipped
  /\ UNCHANGED <<engine, told>>

\* The last adapter moves to the entry of the removed one.
WithoutEntry(i) ==
  LET last == CHOOSE k \in Reached : \A j \in Reached : j <= k IN
  [mLocAdapters EXCEPT ![i] = mLocAdapters[last], ![last] = Null]

\* Mutant: removing an adapter closes the engine only when it was the last one,
\* and never takes its events back.
AfterRemoval_Keep(i) ==
  IF Cardinality(Reached) = 1 THEN engine' = Opened(Closed) /\ UNCHANGED queue
  ELSE UNCHANGED <<engine, queue>>

\* The last adapter to go closes the engine; otherwise its events are taken back.
AfterRemoval(i) ==
  IF Cardinality(Reached) = 1 THEN engine' = Opened(Closed) /\ UNCHANGED queue
  ELSE sendMsg("LocOpenMsg") /\ UNCHANGED engine

\* LocAdapterBase::~LocAdapterBase
removeAdapter(a) ==
  /\ a \in live
  /\ live' = live \ {a}
  /\ skipped' = skipped \ {a}
  /\ \/ /\ a \notin Registered
        /\ UNCHANGED <<mLocAdapters, queue, engine>>
     \/ \E i \in Reached :
          /\ mLocAdapters[i] = a
          /\ mLocAdapters' = WithoutEntry(i)
          /\ AfterRemoval(i)
  /\ UNCHANGED <<mEvtMask, told>>

\* LocAdapterBase::updateEvtMask
Updated(mask, event, status) ==
  CASE status = "ENABLED" -> mask \cup event
    [] status = "DISABLED" -> mask \ event
    [] status = "SET" -> event

updateEvtMask(a, event, status) ==
  /\ a \in live
  /\ mEvtMask' = [mEvtMask EXCEPT ![a] = Updated(@, event, status)]
  /\ engine' = Opened(getEvtMask(Registered, mEvtMask'))
  /\ UNCHANGED <<mLocAdapters, live, queue, told, skipped>>

\* LocOpenMsg::proc, and LocSsrMsg::proc, which closes first.
handleMsg ==
  /\ queue # <<>>
  /\ queue' = Tail(queue)
  /\ engine' = Opened(getEvtMask(Registered, mEvtMask))
  /\ UNCHANGED <<mLocAdapters, live, mEvtMask, told, skipped>>

-----------------------------------------------------------------------------
\* The engine goes down and comes up; every adapter is told of both, and a new
\* handle is negotiated when it is up.
handleEngineDownEvent ==
  /\ engine.up
  /\ engine' = [up |-> FALSE, mask |-> Closed]
  /\ told' = Registered
  /\ UNCHANGED <<mLocAdapters, live, mEvtMask, queue, skipped>>

handleEngineUpEvent ==
  /\ ~engine.up
  /\ engine' = [engine EXCEPT !.up = TRUE]
  /\ sendMsg("LocSsrMsg")
  /\ told' = Registered
  /\ UNCHANGED <<mLocAdapters, live, mEvtMask, skipped>>

\* An event the engine was opened for goes to all adapters, a request to the
\* first that handles it.
report ==
  /\ engine.up /\ engine.mask \notin {Closed, {}}
  /\ told' \in {Registered, {mLocAdapters[i] : i \in ReachedBy1st}}
  /\ UNCHANGED <<mLocAdapters, live, mEvtMask, queue, engine, skipped>>

Next ==
  \/ \E a \in Adapters, mask \in SUBSET Events : addAdapter(a, mask)
  \/ \E a \in Adapters : removeAdapter(a)
  \/ \E a \in Adapters, event \in SUBSET Events, status \in {"ENABLED", "DISABLED", "SET"} :
       updateEvtMask(a, event, status)
  \/ handleMsg
  \/ handleEngineDownEvent
  \/ handleEngineUpEvent
  \/ report

Spec == Init /\ [][Next]_vars

-----------------------------------------------------------------------------
(* Properties                                                              *)

\* Once the queue is empty the engine reports what the adapters want and no more,
\* after any order of creations, removals, changes of a mask and restarts of the
\* engine (LocApiBase.cpp 155-225): nothing, if there is no adapter.
EngineMaskIsWanted ==
  queue = <<>> /\ engine.up =>
    engine.mask \in {getEvtMask(live \ skipped, mEvtMask)} \cup
                    (IF live \ skipped = {} THEN {Closed} ELSE {})

\* The array has no holes: an adapter that found a free entry is reached by every
\* report, once, whatever others were removed (LocApiBase.cpp 174-189).
AdaptersAreReached ==
  /\ Registered = live \ skipped
  /\ Cardinality(Reached) = Cardinality(Registered)

\* The adapters are served by the engine and by its reports, whatever the order of creations,
\* removals, changes of a mask and restarts (LocApiBase.cpp 87-225).
AdaptersAreServed == EngineMaskIsWanted /\ AdaptersAreReached
=============================================================================
