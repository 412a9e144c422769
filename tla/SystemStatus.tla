---------------------------- MODULE SystemStatus ----------------------------
(***************************************************************************)
(* The status cache (gps/core/SystemStatus.cpp): for every kind of item    *)
(* the last maxItem different reports.  Items come from the engine's debug *)
(* sentences, from positions and from the framework's data items; deleting *)
(* aiding data pushes a default for every engine item.  Every entry point  *)
(* holds mMutexSystemStatus for its whole length.                          *)
(*                                                                         *)
(* The fields of a report are a pair: those the comparison of two reports  *)
(* looks at, and the others, which most kinds of item do not have.  A      *)
(* sentence with too few fields leaves the parser's structure as it was    *)
(* allocated, with any value; the parser of PQWM1 alone clears it first.   *)
(* A default is different from every report.                               *)
(***************************************************************************)
EXTENDS Integers, Sequences

CONSTANTS
  Talkers,      \* the debug sentences the engine sends
  DataItems,    \* the data items the framework reports
  Values,       \* what a report says: pairs
  NetworkTypes, \* NetworkInfoDataItemBase::NetworkType
  MaxEvents     \* bound: events

Cleared == <<"cleared", "">>
Default == <<"default", "">>
maxItem == 5

VARIABLES
  cache,        \* mCache: [item -> Seq of reports]
  events,       \* events so far
  last,         \* [item -> <<what its last event said>>, <<>> before the first]
  up,           \* the networks that events have left connected
  upFirst       \* did the first network event report a connection?

statusVars == <<cache, events, last, up, upFirst>>

-----------------------------------------------------------------------------
(* The debug sentences and the items they fill, every field of which is    *)
(* copied and compared                                                     *)

ClockItems == {"TimeAndClock", "XoState"}
RfItems == {"RfAndParams", "ErrRecovery"}
PositionItems == {"InjectedPosition", "BestPosition"}
AidingItems == {"Xtra", "Ephemeris"}
SvHealthItems == {"SvHealth"}
NavItems == {"Pdr", "NavData", "PositionFailure"}
SentenceItems ==
  ClockItems \union RfItems \union PositionItems \union AidingItems \union SvHealthItems \union NavItems

\* clears: a short sentence gives zeroes, not what the memory holds
PQWM1 == [items |-> ClockItems \union RfItems, clears |-> TRUE]
PQWP1 == [items |-> {"InjectedPosition"}, clears |-> FALSE]
PQWP2 == [items |-> {"BestPosition"}, clears |-> FALSE]
PQWP3 == [items |-> {"Xtra"}, clears |-> FALSE]
PQWP4 == [items |-> {"Ephemeris"}, clears |-> FALSE]
PQWP5 == [items |-> {"SvHealth"}, clears |-> FALSE]
PQWP6 == [items |-> {"Pdr"}, clears |-> FALSE]
PQWP7 == [items |-> {"NavData"}, clears |-> FALSE]
PQWS1 == [items |-> {"PositionFailure"}, clears |-> FALSE]
Parser ==
  [PQWM1 |-> PQWM1, PQWP1 |-> PQWP1, PQWP2 |-> PQWP2, PQWP3 |-> PQWP3, PQWP4 |-> PQWP4,
   PQWP5 |-> PQWP5, PQWP6 |-> PQWP6, PQWP7 |-> PQWP7, PQWS1 |-> PQWS1]

\* What the parser of a sentence makes of it: v is what the sentence says or, when it is not
\* complete, what the memory of the structure happens to hold
Parsed(talker, complete, v) == IF Parser[talker].clears /\ ~complete THEN Cleared ELSE v

EngineItems == {"Location"} \union SentenceItems
Items == {"Location"} \union (UNION {Parser[t].items : t \in Talkers}) \union DataItems

\* equals: two device scans are always equal; positions are compared by their coordinates
\* alone, and access points by everything but their address
ScanItems == {"BTLE_SCAN", "BT_SCAN"}
PartlyCompared == {"Location", "WIFI_SUPPLICANT_STATUS"}
SameReport(item, a, b) ==
  \/ item \in ScanItems
  \/ item \in PartlyCompared /\ a[1] = b[1]
  \/ item \notin PartlyCompared /\ a = b

\* Mutant: a connection replaces the networks that are up.
CollateNetwork_Replace(types, connected, cur) ==
  IF connected THEN types ELSE IF types # {} THEN cur \ types ELSE {}

\* SystemStatusNetworkInfo::collate; cur is the set mAllTypes of the last report
CollateNetwork(types, connected, cur) ==
  IF connected THEN types \union cur ELSE IF types # {} THEN cur \ types ELSE {}

Recent(s) == IF Len(s) > maxItem THEN Tail(s) ELSE s

Latest(item) == cache[item][Len(cache[item])]

Changes(item, v) == cache[item] = <<>> \/ ~SameReport(item, Latest(item), v)

setIteminReport(item, v) == IF Changes(item, v) THEN Recent(Append(cache[item], v)) ELSE cache[item]

Event(items, v) ==
  /\ events < MaxEvents /\ events' = events + 1
  /\ cache' = [i \in Items |-> IF i \in items THEN setIteminReport(i, v) ELSE cache[i]]
  /\ last' = [i \in Items |-> IF i \in items THEN <<v>> ELSE last[i]]

-----------------------------------------------------------------------------
StatusInit ==
  /\ cache = [i \in Items |-> <<>>] /\ events = 0
  /\ last = [i \in Items |-> <<>>] /\ up = {} /\ upFirst = FALSE

setNmeaString(talker, complete, v) ==
  Event(Parser[talker].items, Parsed(talker, complete, v)) /\ UNCHANGED <<up, upFirst>>

eventPosition(v) == Event({"Location"}, v) /\ UNCHANGED <<up, upFirst>>

setDefaultGnssEngineStates ==
  /\ events < MaxEvents /\ events' = events + 1
  /\ cache' = [i \in Items |-> IF i \in EngineItems THEN Recent(Append(cache[i], Default))
                               ELSE cache[i]]
  /\ last' = [i \in Items |-> IF i \in EngineItems THEN <<Default>> ELSE last[i]]
  /\ UNCHANGED <<up, upFirst>>

\* The mAllTypes that a report of a network ends up with; it is collated with the last
\* report, if there is one
NetworkReport(types, connected) ==
  IF cache["NETWORKINFO"] = <<>> THEN types
  ELSE CollateNetwork(types, connected, Latest("NETWORKINFO"))

notifyNetwork(types, connected) ==
  /\ Event({"NETWORKINFO"}, NetworkReport(types, connected))
  /\ up' = IF connected THEN up \union types ELSE IF types # {} THEN up \ types ELSE {}
  /\ upFirst' = IF cache["NETWORKINFO"] = <<>> THEN connected ELSE upFirst

notifyItem(item, v) == item # "NETWORKINFO" /\ Event({item}, v) /\ UNCHANGED <<up, upFirst>>

\* A network has one type, or one the data item does not know
TypeSets == {{t} : t \in NetworkTypes} \union {{}}

eventDataItemNotify ==
  \/ /\ "NETWORKINFO" \in DataItems
     /\ \E types \in TypeSets, connected \in BOOLEAN : notifyNetwork(types, connected)
  \/ \E i \in DataItems, v \in Values : notifyItem(i, v)

StatusNext ==
  \/ \E t \in Talkers, complete \in BOOLEAN, v \in Values : setNmeaString(t, complete, v)
  \/ \E v \in Values : eventPosition(v)
  \/ setDefaultGnssEngineStates
  \/ eventDataItemNotify

StatusSpec == StatusInit /\ [][StatusNext]_statusVars

-----------------------------------------------------------------------------
(* Properties *)

\* The latest report of an item is what its last event said, in the fields that are compared,
\* whatever was dropped from the front of the history or left out as unchanged, and although
\* aiding data was deleted in between; device scans alone keep their first report
\* (SystemStatus::setIteminReport, getIteminReport).
LatestIsCurrent ==
  \A i \in Items \ ScanItems : last[i] # <<>> =>
    /\ cache[i] # <<>> /\ Len(cache[i]) <= maxItem
    /\ IF i \in PartlyCompared THEN last[i][1][1] = Latest(i)[1] ELSE last[i] = <<Latest(i)>>

\* The networks in the latest report are the ones that are connected, across connections
\* and losses of several types in any order, if the first report was of a connection
\* (SystemStatusNetworkInfo::collate).
NetworksAreUp == upFirst => Latest("NETWORKINFO") = up
=============================================================================
