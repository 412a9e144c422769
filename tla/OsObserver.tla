----------------------------- MODULE OsObserver -----------------------------
(***************************************************************************)
(* The observer that stands between the framework and the clients of its   *)
(* data items (gps/core/SystemStatusOsObserver.cpp), with the maps of sets *)
(* it keeps (gps/utils/LocUnorderedSetMap.h) and the status cache that     *)
(* decides what is a change (SystemStatus).  Requests and reports are      *)
(* messages of one task, handled one at a time; turnOn and turnOff count   *)
(* in the caller's thread and post a message when the count begins or      *)
(* ends.  A report carries one data item.                                  *)
(*                                                                         *)
(* An absent map entry is the empty set: the maps hold no empty sets.      *)
(***************************************************************************)
EXTENDS SystemStatus

CONSTANTS
  Clients,      \* the IDataItemObserver objects
  MaxRequests   \* bound: requests of clients

VARIABLES
  mClientToDataItems,   \* [Clients -> SUBSET DataItems]
  mDataItemToClients,   \* [DataItems -> SUBSET Clients]
  mDataItemCache,       \* [DataItems -> <<value>> or <<>>]
  mSubscriptionObj,     \* is the framework's subscription object set?
  framework,            \* the data items the framework reports on (external)
  requests,             \* requests so far
  wants,                \* [Clients -> SUBSET DataItems]: what the client has asked for
  seen,                 \* [Clients -> [DataItems -> <<value>> or <<>>]]: last told
  updated,              \* the clients that called updateSubscription
  oneShot,              \* the data items somebody called requestData for
  mFrameworkActionReqObj,
  mActiveRequestCount,  \* [DataItems -> Nat], 0 for an absent entry
  actions               \* the HandleTurnOnMsg and HandleTurnOffMsg in the queue

mapVars == <<mClientToDataItems, mDataItemToClients>>
ghostVars == <<requests, wants, updated, oneShot>>
actionVars == <<mFrameworkActionReqObj, mActiveRequestCount, actions>>
vars == <<statusVars, mapVars, ghostVars, actionVars, mDataItemCache, mSubscriptionObj,
          framework, seen>>

-----------------------------------------------------------------------------
(* LocUnorderedSetMap *)

\* add: the values go to every key; the keys that had no entry are new
Added(map, keys, vals) == [k \in DOMAIN map |-> IF k \in keys THEN map[k] \union vals ELSE map[k]]
NewKeys(map, keys) == {k \in keys : map[k] = {}}

\* Mutant: every key that was trimmed counts as gone.
GoneKeys_Any(map, keys, vals) == {k \in keys : map[k] # {}}

\* trimOrRemove: the keys whose entry is left empty are gone.  The code reads a key it
\* reports out of the entry it has just erased: what is reported is some of them.
Trimmed(map, keys, vals) == [k \in DOMAIN map |-> IF k \in keys THEN map[k] \ vals ELSE map[k]]
GoneKeys(map, keys, vals) == {k \in keys : map[k] # {} /\ map[k] \subseteq vals}

\* removeAndReturnInterset goes on with an iterator it has erased, so that it may end early
Intersections(a, b) ==
  IF a \intersect b = {} THEN {{}} ELSE (SUBSET (a \intersect b)) \ {{}}

-----------------------------------------------------------------------------
\* Mutant: a new subscriber waits for the next change.
Told_Nothing(c, items) == seen

\* sendCachedDataItems: the client is told what is cached of the items
Told(c, items) ==
  [seen EXCEPT ![c] = [i \in DataItems |-> IF i \in items /\ mDataItemCache[i] # <<>>
                                           THEN mDataItemCache[i] ELSE @[i]]]

Request(c, items) == requests < MaxRequests /\ requests' = requests + 1 /\ items # {}

Init ==
  /\ StatusInit
  /\ mClientToDataItems = [c \in Clients |-> {}]
  /\ mDataItemToClients = [i \in DataItems |-> {}]
  /\ mDataItemCache = [i \in DataItems |-> <<>>]
  /\ mSubscriptionObj = FALSE /\ framework = {} /\ requests = 0
  /\ wants = [c \in Clients |-> {}]
  /\ seen = [c \in Clients |-> [i \in DataItems |-> <<>>]]
  /\ updated = {} /\ oneShot = {}
  /\ mFrameworkActionReqObj = FALSE /\ mActiveRequestCount = [i \in DataItems |-> 0]
  /\ actions = <<>>

setSubscriptionObj ==
  /\ ~mSubscriptionObj /\ mSubscriptionObj' = TRUE
  /\ framework' = {i \in DataItems : mDataItemToClients[i] # {}}
  /\ UNCHANGED <<statusVars, mapVars, ghostVars, actionVars, mDataItemCache, seen>>

\* subscribe, and requestData which asks the framework for the items but once
subscribe(c, items, toRequestData) ==
  /\ Request(c, items)
  /\ mDataItemToClients' = Added(mDataItemToClients, items, {c})
  /\ mClientToDataItems' = Added(mClientToDataItems, {c}, items)
  /\ seen' = Told(c, items)
  /\ framework' = IF mSubscriptionObj /\ ~toRequestData
                  THEN framework \union NewKeys(mDataItemToClients, items) ELSE framework
  /\ wants' = [wants EXCEPT ![c] = @ \union items]
  /\ oneShot' = IF toRequestData THEN oneShot \union items ELSE oneShot
  /\ UNCHANGED <<statusVars, actionVars, mDataItemCache, mSubscriptionObj, updated>>

\* update returns the items the client keeps, and takes them off the new ones
updateSubscription(c, items) ==
  /\ Request(c, items)
  /\ \E kept \in Intersections(mClientToDataItems[c], items) :
       LET trimmed == Trimmed(mDataItemToClients, kept, {c})
           fresh == items \ kept
       IN  /\ mClientToDataItems' = [mClientToDataItems EXCEPT ![c] = items]
           /\ mDataItemToClients' = Added(trimmed, fresh, {c})
           /\ seen' = Told(c, fresh)
           /\ \E gone \in SUBSET GoneKeys(mDataItemToClients, kept, {c}) :
                framework' = IF mSubscriptionObj
                             THEN (framework \union NewKeys(trimmed, fresh)) \ gone
                             ELSE framework
  /\ wants' = [wants EXCEPT ![c] = items] /\ updated' = updated \union {c}
  /\ UNCHANGED <<statusVars, actionVars, mDataItemCache, mSubscriptionObj, oneShot>>

\* Takes the client off its entries for the items
Leave(c, items) ==
  /\ mClientToDataItems' = Trimmed(mClientToDataItems, {c}, items)
  /\ mDataItemToClients' = Trimmed(mDataItemToClients, items, {c})
  /\ \E gone \in SUBSET GoneKeys(mDataItemToClients, items, {c}) :
       framework' = IF mSubscriptionObj THEN framework \ gone ELSE framework

unsubscribe(c, items) ==
  /\ Request(c, items) /\ Leave(c, items \intersect mClientToDataItems[c])
  /\ wants' = [wants EXCEPT ![c] = @ \ items]
  /\ UNCHANGED <<statusVars, actionVars, mDataItemCache, mSubscriptionObj, seen, updated, oneShot>>

unsubscribeAll(c) ==
  /\ Request(c, mClientToDataItems[c]) /\ Leave(c, mClientToDataItems[c])
  /\ wants' = [wants EXCEPT ![c] = {}]
  /\ UNCHANGED <<statusVars, actionVars, mDataItemCache, mSubscriptionObj, seen, updated, oneShot>>

\* updateCache and the messages to the subscribed clients; v is the report after collation
Publish(item, v) ==
  LET tell == Changes(item, v) /\ mDataItemCache[item] # <<v>>
  IN  IF tell
      THEN /\ mDataItemCache' = [mDataItemCache EXCEPT ![item] = <<v>>]
           /\ seen' = [c \in Clients |->
                         IF c \in mDataItemToClients[item] /\ item \in mClientToDataItems[c]
                         THEN [seen[c] EXCEPT ![item] = <<v>>] ELSE seen[c]]
      ELSE UNCHANGED <<mDataItemCache, seen>>

notify ==
  /\ \/ /\ "NETWORKINFO" \in DataItems
        /\ \E types \in TypeSets, connected \in BOOLEAN :
             /\ notifyNetwork(types, connected)
             /\ Publish("NETWORKINFO", NetworkReport(types, connected))
     \/ \E i \in DataItems, v \in Values : notifyItem(i, v) /\ Publish(i, v)
  /\ UNCHANGED <<mapVars, ghostVars, actionVars, mSubscriptionObj, framework>>

(* The framework's actions *)

setFrameworkActionReqObj ==
  /\ ~mFrameworkActionReqObj /\ mFrameworkActionReqObj' = TRUE
  /\ UNCHANGED <<statusVars, mapVars, ghostVars, mDataItemCache, mSubscriptionObj, framework,
                 seen, mActiveRequestCount, actions>>

\* turnOn of the observer itself: HandleTurnOnMsg calls it again
TurnOn(i, queue) ==
  /\ mActiveRequestCount' = [mActiveRequestCount EXCEPT ![i] = @ + 1]
  /\ actions' = IF mActiveRequestCount[i] = 0 THEN Append(queue, [turn |-> "on", item |-> i])
                ELSE queue

turnOn(i) ==
  /\ mFrameworkActionReqObj /\ Request(i, {i}) /\ TurnOn(i, actions)
  /\ UNCHANGED <<statusVars, mapVars, wants, updated, oneShot, mDataItemCache, mSubscriptionObj,
                 framework, seen, mFrameworkActionReqObj>>

turnOff(i) ==
  /\ mFrameworkActionReqObj /\ Request(i, {i}) /\ mActiveRequestCount[i] > 0
  /\ mActiveRequestCount' = [mActiveRequestCount EXCEPT ![i] = @ - 1]
  /\ actions' = IF mActiveRequestCount[i] = 1 THEN Append(actions, [turn |-> "off", item |-> i])
                ELSE actions
  /\ UNCHANGED <<statusVars, mapVars, wants, updated, oneShot, mDataItemCache, mSubscriptionObj,
                 framework, seen, mFrameworkActionReqObj>>

\* A turn off is passed on to the framework
handleAction ==
  /\ actions # <<>>
  /\ \/ Head(actions).turn = "on" /\ TurnOn(Head(actions).item, Tail(actions))
     \/ Head(actions).turn = "off" /\ actions' = Tail(actions) /\ UNCHANGED mActiveRequestCount
  /\ UNCHANGED <<statusVars, mapVars, ghostVars, mDataItemCache, mSubscriptionObj, framework,
                 seen, mFrameworkActionReqObj>>

-----------------------------------------------------------------------------
Subscriptions ==
  \E c \in Clients :
    \/ unsubscribeAll(c)
    \/ \E items \in SUBSET DataItems :
         \/ \E once \in BOOLEAN : subscribe(c, items, once)
         \/ updateSubscription(c, items) \/ unsubscribe(c, items)
Actions == setFrameworkActionReqObj \/ handleAction \/ \E i \in DataItems : turnOn(i) \/ turnOff(i)
Next == setSubscriptionObj \/ Subscriptions \/ notify \/ Actions
Spec == Init /\ [][Next]_vars

-----------------------------------------------------------------------------
(* Properties *)

\* A client that has only subscribed and unsubscribed has been told the latest value of
\* every data item it wants, however its subscriptions crossed the reports of the framework
\* and those of other clients (HandleSubscribeReq, HandleNotify, SystemStatus).
ClientsAreCurrent ==
  \A c \in Clients \ updated : \A i \in wants[c] :
    /\ seen[c][i] = mDataItemCache[i]
    /\ c \in mDataItemToClients[i] /\ i \in mClientToDataItems[c]

\* The framework reports on every data item such a client subscribed to, once there is a
\* framework, unless somebody asked for the item once: its entry then stands in the way of
\* the subscription (HandleSubscribeReq, trimOrRemove).
FrameworkIsSubscribed ==
  mSubscriptionObj => \A c \in Clients \ updated : wants[c] \ oneShot \subseteq framework
=============================================================================
