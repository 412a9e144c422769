---------------------------- MODULE RuntimeProofs ----------------------------
(***************************************************************************)
(* Theorems about the components that run on threads and timers of their   *)
(* own, as MCRuntime puts them together, for any number of requests,       *)
(* timers and messages.  The proofs are about the steps of the instances   *)
(* Ni, Timer and Task; a step of another part leaves their variables alone *)
(* (PartSteps).                                                            *)
(***************************************************************************)
EXTENDS MCRuntime, FiniteSetTheorems, SequenceTheorems, TLAPS

\* A step of MCRuntime is a step of each of its components, or leaves it as it is.
LEMMA PartSteps ==
  ASSUME [MCNext]_mcvars
  PROVE  /\ [Ni!Next]_niVars
         /\ [Timer!Next]_timerVars
         /\ [Task!Next]_taskVars
  BY DEF MCNext, Part, Rest, mcvars

-----------------------------------------------------------------------------
(* Network-initiated requests.  NiRequestsAreSound is not inductive: that a  *)
(* payload is freed once depends on who holds it.  Of a request, from the    *)
(* moment it takes a slot, exactly one of these holds the payload: the slot  *)
(* its thread waits in, the thread once it has emptied the slot, or one      *)
(* message of the thread in the adapter's queue; nothing, once it is freed.  *)

NiMessage ==
  [kind : {"notify"}, emergency : BOOLEAN]
    \union [kind : {"response"}, id : Ni!Request, response : Agrees]
    \union [kind : {"inform"}, raw : Ni!Request, response : Ni!Response]

NiSession ==
  [rawRequest : Ni!Request \union {0}, reqID : Nat, resp : Ni!Response, respRecvd : BOOLEAN]

NiThreadState ==
  [pc : {"none", "waiting", "unlocked", "sending", "done"}, slot : Ni!Slot, send : Ni!Response,
   raw : Ni!Request \union {0}]

NiType ==
  /\ slot \in [Ni!Slot -> NiSession]
  /\ counter \in Nat
  /\ adapterQ \in Seq(NiMessage)
  /\ answering \in Seq([slot : Ni!Slot, resp : Ni!Response])
  /\ thread \in [Ni!Request -> NiThreadState]
  /\ informed \in [Ni!Request -> Seq(Ni!Response)]
  /\ payloadsFreed \in [Ni!Request -> Nat]

\* The requests that are numbered and those in the queue are within the bound
NiBounded == counter + Cardinality(Ni!Unseen) <= NiRequests

\* A thread that waits has its request in its slot; one that goes on has the payload
NiThread(r) ==
  /\ thread[r].pc # "none" => r <= counter
  /\ thread[r].pc = "waiting" => slot[thread[r].slot].rawRequest = r
  /\ thread[r].pc \in {"unlocked", "sending"} => thread[r].raw = r
  /\ thread[r].pc = "sending" => thread[r].send # "IGNORE"

NiHolds(r) ==
  \/ thread[r].pc \in {"none", "waiting", "sending"}
  \/ thread[r].pc = "unlocked" /\ thread[r].send # "IGNORE"

NiPayload(r) ==
  /\ payloadsFreed[r] <= 1 /\ Len(informed[r]) <= payloadsFreed[r]
  /\ NiHolds(r) => payloadsFreed[r] = 0

\* A message that carries a payload is the only one, and its thread has let go of it
NiInform(i) ==
  adapterQ[i].kind = "inform" =>
    /\ thread[adapterQ[i].raw].pc = "done" /\ payloadsFreed[adapterQ[i].raw] = 0
    /\ \A j \in 1..Len(adapterQ) : adapterQ[j].kind = "inform" /\ adapterQ[j].raw = adapterQ[i].raw
                                     => i = j

NiInv ==
  /\ NiType /\ NiBounded /\ Ni!PendingHasThread
  /\ \A r \in Ni!Request : NiThread(r) /\ NiPayload(r)
  /\ \A i \in 1..Len(adapterQ) : NiInform(i)

Notifies(q) == {i \in DOMAIN q : q[i].kind = "notify"}

\* The cardinality NiSession counts with is that of FiniteSets.
LEMMA SameCardinality == \A S : Ni!Cardinality(S) = Cardinality(S)
  BY DEF Ni!Cardinality, Cardinality, Ni!IsFiniteSet, IsFiniteSet

\* The places of the requests in a queue are finitely many.
LEMMA NotifiesFinite ==
  ASSUME NEW q \in Seq(NiMessage)
  PROVE  IsFiniteSet(Notifies(q)) /\ Cardinality(Notifies(q)) \in Nat
  <1>1. Notifies(q) \in SUBSET (1..Len(q)) /\ Len(q) \in Nat
    BY DEF Notifies
  <1>2. IsFiniteSet(1..Len(q))
    BY <1>1, FS_Interval
  <1>3. IsFiniteSet(Notifies(q))
    BY <1>1, <1>2, FS_Subset
  <1> QED
    BY <1>3, FS_CardinalityType

\* A message at the end of the queue adds a place if it is a request.
LEMMA NotifiesAppended ==
  ASSUME NEW q \in Seq(NiMessage), NEW m \in NiMessage
  PROVE  Cardinality(Notifies(Append(q, m)))
           = Cardinality(Notifies(q)) + (IF m.kind = "notify" THEN 1 ELSE 0)
  <1>1. /\ DOMAIN Append(q, m) = 1..(Len(q) + 1) /\ DOMAIN q = 1..Len(q) /\ Len(q) \in Nat
        /\ \A i \in 1..Len(q) : Append(q, m)[i] = q[i]
        /\ Append(q, m)[Len(q) + 1] = m
    OBVIOUS
  <1>2. IsFiniteSet(Notifies(q)) /\ Cardinality(Notifies(q)) \in Nat
    BY NotifiesFinite
  <1>3. CASE m.kind = "notify"
    <2>1. Notifies(Append(q, m)) = Notifies(q) \union {Len(q) + 1}
      BY <1>1, <1>3 DEF Notifies
    <2>2. Len(q) + 1 \notin Notifies(q)
      BY <1>1 DEF Notifies
    <2> QED
      BY <1>2, <1>3, <2>1, <2>2, FS_AddElement
  <1>4. CASE m.kind # "notify"
    <2>1. Notifies(Append(q, m)) = Notifies(q)
      BY <1>1, <1>4 DEF Notifies
    <2> QED
      BY <1>2, <1>4, <2>1
  <1> QED
    BY <1>3, <1>4

\* The message at the front takes its place with it; the others move up by one.
LEMMA NotifiesTaken ==
  ASSUME NEW q \in Seq(NiMessage), q # <<>>
  PROVE  Cardinality(Notifies(q))
           = Cardinality(Notifies(Tail(q))) + (IF Head(q).kind = "notify" THEN 1 ELSE 0)
  <1>1. /\ Tail(q) \in Seq(NiMessage) /\ Len(Tail(q)) = Len(q) - 1 /\ Len(q) \in Nat /\ Len(q) > 0
        /\ \A i \in 1..Len(Tail(q)) : Tail(q)[i] = q[i + 1]
        /\ Head(q) = q[1] /\ DOMAIN q = 1..Len(q) /\ DOMAIN Tail(q) = 1..(Len(q) - 1)
    BY HeadTailProperties, EmptySeq
  <1> DEFINE rest == Notifies(q) \ {1}
             f == [i \in Notifies(Tail(q)) |-> i + 1]
  <1>2. /\ IsFiniteSet(Notifies(q)) /\ Cardinality(Notifies(q)) \in Nat
        /\ IsFiniteSet(Notifies(Tail(q))) /\ Cardinality(Notifies(Tail(q))) \in Nat
    BY <1>1, NotifiesFinite
  <1>3. \A i \in Notifies(Tail(q)) : i \in 1..(Len(q) - 1) /\ i + 1 \in rest
    BY <1>1 DEF Notifies
  <1>4. \A j \in rest : j - 1 \in Notifies(Tail(q)) /\ f[j - 1] = j
    BY <1>1 DEF Notifies
  <1>5. f \in [Notifies(Tail(q)) -> rest]
    BY <1>3
  <1>6. f \in Bijection(Notifies(Tail(q)), rest)
    <2>1. \A a, b \in Notifies(Tail(q)) : f[a] = f[b] => a = b
      BY <1>3
    <2>2. \A j \in rest : \E i \in Notifies(Tail(q)) : f[i] = j
      BY <1>4
    <2> QED
      BY <1>5, <2>1, <2>2 DEF Bijection, Injection, Surjection, IsInjective
  <1>7. Cardinality(rest) = Cardinality(Notifies(Tail(q)))
    <2>1. ExistsBijection(Notifies(Tail(q)), rest)
      BY <1>6 DEF ExistsBijection
    <2> HIDE DEF rest, f
    <2> QED
      BY <1>2, <2>1, FS_Bijection
  <1>8. 1 \in Notifies(q) <=> Head(q).kind = "notify"
    BY <1>1 DEF Notifies
  <1>9. Cardinality(rest) = IF 1 \in Notifies(q) THEN Cardinality(Notifies(q)) - 1
                            ELSE Cardinality(Notifies(q))
    BY <1>2, FS_RemoveElement
  <1> HIDE DEF rest
  <1> QED
    BY <1>2, <1>7, <1>8, <1>9

\* What the queue says of payloads stays true when a message that has none is added.
LEMMA InformsPosted ==
  ASSUME NiInv, NEW m \in NiMessage, m.kind # "inform", adapterQ' = Append(adapterQ, m),
         UNCHANGED <<thread, payloadsFreed>>
  PROVE  adapterQ' \in Seq(NiMessage) /\ \A i \in 1..Len(adapterQ') : NiInform(i)'
  <1>1. /\ adapterQ \in Seq(NiMessage) /\ adapterQ' \in Seq(NiMessage)
        /\ Len(adapterQ') = Len(adapterQ) + 1 /\ Len(adapterQ) \in Nat
        /\ \A i \in 1..Len(adapterQ) : adapterQ'[i] = adapterQ[i]
        /\ adapterQ'[Len(adapterQ) + 1] = m
    BY DEF NiInv, NiType
  <1>2. \A i \in 1..Len(adapterQ) : NiInform(i)
    BY DEF NiInv
  <1> QED
    BY <1>1, <1>2 DEF NiInform

\* What the queue says of payloads stays true when its first message is taken, if the step
\* leaves the payloads of the others alone.
LEMMA InformsTaken ==
  ASSUME NiInv, adapterQ # <<>>, adapterQ' = Tail(adapterQ),
         \A i \in 2..Len(adapterQ) : adapterQ[i].kind = "inform" =>
            /\ thread'[adapterQ[i].raw].pc = thread[adapterQ[i].raw].pc
            /\ payloadsFreed'[adapterQ[i].raw] = payloadsFreed[adapterQ[i].raw]
  PROVE  /\ adapterQ' \in Seq(NiMessage) /\ \A i \in 1..Len(adapterQ') : NiInform(i)'
         /\ Head(adapterQ) \in NiMessage /\ Head(adapterQ) = adapterQ[1] /\ Len(adapterQ) >= 1
  <1>1. /\ adapterQ \in Seq(NiMessage) /\ adapterQ' \in Seq(NiMessage)
        /\ Len(adapterQ') = Len(adapterQ) - 1 /\ Len(adapterQ) \in Nat /\ Len(adapterQ) >= 1
        /\ \A i \in 1..Len(adapterQ') : adapterQ'[i] = adapterQ[i + 1]
        /\ Head(adapterQ) \in NiMessage /\ Head(adapterQ) = adapterQ[1]
    BY HeadTailProperties, EmptySeq DEF NiInv, NiType
  <1>2. \A i \in 1..Len(adapterQ) : NiInform(i)
    BY DEF NiInv
  <1>3. ASSUME NEW i \in 1..Len(adapterQ')
        PROVE  NiInform(i)'
    <2>1. i + 1 \in 2..Len(adapterQ) /\ i + 1 \in 1..Len(adapterQ) /\ adapterQ'[i] = adapterQ[i + 1]
      BY <1>1
    <2>2. NiInform(i + 1)
      BY <1>2, <2>1
    <2>3. ASSUME adapterQ'[i].kind = "inform"
          PROVE  /\ thread'[adapterQ'[i].raw].pc = "done" /\ payloadsFreed'[adapterQ'[i].raw] = 0
      BY <2>1, <2>2, <2>3 DEF NiInform
    <2>4. ASSUME adapterQ'[i].kind = "inform", NEW j \in 1..Len(adapterQ'),
                 adapterQ'[j].kind = "inform", adapterQ'[j].raw = adapterQ'[i].raw
          PROVE  i = j
      <3>1. j + 1 \in 1..Len(adapterQ) /\ adapterQ'[j] = adapterQ[j + 1]
        BY <1>1
      <3> QED
        BY <2>1, <2>2, <2>4, <3>1 DEF NiInform
    <2> QED
      BY <2>3, <2>4 DEF NiInform
  <1> QED
    BY <1>1, <1>3

\* A request of the modem, or an answer of the user, joins the queue.
LEMMA NiPosts ==
  ASSUME NiInv,
         \/ \E emergency \in BOOLEAN : Ni!requestNiNotifyEvent(emergency)
         \/ \E r \in Ni!Request, response \in Agrees : Ni!gnssNiResponse(r, response)
  PROVE  NiInv'
  <1>1. PICK m \in NiMessage :
             /\ adapterQ' = Append(adapterQ, m) /\ m.kind # "inform"
             /\ m.kind = "notify" => counter + Cardinality(Ni!Unseen) < NiRequests
    <2>1. ASSUME NEW emergency \in BOOLEAN, Ni!requestNiNotifyEvent(emergency)
          PROVE  \E m \in NiMessage :
                   /\ adapterQ' = Append(adapterQ, m) /\ m.kind # "inform"
                   /\ m.kind = "notify" => counter + Cardinality(Ni!Unseen) < NiRequests
      <3> DEFINE m == [kind |-> "notify", emergency |-> emergency]
      <3>1. m \in NiMessage /\ m.kind = "notify"
        BY DEF NiMessage
      <3>2. Ni!Cardinality(Ni!Unseen) = Cardinality(Ni!Unseen)
        BY SameCardinality
      <3>3. adapterQ' = Append(adapterQ, m) /\ counter + Cardinality(Ni!Unseen) < NiRequests
        BY <2>1, <3>2 DEF Ni!requestNiNotifyEvent, Ni!Post
      <3> HIDE DEF m
      <3> QED
        BY <3>1, <3>3
    <2>2. ASSUME NEW r \in Ni!Request, NEW response \in Agrees, Ni!gnssNiResponse(r, response)
          PROVE  \E m \in NiMessage :
                   /\ adapterQ' = Append(adapterQ, m) /\ m.kind # "inform"
                   /\ m.kind = "notify" => counter + Cardinality(Ni!Unseen) < NiRequests
      <3> DEFINE m == [kind |-> "response", id |-> r, response |-> response]
      <3>1. m \in NiMessage /\ m.kind = "response"
        BY DEF NiMessage
      <3>2. adapterQ' = Append(adapterQ, m)
        BY <2>2 DEF Ni!gnssNiResponse, Ni!Post
      <3> HIDE DEF m
      <3> QED
        BY <3>1, <3>2
    <2> QED
      BY <2>1, <2>2
  <1>2. UNCHANGED <<slot, counter, answering, thread, informed, payloadsFreed>>
    BY DEF Ni!requestNiNotifyEvent, Ni!gnssNiResponse
  <1>3. adapterQ' \in Seq(NiMessage) /\ \A i \in 1..Len(adapterQ') : NiInform(i)'
    BY <1>1, <1>2, InformsPosted
  <1>4. NiBounded'
    <2>1. Ni!Unseen = Notifies(adapterQ) /\ Ni!Unseen' = Notifies(Append(adapterQ, m))
      BY <1>1 DEF Ni!Unseen, Notifies
    <2>2. adapterQ \in Seq(NiMessage) /\ counter \in Nat
      BY DEF NiInv, NiType
    <2>3. /\ Cardinality(Notifies(adapterQ)) \in Nat
          /\ Cardinality(Notifies(Append(adapterQ, m)))
               = Cardinality(Notifies(adapterQ)) + (IF m.kind = "notify" THEN 1 ELSE 0)
      BY <2>2, NotifiesFinite, NotifiesAppended
    <2> QED
      BY <1>1, <1>2, <2>1, <2>2, <2>3, RuntimeAssumption DEF NiInv, NiBounded
  <1>5. NiType'
    BY <1>2, <1>3 DEF NiInv, NiType
  <1>6. Ni!PendingHasThread' /\ \A r \in Ni!Request : NiThread(r)' /\ NiPayload(r)'
    BY <1>2 DEF NiInv, NiThread, NiPayload, NiHolds, Ni!PendingHasThread
  <1> QED
    BY <1>3, <1>4, <1>5, <1>6 DEF NiInv

\* The bound on the requests holds after the first message is taken: a request counted in
\* the queue is counted by its number now, or dropped.
LEMMA BoundTaken ==
  ASSUME NiInv, adapterQ # <<>>, adapterQ' = Tail(adapterQ), counter' \in Nat,
         counter' = counter \/ (counter' = counter + 1 /\ Head(adapterQ).kind = "notify")
  PROVE  NiBounded' /\ (Head(adapterQ).kind = "notify" => counter + 1 <= NiRequests)
  <1>1. Ni!Unseen = Notifies(adapterQ) /\ Ni!Unseen' = Notifies(Tail(adapterQ))
    BY DEF Ni!Unseen, Notifies
  <1>2. adapterQ \in Seq(NiMessage) /\ counter \in Nat /\ Tail(adapterQ) \in Seq(NiMessage)
    BY HeadTailProperties DEF NiInv, NiType
  <1>3. /\ Cardinality(Notifies(adapterQ)) \in Nat /\ Cardinality(Notifies(Tail(adapterQ))) \in Nat
        /\ Cardinality(Notifies(adapterQ)) = Cardinality(Notifies(Tail(adapterQ)))
             + (IF Head(adapterQ).kind = "notify" THEN 1 ELSE 0)
    BY <1>2, NotifiesFinite, NotifiesTaken
  <1>4. counter + Cardinality(Notifies(adapterQ)) <= NiRequests
    BY <1>1 DEF NiInv, NiBounded
  <1> QED
    BY <1>1, <1>2, <1>3, <1>4, RuntimeAssumption DEF NiBounded

\* A request takes the slot that is free, its thread starts to wait in it; or it is dropped.
LEMMA NiNotified ==
  ASSUME NiInv, Ni!requestNiNotify
  PROVE  NiInv'
  <1> DEFINE r == counter + 1
             free == Ni!SlotFor(Head(adapterQ).emergency)
             s == CHOOSE t \in free : TRUE
  <1>1. /\ adapterQ # <<>> /\ adapterQ' = Tail(adapterQ) /\ Head(adapterQ).kind = "notify"
        /\ UNCHANGED <<answering, informed, payloadsFreed>>
    BY DEF Ni!requestNiNotify, Ni!Handling
  <1>2. \/ UNCHANGED <<slot, counter, thread>>
        \/ /\ free # {}
           /\ slot' = [slot EXCEPT ![s].rawRequest = r, ![s].reqID = r]
           /\ counter' = r
           /\ thread' = [thread EXCEPT ![r] = [Ni!NoThread EXCEPT !.pc = "waiting", !.slot = s]]
    BY DEF Ni!requestNiNotify
  <1>3. NiType
    BY DEF NiInv
  <1>4. counter \in Nat /\ counter' \in Nat /\ (counter' = counter \/ counter' = counter + 1)
    BY <1>2, <1>3 DEF NiType
  <1>5. NiBounded' /\ counter + 1 <= NiRequests
    BY <1>1, <1>4, BoundTaken
  <1>6. r \in Ni!Request
    BY <1>4, <1>5, RuntimeAssumption DEF Ni!Request
  <1>7. thread[r].pc = "none"
    BY <1>4, <1>6 DEF NiInv, NiThread, NiType
  <1>8. ASSUME NEW i \in 2..Len(adapterQ), adapterQ[i].kind = "inform"
        PROVE  thread'[adapterQ[i].raw].pc = thread[adapterQ[i].raw].pc
    <2>1. adapterQ[i] \in NiMessage /\ NiInform(i)
      BY DEF NiInv, NiType
    <2>2. thread[adapterQ[i].raw].pc = "done" /\ adapterQ[i].raw \in Ni!Request
      BY <1>8, <2>1 DEF NiInform, NiMessage
    <2>3. adapterQ[i].raw # r
      BY <1>7, <2>2
    <2> QED
      BY <1>2, <1>3, <2>2, <2>3 DEF NiType
  <1>9. adapterQ' \in Seq(NiMessage) /\ \A i \in 1..Len(adapterQ') : NiInform(i)'
    BY <1>1, <1>8, InformsTaken
  <1>10. CASE UNCHANGED <<slot, counter, thread>>
    BY <1>1, <1>5, <1>9, <1>10
    DEF NiInv, NiType, NiThread, NiPayload, NiHolds, Ni!PendingHasThread
  <1>11. CASE /\ free # {}
              /\ slot' = [slot EXCEPT ![s].rawRequest = r, ![s].reqID = r]
              /\ counter' = r
              /\ thread' = [thread EXCEPT ![r] = [Ni!NoThread EXCEPT !.pc = "waiting", !.slot = s]]
    <2>1. s \in Ni!Slot /\ slot[s].rawRequest = 0
      BY <1>11 DEF Ni!SlotFor, Ni!Slot
    <2> HIDE DEF s, free
    <2>2. /\ thread'[r] = [pc |-> "waiting", slot |-> s, send |-> "IGNORE", raw |-> 0]
          /\ \A x \in Ni!Request : x # r => thread'[x] = thread[x]
      BY <1>3, <1>6, <1>11 DEF NiType, Ni!NoThread
    <2>3. /\ slot'[s] = [slot[s] EXCEPT !.rawRequest = r, !.reqID = r]
          /\ \A t \in Ni!Slot : t # s => slot'[t] = slot[t]
      BY <1>3, <1>11, <2>1 DEF NiType
    <2>4. slot'[s].rawRequest = r
      BY <1>3, <2>1, <2>3 DEF NiType, NiSession
    <2>5. NiType'
      <3>1. slot' \in [Ni!Slot -> NiSession]
        <4>1. slot[s] \in NiSession /\ r \in Nat
          BY <1>3, <1>4, <2>1 DEF NiType
        <4>2. [slot[s] EXCEPT !.rawRequest = r, !.reqID = r] \in NiSession
          BY <1>6, <4>1 DEF NiSession
        <4> QED
          BY <1>3, <1>11, <2>3, <4>2 DEF NiType
      <3>2. thread' \in [Ni!Request -> NiThreadState]
        <4>1. thread'[r] \in NiThreadState
          BY <2>1, <2>2 DEF NiThreadState, Ni!Response
        <4> QED
          BY <1>3, <1>11, <2>2, <4>1 DEF NiType
      <3> QED
        BY <1>1, <1>3, <1>4, <1>9, <3>1, <3>2 DEF NiType
    <2>6. Ni!PendingHasThread'
      <3>1. ASSUME NEW t \in Ni!Slot, t # s, slot'[t].rawRequest # 0
            PROVE  thread'[slot'[t].rawRequest] = thread[slot[t].rawRequest]
        <4>1. thread[slot[t].rawRequest].pc = "waiting" /\ slot[t].rawRequest \in Ni!Request
          BY <1>3, <2>3, <3>1 DEF NiInv, NiType, NiSession, Ni!PendingHasThread
        <4>2. slot[t].rawRequest # r
          BY <1>7, <4>1
        <4> QED
          BY <2>2, <2>3, <3>1, <4>1, <4>2
      <3>2. ASSUME NEW t \in Ni!Slot, slot'[t].rawRequest # 0
            PROVE  thread'[slot'[t].rawRequest].pc = "waiting" /\ thread'[slot'[t].rawRequest].slot = t
        <4>1. CASE t = s
          BY <2>2, <2>4, <4>1
        <4>2. CASE t # s
          BY <2>3, <3>1, <3>2, <4>2 DEF NiInv, Ni!PendingHasThread
        <4> QED
          BY <4>1, <4>2
      <3> QED
        BY <3>2 DEF Ni!PendingHasThread
    <2>7. ASSUME NEW x \in Ni!Request
          PROVE  NiThread(x)' /\ NiPayload(x)'
      <3>1. CASE x = r
        BY <1>1, <1>3, <1>4, <1>6, <1>7, <1>11, <2>2, <2>4, <3>1
        DEF NiInv, NiThread, NiPayload, NiHolds, NiType
      <3>2. CASE x # r
        <4>1. NiThread(x) /\ NiPayload(x) /\ thread'[x] = thread[x] /\ thread[x].slot \in Ni!Slot
          BY <1>3, <2>2, <3>2 DEF NiInv, NiType, NiThreadState
        <4>2. NiPayload(x)'
          BY <1>1, <4>1 DEF NiPayload, NiHolds
        <4>3. thread[x].pc = "waiting" => thread[x].slot # s
          <5>1. x # 0
            BY RuntimeAssumption DEF Ni!Request
          <5> QED
            BY <2>1, <4>1, <5>1 DEF NiThread
        <4>4. NiThread(x)'
          <5>1. thread'[x].pc # "none" => x <= counter'
            BY <1>4, <1>11, <4>1, RuntimeAssumption DEF NiThread, Ni!Request
          <5>2. thread'[x].pc = "waiting" => slot'[thread'[x].slot].rawRequest = x
            BY <2>3, <4>1, <4>3 DEF NiThread
          <5> QED
            BY <4>1, <5>1, <5>2 DEF NiThread
        <4> QED
          BY <4>2, <4>4
      <3> QED
        BY <3>1, <3>2
    <2> QED
      BY <1>5, <1>9, <2>5, <2>6, <2>7 DEF NiInv
  <1> QED
    BY <1>2, <1>10, <1>11

\* The adapter finds the slots a response is for.
LEMMA NiAnswered ==
  ASSUME NiInv, Ni!gnssNiResponseCommand
  PROVE  NiInv'
  <1> DEFINE m == Head(adapterQ)
  <1>1. /\ adapterQ # <<>> /\ adapterQ' = Tail(adapterQ) /\ m.kind = "response"
        /\ UNCHANGED <<slot, counter, thread, informed, payloadsFreed>>
        /\ answering' = IF hasClient THEN Ni!Targets(m.id, m.response) ELSE <<>>
    BY DEF Ni!gnssNiResponseCommand, Ni!Handling
  <1>2. /\ adapterQ' \in Seq(NiMessage) /\ \A i \in 1..Len(adapterQ') : NiInform(i)'
        /\ m \in NiMessage
    BY <1>1, InformsTaken
  <1>3. NiType /\ counter' \in Nat
    BY <1>1 DEF NiInv, NiType
  <1>4. NiBounded'
    BY <1>1, <1>3, BoundTaken
  <1>5. m.response \in Ni!Response
    BY <1>1, <1>2 DEF NiMessage, Ni!Response
  <1>6. answering' \in Seq([slot : Ni!Slot, resp : Ni!Response])
    <2> DEFINE Answer == [slot : Ni!Slot, resp : Ni!Response]
    <2>1. /\ [slot |-> "session", resp |-> "IGNORE"] \in Answer
          /\ [slot |-> "session", resp |-> m.response] \in Answer
          /\ [slot |-> "sessionEs", resp |-> m.response] \in Answer
      BY <1>5 DEF Ni!Slot, Ni!Response
    <2> HIDE DEF Answer, m
    <2>2. \A a, b \in Answer : <<a>> \in Seq(Answer) /\ <<>> \in Seq(Answer) /\ <<a>> \o <<b>> \in Seq(Answer)
                               /\ <<>> \o <<a>> \in Seq(Answer)
      OBVIOUS
    <2>3. answering' \in Seq(Answer)
      BY <1>1, <2>1, <2>2 DEF Ni!Targets
    <2> QED
      BY <2>3 DEF Answer
  <1>7. NiType'
    BY <1>1, <1>2, <1>3, <1>6 DEF NiType
  <1>8. Ni!PendingHasThread' /\ \A r \in Ni!Request : NiThread(r)' /\ NiPayload(r)'
    BY <1>1 DEF NiInv, NiThread, NiPayload, NiHolds, Ni!PendingHasThread
  <1> QED
    BY <1>2, <1>4, <1>7, <1>8 DEF NiInv

\* The adapter stores a response in its slot and wakes whoever waits there.
LEMMA NiStored ==
  ASSUME NiInv, Ni!StoreResponse
  PROVE  NiInv'
  <1> DEFINE a == Head(answering)
  <1>1. /\ answering # <<>> /\ answering' = Tail(answering)
        /\ slot' = [slot EXCEPT ![a.slot].resp = a.resp, ![a.slot].respRecvd = TRUE]
        /\ UNCHANGED <<counter, adapterQ, thread, informed, payloadsFreed>>
    BY DEF Ni!StoreResponse
  <1>2. NiType
    BY DEF NiInv
  <1>3. /\ answering' \in Seq([slot : Ni!Slot, resp : Ni!Response])
        /\ a.slot \in Ni!Slot /\ a.resp \in Ni!Response
    <2>1. /\ answering' \in Seq([slot : Ni!Slot, resp : Ni!Response])
          /\ a \in [slot : Ni!Slot, resp : Ni!Response]
      BY <1>1, <1>2, HeadTailProperties DEF NiType
    <2> HIDE DEF a
    <2> QED
      BY <2>1
  <1> HIDE DEF a
  <1>4. /\ slot'[a.slot] = [slot[a.slot] EXCEPT !.resp = a.resp, !.respRecvd = TRUE]
        /\ \A t \in Ni!Slot : t # a.slot => slot'[t] = slot[t]
    BY <1>1, <1>2, <1>3 DEF NiType
  <1>5. slot' \in [Ni!Slot -> NiSession] /\ \A t \in Ni!Slot : slot'[t].rawRequest = slot[t].rawRequest
    <2>1. slot[a.slot] \in NiSession
      BY <1>2, <1>3 DEF NiType
    <2>2. /\ [slot[a.slot] EXCEPT !.resp = a.resp, !.respRecvd = TRUE] \in NiSession
          /\ [slot[a.slot] EXCEPT !.resp = a.resp, !.respRecvd = TRUE].rawRequest
               = slot[a.slot].rawRequest
      BY <1>3, <2>1 DEF NiSession
    <2>3. slot'[a.slot] \in NiSession /\ slot'[a.slot].rawRequest = slot[a.slot].rawRequest
      BY <1>4, <2>2
    <2> QED
      BY <1>1, <1>2, <1>4, <2>3 DEF NiType
  <1>6. NiType'
    BY <1>1, <1>2, <1>3, <1>5 DEF NiType
  <1>7. NiBounded' /\ \A i \in 1..Len(adapterQ') : NiInform(i)'
    BY <1>1 DEF NiInv, NiBounded, NiInform, Ni!Unseen
  <1>8. Ni!PendingHasThread'
    BY <1>1, <1>5 DEF NiInv, Ni!PendingHasThread
  <1>9. ASSUME NEW r \in Ni!Request
        PROVE  NiThread(r)' /\ NiPayload(r)'
    <2>1. thread[r].slot \in Ni!Slot /\ NiThread(r) /\ NiPayload(r)
      BY <1>2 DEF NiInv, NiType, NiThreadState
    <2> QED
      BY <1>1, <1>5, <2>1 DEF NiThread, NiPayload, NiHolds
  <1> QED
    BY <1>6, <1>7, <1>8, <1>9 DEF NiInv

\* The modem is told the outcome of a request, and the payload is freed with the message.
LEMMA NiInformed ==
  ASSUME NiInv, Ni!informNiResponse
  PROVE  NiInv'
  <1> DEFINE m == Head(adapterQ)
  <1>1. /\ adapterQ # <<>> /\ adapterQ' = Tail(adapterQ) /\ m.kind = "inform"
        /\ UNCHANGED <<slot, counter, answering, thread>>
        /\ informed' = [informed EXCEPT ![m.raw] = Append(@, m.response)]
        /\ payloadsFreed' = [payloadsFreed EXCEPT ![m.raw] = @ + 1]
    BY DEF Ni!informNiResponse, Ni!Handling
  <1>2. NiType /\ counter' \in Nat
    BY <1>1 DEF NiInv, NiType
  <1>3. m \in NiMessage /\ m = adapterQ[1] /\ adapterQ \in Seq(NiMessage) /\ 1 \in 1..Len(adapterQ)
    BY <1>1, <1>2, HeadTailProperties, EmptySeq DEF NiType
  <1>4. m.raw \in Ni!Request /\ m.response \in Ni!Response
    BY <1>1, <1>3 DEF NiMessage
  <1>5. /\ thread[m.raw].pc = "done" /\ payloadsFreed[m.raw] = 0
        /\ \A j \in 1..Len(adapterQ) : adapterQ[j].kind = "inform" /\ adapterQ[j].raw = m.raw => 1 = j
    <2>1. NiInform(1)
      BY <1>3 DEF NiInv
    <2> QED
      BY <1>1, <1>3, <2>1 DEF NiInform
  <1> HIDE DEF m
  <1>6. /\ payloadsFreed' \in [Ni!Request -> Nat]
        /\ \A r \in Ni!Request : payloadsFreed'[r] = IF r = m.raw THEN 1 ELSE payloadsFreed[r]
    BY <1>1, <1>2, <1>4, <1>5 DEF NiType
  <1>7. /\ informed' \in [Ni!Request -> Seq(Ni!Response)]
        /\ Len(informed'[m.raw]) = Len(informed[m.raw]) + 1
        /\ \A r \in Ni!Request : r # m.raw => informed'[r] = informed[r]
    BY <1>1, <1>2, <1>4 DEF NiType
  <1>8. ASSUME NEW i \in 2..Len(adapterQ), adapterQ[i].kind = "inform"
        PROVE  payloadsFreed'[adapterQ[i].raw] = payloadsFreed[adapterQ[i].raw]
    <2>1. adapterQ[i] \in NiMessage /\ adapterQ[i].raw # m.raw
      BY <1>3, <1>5, <1>8
    <2>2. adapterQ[i].raw \in Ni!Request
      BY <1>8, <2>1 DEF NiMessage
    <2> QED
      BY <1>6, <2>1, <2>2
  <1>9. adapterQ' \in Seq(NiMessage) /\ \A i \in 1..Len(adapterQ') : NiInform(i)'
    BY <1>1, <1>8, InformsTaken
  <1>10. NiBounded'
    BY <1>1, <1>2, BoundTaken
  <1>11. NiType'
    BY <1>1, <1>2, <1>6, <1>7, <1>9 DEF NiType
  <1>12. ASSUME NEW r \in Ni!Request
         PROVE  NiThread(r)' /\ NiPayload(r)'
    <2>1. NiThread(r)'
      BY <1>1 DEF NiInv, NiThread
    <2>2. NiPayload(r)
      BY DEF NiInv
    <2>3. CASE r = m.raw
      <3>1. Len(informed[r]) \in Nat /\ Len(informed[r]) <= 0
        BY <1>2, <1>5, <2>2, <2>3 DEF NiType, NiPayload
      <3> QED
        BY <1>1, <1>5, <1>6, <1>7, <2>1, <2>3, <3>1 DEF NiPayload, NiHolds
    <2>4. CASE r # m.raw
      BY <1>1, <1>6, <1>7, <2>1, <2>2, <2>4 DEF NiPayload, NiHolds
    <2> QED
      BY <2>3, <2>4
  <1>13. Ni!PendingHasThread'
    BY <1>1 DEF NiInv, Ni!PendingHasThread
  <1> QED
    BY <1>9, <1>10, <1>11, <1>12, <1>13 DEF NiInv

\* The queue and the bound do not change when a thread takes a step that posts nothing and
\* leaves the payloads the queue carries alone.
LEMMA InformsKept ==
  ASSUME NiInv, UNCHANGED <<counter, adapterQ>>,
         \A x \in Ni!Request : thread[x].pc = "done" =>
           thread'[x].pc = "done" /\ payloadsFreed'[x] = payloadsFreed[x]
  PROVE  NiBounded' /\ \A i \in 1..Len(adapterQ') : NiInform(i)'
  <1>1. NiBounded'
    BY DEF NiInv, NiBounded, Ni!Unseen
  <1>2. ASSUME NEW i \in 1..Len(adapterQ)
        PROVE  NiInform(i)'
    <2>1. NiInform(i) /\ adapterQ[i] \in NiMessage
      BY DEF NiInv, NiType
    <2>2. adapterQ[i].kind = "inform" => adapterQ[i].raw \in Ni!Request
      BY <2>1 DEF NiMessage
    <2> QED
      BY <2>1, <2>2 DEF NiInform
  <1> QED
    BY <1>1, <1>2

\* A thread that is woken or timed out takes the payload out of its slot, and frees it if an
\* emergency request has cancelled its own.
LEMMA NiCollected ==
  ASSUME NiInv, NEW r \in Ni!Request, Ni!niThreadWoken(r) \/ Ni!niThreadTimedOut(r)
  PROVE  NiInv'
  <1> DEFINE s == thread[r].slot
  <1>1. NiType /\ NiThread(r) /\ NiPayload(r)
    BY DEF NiInv
  <1>2. s \in Ni!Slot /\ thread[r].pc = "waiting" /\ slot[s] \in NiSession
    BY <1>1 DEF NiType, NiThreadState, Ni!niThreadWoken, Ni!niThreadTimedOut
  <1>3. slot[s].rawRequest = r /\ r # 0 /\ payloadsFreed[r] = 0
    BY <1>1, <1>2, RuntimeAssumption DEF NiThread, NiPayload, NiHolds, Ni!Request
  <1>4. PICK resp \in Ni!Response : Ni!Collect(r, resp)
    <2>1. slot[s].resp \in Ni!Response /\ "NO_RESPONSE" \in Ni!Response
      BY <1>2 DEF NiSession, Ni!Response
    <2> QED
      BY <2>1 DEF Ni!niThreadWoken, Ni!niThreadTimedOut
  <1>5. /\ slot' = [slot EXCEPT ![s] = Ni!Emptied(@, resp)]
        /\ thread' = [thread EXCEPT ![r].pc = "unlocked", ![r].send = resp, ![r].raw = r]
        /\ payloadsFreed' = IF resp = "IGNORE" THEN [payloadsFreed EXCEPT ![r] = @ + 1]
                            ELSE payloadsFreed
        /\ UNCHANGED <<counter, adapterQ, answering, informed>>
    BY <1>3, <1>4 DEF Ni!Collect
  <1> HIDE DEF s
  <1>6. /\ slot'[s] = Ni!Emptied(slot[s], resp)
        /\ \A t \in Ni!Slot : t # s => slot'[t] = slot[t]
    BY <1>1, <1>2, <1>5 DEF NiType
  <1>7. slot'[s] \in NiSession /\ slot'[s].rawRequest = 0
    BY <1>2, <1>6 DEF Ni!Emptied, NiSession
  <1>8. slot' \in [Ni!Slot -> NiSession]
    BY <1>1, <1>2, <1>5, <1>6, <1>7 DEF NiType
  <1>9. /\ thread'[r] = [thread[r] EXCEPT !.pc = "unlocked", !.send = resp, !.raw = r]
        /\ \A x \in Ni!Request : x # r => thread'[x] = thread[x]
    BY <1>1, <1>5 DEF NiType
  <1>10. /\ thread'[r] \in NiThreadState
         /\ thread'[r].pc = "unlocked" /\ thread'[r].send = resp /\ thread'[r].raw = r
    <2>1. thread[r] \in NiThreadState
      BY <1>1 DEF NiType
    <2> QED
      BY <1>9, <2>1 DEF NiThreadState
  <1>11. thread' \in [Ni!Request -> NiThreadState]
    BY <1>1, <1>5, <1>9, <1>10 DEF NiType
  <1>12. /\ payloadsFreed' \in [Ni!Request -> Nat]
         /\ payloadsFreed'[r] = IF resp = "IGNORE" THEN 1 ELSE 0
         /\ \A x \in Ni!Request : x # r => payloadsFreed'[x] = payloadsFreed[x]
    BY <1>1, <1>3, <1>5 DEF NiType
  <1>13. NiType'
    BY <1>1, <1>5, <1>8, <1>11, <1>12 DEF NiType
  <1>14. NiBounded' /\ \A i \in 1..Len(adapterQ') : NiInform(i)'
    BY <1>2, <1>5, <1>9, <1>12, InformsKept
  <1>15. Ni!PendingHasThread'
    <2>1. ASSUME NEW t \in Ni!Slot, slot'[t].rawRequest # 0
          PROVE  thread'[slot'[t].rawRequest].pc = "waiting" /\ thread'[slot'[t].rawRequest].slot = t
      <3>1. t # s /\ slot'[t] = slot[t]
        BY <1>6, <1>7, <2>1
      <3>2. thread[slot[t].rawRequest].pc = "waiting" /\ thread[slot[t].rawRequest].slot = t
        BY <2>1, <3>1 DEF NiInv, Ni!PendingHasThread
      <3>3. slot[t].rawRequest \in Ni!Request
        BY <1>1, <2>1, <3>1 DEF NiType, NiSession
      <3>4. slot[t].rawRequest # r
        BY <3>1, <3>2 DEF s
      <3> QED
        BY <1>9, <3>1, <3>2, <3>3, <3>4
    <2> QED
      BY <2>1 DEF Ni!PendingHasThread
  <1>16. ASSUME NEW x \in Ni!Request
         PROVE  NiThread(x)' /\ NiPayload(x)'
    <2>1. NiThread(x) /\ NiPayload(x) /\ thread[x].slot \in Ni!Slot
      BY <1>1 DEF NiInv, NiType, NiThreadState
    <2>2. CASE x = r
      <3>1. Len(informed[r]) \in Nat /\ Len(informed[r]) <= 0
        BY <1>1, <1>3 DEF NiType, NiPayload
      <3>2. NiPayload(x)'
        BY <1>5, <1>10, <1>12, <2>2, <3>1 DEF NiPayload, NiHolds
      <3>3. NiThread(x)'
        BY <1>2, <1>5, <1>10, <2>1, <2>2 DEF NiThread
      <3> QED
        BY <3>2, <3>3
    <2>3. CASE x # r
      <3>1. NiPayload(x)'
        BY <1>5, <1>9, <1>12, <2>1, <2>3 DEF NiPayload, NiHolds
      <3>2. thread[x].pc = "waiting" => thread[x].slot # s
        BY <1>3, <2>1, <2>3 DEF NiThread
      <3>3. NiThread(x)'
        BY <1>5, <1>6, <1>9, <2>1, <2>3, <3>2 DEF NiThread
      <3> QED
        BY <3>1, <3>3
    <2> QED
      BY <2>2, <2>3
  <1> QED
    BY <1>13, <1>14, <1>15, <1>16 DEF NiInv

\* A thread clears the id of whatever request its slot has now.
LEMMA NiCleared ==
  ASSUME NiInv, NEW r \in Ni!Request, Ni!niThreadClears(r)
  PROVE  NiInv'
  <1> DEFINE s == thread[r].slot
             to == IF thread[r].send = "IGNORE" THEN "done" ELSE "sending"
  <1>1. /\ thread[r].pc = "unlocked"
        /\ slot' = [slot EXCEPT ![s].reqID = 0]
        /\ thread' = [thread EXCEPT ![r].pc = to]
        /\ UNCHANGED <<counter, adapterQ, answering, informed, payloadsFreed>>
    BY DEF Ni!niThreadClears
  <1>2. NiType /\ s \in Ni!Slot /\ thread[r] \in NiThreadState
    BY DEF NiInv, NiType, NiThreadState
  <1> HIDE DEF s
  <1>3. /\ slot' \in [Ni!Slot -> NiSession]
        /\ \A t \in Ni!Slot : slot'[t].rawRequest = slot[t].rawRequest
    <2>1. slot[s] \in NiSession
      BY <1>2 DEF NiType
    <2>2. /\ [slot[s] EXCEPT !.reqID = 0] \in NiSession
          /\ [slot[s] EXCEPT !.reqID = 0].rawRequest = slot[s].rawRequest
      BY <2>1 DEF NiSession
    <2>3. slot'[s] = [slot[s] EXCEPT !.reqID = 0] /\ \A t \in Ni!Slot : t # s => slot'[t] = slot[t]
      BY <1>1, <1>2 DEF NiType
    <2> QED
      BY <1>1, <1>2, <2>2, <2>3 DEF NiType
  <1>4. /\ thread'[r] = [thread[r] EXCEPT !.pc = to]
        /\ \A x \in Ni!Request : x # r => thread'[x] = thread[x]
    BY <1>1, <1>2 DEF NiType
  <1>5. /\ thread'[r] \in NiThreadState /\ thread'[r].pc = to
        /\ thread'[r].send = thread[r].send /\ thread'[r].raw = thread[r].raw
    BY <1>2, <1>4 DEF NiThreadState
  <1>6. NiType'
    BY <1>1, <1>2, <1>3, <1>4, <1>5 DEF NiType
  <1>7. NiBounded' /\ \A i \in 1..Len(adapterQ') : NiInform(i)'
    BY <1>1, <1>4, InformsKept
  <1>8. Ni!PendingHasThread'
    <2>1. ASSUME NEW t \in Ni!Slot, slot[t].rawRequest # 0
          PROVE  thread'[slot[t].rawRequest] = thread[slot[t].rawRequest]
      <3>1. thread[slot[t].rawRequest].pc = "waiting" /\ slot[t].rawRequest \in Ni!Request
        BY <1>2, <2>1 DEF NiInv, NiType, NiSession, Ni!PendingHasThread
      <3> QED
        BY <1>1, <1>4, <3>1
    <2> QED
      BY <1>3, <2>1 DEF NiInv, Ni!PendingHasThread
  <1>9. ASSUME NEW x \in Ni!Request
        PROVE  NiThread(x)' /\ NiPayload(x)'
    <2>1. NiThread(x) /\ NiPayload(x) /\ thread[x].slot \in Ni!Slot
      BY <1>2 DEF NiInv, NiType, NiThreadState
    <2>2. CASE x = r
      BY <1>1, <1>5, <2>1, <2>2 DEF NiThread, NiPayload, NiHolds
    <2>3. CASE x # r
      BY <1>1, <1>3, <1>4, <2>1, <2>3 DEF NiThread, NiPayload, NiHolds
    <2> QED
      BY <2>2, <2>3
  <1> QED
    BY <1>6, <1>7, <1>8, <1>9 DEF NiInv

\* A thread hands its payload to a message, the only one that carries it.
LEMMA NiSent ==
  ASSUME NiInv, NEW r \in Ni!Request, Ni!niThreadSends(r)
  PROVE  NiInv'
  <1> DEFINE m == [kind |-> "inform", raw |-> r, response |-> thread[r].send]
  <1>1. NiType /\ NiThread(r) /\ NiPayload(r) /\ thread[r] \in NiThreadState
    BY DEF NiInv, NiType
  <1>2. /\ thread[r].pc = "sending" /\ thread[r].raw = r /\ payloadsFreed[r] = 0
        /\ adapterQ' = Append(adapterQ, m)
        /\ thread' = [thread EXCEPT ![r].pc = "done"]
        /\ UNCHANGED <<slot, counter, answering, informed, payloadsFreed>>
    BY <1>1 DEF Ni!niThreadSends, NiThread, NiPayload, NiHolds
  <1>3. m \in NiMessage /\ m.kind = "inform" /\ m.raw = r
    BY <1>1 DEF NiMessage, NiThreadState
  <1> HIDE DEF m
  <1>4. /\ adapterQ \in Seq(NiMessage) /\ adapterQ' \in Seq(NiMessage)
        /\ Len(adapterQ') = Len(adapterQ) + 1 /\ Len(adapterQ) \in Nat
        /\ \A i \in 1..Len(adapterQ) : adapterQ'[i] = adapterQ[i]
        /\ adapterQ'[Len(adapterQ) + 1] = m
    BY <1>1, <1>2, <1>3 DEF NiType
  <1>5. /\ thread'[r] \in NiThreadState /\ thread'[r].pc = "done"
        /\ \A x \in Ni!Request : x # r => thread'[x] = thread[x]
    <2>1. thread'[r] = [thread[r] EXCEPT !.pc = "done"]
      BY <1>1, <1>2 DEF NiType
    <2>2. thread'[r] \in NiThreadState /\ thread'[r].pc = "done"
      BY <1>1, <2>1 DEF NiThreadState
    <2> QED
      BY <1>1, <1>2, <2>2 DEF NiType
  <1>6. NiType'
    BY <1>1, <1>2, <1>4, <1>5 DEF NiType
  <1>7. NiBounded'
    <2>1. Ni!Unseen = Notifies(adapterQ) /\ Ni!Unseen' = Notifies(Append(adapterQ, m))
      BY <1>2 DEF Ni!Unseen, Notifies
    <2>2. /\ Cardinality(Notifies(adapterQ)) \in Nat
          /\ Cardinality(Notifies(Append(adapterQ, m)))
               = Cardinality(Notifies(adapterQ)) + (IF m.kind = "notify" THEN 1 ELSE 0)
      BY <1>3, <1>4, NotifiesFinite, NotifiesAppended
    <2> QED
      BY <1>2, <1>3, <2>1, <2>2 DEF NiInv, NiBounded
  <1>8. ASSUME NEW i \in 1..Len(adapterQ), adapterQ[i].kind = "inform"
        PROVE  /\ adapterQ[i].raw # r
               /\ thread'[adapterQ[i].raw].pc = "done" /\ payloadsFreed'[adapterQ[i].raw] = 0
    <2>1. NiInform(i) /\ adapterQ[i] \in NiMessage
      BY <1>4 DEF NiInv
    <2>2. thread[adapterQ[i].raw].pc = "done" /\ adapterQ[i].raw \in Ni!Request
      BY <1>8, <2>1 DEF NiInform, NiMessage
    <2> QED
      BY <1>2, <1>5, <1>8, <2>1, <2>2 DEF NiInform
  <1>9. ASSUME NEW i \in 1..Len(adapterQ')
        PROVE  NiInform(i)'
    <2>1. CASE i \in 1..Len(adapterQ)
      <3>1. NiInform(i) /\ adapterQ'[i] = adapterQ[i]
        BY <1>4, <2>1 DEF NiInv
      <3>2. ASSUME adapterQ[i].kind = "inform", NEW j \in 1..Len(adapterQ'),
                   adapterQ'[j].kind = "inform", adapterQ'[j].raw = adapterQ[i].raw
            PROVE  i = j
        <4>1. adapterQ[i].raw # r
          BY <1>8, <2>1, <3>2
        <4>2. j \in 1..Len(adapterQ)
          BY <1>3, <1>4, <3>2, <4>1
        <4> QED
          BY <1>4, <3>1, <3>2, <4>2 DEF NiInform
      <3> QED
        BY <1>8, <2>1, <3>1, <3>2 DEF NiInform
    <2>2. CASE i = Len(adapterQ) + 1
      <3>1. adapterQ'[i] = m
        BY <1>4, <2>2
      <3>2. ASSUME NEW j \in 1..Len(adapterQ'), adapterQ'[j].kind = "inform", adapterQ'[j].raw = r
            PROVE  i = j
        <4>1. j \notin 1..Len(adapterQ)
          BY <1>4, <1>8, <3>2
        <4> QED
          BY <1>4, <2>2, <4>1
      <3> QED
        BY <1>2, <1>3, <1>5, <3>1, <3>2 DEF NiInform
    <2> QED
      BY <1>4, <2>1, <2>2
  <1>10. Ni!PendingHasThread'
    <2>1. ASSUME NEW t \in Ni!Slot, slot[t].rawRequest # 0
          PROVE  thread'[slot[t].rawRequest] = thread[slot[t].rawRequest]
      <3>1. thread[slot[t].rawRequest].pc = "waiting" /\ slot[t].rawRequest \in Ni!Request
        BY <1>1, <2>1 DEF NiInv, NiType, NiSession, Ni!PendingHasThread
      <3> QED
        BY <1>2, <1>5, <3>1
    <2> QED
      BY <1>2, <2>1 DEF NiInv, Ni!PendingHasThread
  <1>11. ASSUME NEW x \in Ni!Request
         PROVE  NiThread(x)' /\ NiPayload(x)'
    <2>1. NiThread(x) /\ NiPayload(x)
      BY DEF NiInv
    <2>2. CASE x = r
      BY <1>2, <1>5, <2>1, <2>2 DEF NiThread, NiPayload, NiHolds
    <2>3. CASE x # r
      BY <1>2, <1>5, <2>1, <2>3 DEF NiThread, NiPayload, NiHolds
    <2> QED
      BY <2>2, <2>3
  <1> QED
    BY <1>6, <1>7, <1>9, <1>10, <1>11 DEF NiInv

\* Every step of the network-initiated requests preserves the invariant.
LEMMA NiStep ==
  ASSUME NiInv, [Ni!Next]_niVars
  PROVE  NiInv'
  <1>1. CASE \/ \E emergency \in BOOLEAN : Ni!requestNiNotifyEvent(emergency)
             \/ \E r \in Ni!Request, response \in Agrees : Ni!gnssNiResponse(r, response)
    BY <1>1, NiPosts
  <1>2. CASE Ni!AdapterStep
    BY <1>2, NiNotified, NiAnswered, NiStored, NiInformed DEF Ni!AdapterStep
  <1>3. ASSUME NEW r \in Ni!Request, Ni!ThreadStep(r)
        PROVE  NiInv'
    BY <1>3, NiCollected, NiCleared, NiSent DEF Ni!ThreadStep
  <1>4. CASE UNCHANGED niVars
    BY <1>4 DEF niVars, NiInv, NiType, NiBounded, NiThread, NiPayload, NiHolds, NiInform,
                Ni!PendingHasThread, Ni!Unseen
  <1> QED
    BY <1>1, <1>2, <1>3, <1>4 DEF Ni!Next

\* The invariant holds before the first request.
LEMMA NiInit ==
  ASSUME Ni!Init
  PROVE  NiInv
  <1>1. /\ slot = [s \in Ni!Slot |-> Ni!Free] /\ counter = 0 /\ adapterQ = <<>> /\ answering = <<>>
        /\ thread = [r \in Ni!Request |-> Ni!NoThread]
        /\ informed = [r \in Ni!Request |-> <<>>] /\ payloadsFreed = [r \in Ni!Request |-> 0]
    BY DEF Ni!Init
  <1>2. Ni!Free \in NiSession /\ Ni!NoThread \in NiThreadState
    BY DEF Ni!Free, Ni!NoThread, NiSession, NiThreadState, Ni!Slot, Ni!Response
  <1>3. NiType
    BY <1>1, <1>2 DEF NiType
  <1>4. NiBounded
    <2>1. Ni!Unseen = {} /\ Cardinality(Ni!Unseen) = 0
      BY <1>1, FS_EmptySet DEF Ni!Unseen
    <2> QED
      BY <1>1, <2>1, RuntimeAssumption DEF NiBounded
  <1>5. Ni!PendingHasThread
    BY <1>1 DEF Ni!PendingHasThread, Ni!Free
  <1>6. \A r \in Ni!Request : NiThread(r) /\ NiPayload(r)
    BY <1>1 DEF NiThread, NiPayload, NiHolds, Ni!NoThread
  <1> QED
    BY <1>1, <1>3, <1>4, <1>5, <1>6 DEF NiInv, NiInform

\* However a timeout, the user's responses and an emergency request cross, the payload of a
\* network-initiated request is freed at most once, the modem is told of it at most once, and
\* a slot that has a request has the thread that will take it out.
THEOREM NiRequestsSound == MCSpec => []NiRequestsAreSound
  <1>1. MCInit => NiInv
    BY NiInit DEF MCInit
  <1>2. NiInv /\ [MCNext]_mcvars => NiInv'
    BY PartSteps, NiStep
  <1>3. NiInv => NiRequestsAreSound
    BY DEF NiInv, NiPayload, NiRequestsAreSound, Ni!FreedOnce
  <1> QED
    BY <1>1, <1>2, <1>3, PTL DEF MCSpec

-----------------------------------------------------------------------------
(* Timers.  TimersAreWatched is made inductive by saying what a delegate is  *)
(* in between: its client's until it is stopped, then the subject of one     *)
(* removal, the last message of the queue that names it; and that the top    *)
(* is a delegate of the heap, whose time to expire is not 0.                 *)

TimerMessage == [type : {"push", "remove", "expire"}, timer : Nat]

TimerType ==
  /\ now \in Nat \ {0} /\ made \in 0..MaxStarts
  /\ mTimer \in [Clients -> Nat]
  /\ mClient \in [Timer!Delegates -> Clients \union {None}]
  /\ due \in [Timer!Delegates -> Nat]
  /\ heap \subseteq 1..made /\ deleted \subseteq 1..made
  /\ timerQ \in Seq(TimerMessage)
  /\ expiring \in [at : Nat, timer : Nat, client : Clients \union {None}]

\* The delegate of a client that has started knows its client and is not deleted
TimerOwned(c) ==
  mTimer[c] # 0 =>
    mTimer[c] \in 1..made /\ mClient[mTimer[c]] = c /\ mTimer[c] \notin deleted

\* A removal is the last message that names its delegate, which its client has let go of
TimerQueued(i) ==
  /\ timerQ[i].type = "expire" => timerQ[i].timer = 0
  /\ timerQ[i].type # "expire" => timerQ[i].timer \in (1..made) \ deleted
  /\ timerQ[i].type = "remove" =>
       /\ \A c \in Clients : mTimer[c] # timerQ[i].timer
       /\ \A j \in 1..Len(timerQ) : timerQ[j].timer = timerQ[i].timer => j <= i

TimerHeap ==
  /\ heap \intersect deleted = {}
  /\ IF heap = {} THEN top = 0 ELSE top \in heap
  /\ \A d \in 1..made : due[d] > 0

TimerInv ==
  /\ TimerType /\ TimerHeap /\ Timer!HeapIsWatched
  /\ \A c \in Clients : TimerOwned(c)
  /\ \A i \in 1..Len(timerQ) : TimerQueued(i)

\* The queue keeps its form when a message is added that no removal precedes.
LEMMA QueuePosted ==
  ASSUME TimerInv, NEW m \in TimerMessage, timerQ' = Append(timerQ, m), deleted' = deleted,
         made' \in Nat, made <= made',
         m.type = "expire" => m.timer = 0,
         m.type # "expire" => m.timer \in (1..made') \ deleted,
         m.type = "remove" => \A c \in Clients : mTimer'[c] # m.timer,
         \A i \in 1..Len(timerQ) : timerQ[i].type = "remove" =>
            timerQ[i].timer # m.timer /\ \A c \in Clients : mTimer'[c] # timerQ[i].timer
  PROVE  /\ timerQ' \in Seq(TimerMessage) /\ \A i \in 1..Len(timerQ') : TimerQueued(i)'
         /\ Timer!InQueue("expire") => Timer!InQueue("expire")'
  <1>1. /\ timerQ \in Seq(TimerMessage) /\ timerQ' \in Seq(TimerMessage)
        /\ Len(timerQ') = Len(timerQ) + 1 /\ Len(timerQ) \in Nat
        /\ DOMAIN timerQ = 1..Len(timerQ) /\ DOMAIN timerQ' = 1..(Len(timerQ) + 1)
        /\ \A i \in 1..Len(timerQ) : timerQ'[i] = timerQ[i]
        /\ timerQ'[Len(timerQ) + 1] = m
    BY DEF TimerInv, TimerType
  <1>2. made \in Nat
    BY DEF TimerInv, TimerType
  <1>3. ASSUME NEW i \in 1..Len(timerQ)
        PROVE  TimerQueued(i)'
    <2>1. TimerQueued(i) /\ timerQ'[i] = timerQ[i]
      BY <1>1 DEF TimerInv
    <2>2. ASSUME timerQ[i].type = "remove", NEW j \in 1..Len(timerQ'),
                 timerQ'[j].timer = timerQ[i].timer
          PROVE  j <= i
      <3>1. j \in 1..Len(timerQ)
        BY <1>1, <2>2
      <3> QED
        BY <1>1, <2>1, <2>2, <3>1 DEF TimerQueued
    <2> QED
      BY <1>2, <2>1, <2>2 DEF TimerQueued
  <1>4. ASSUME NEW i \in 1..Len(timerQ'), i = Len(timerQ) + 1
        PROVE  TimerQueued(i)'
    <2>1. timerQ'[i] = m /\ \A j \in 1..Len(timerQ') : j <= i
      BY <1>1, <1>4
    <2> QED
      BY <2>1 DEF TimerQueued
  <1>5. Timer!InQueue("expire") => Timer!InQueue("expire")'
    BY <1>1 DEF Timer!InQueue
  <1>6. \A i \in 1..Len(timerQ') : i \in 1..Len(timerQ) \/ i = Len(timerQ) + 1
    BY <1>1
  <1> QED
    BY <1>1, <1>3, <1>4, <1>5, <1>6

\* The queue keeps its form when its first message is taken, and if that is a removal nothing
\* in the queue names the delegate any more.
LEMMA QueueTaken ==
  ASSUME TimerInv, timerQ # <<>>, timerQ' = Tail(timerQ), UNCHANGED <<made, mTimer>>,
         \/ deleted' = deleted
         \/ deleted' = deleted \union {Head(timerQ).timer} /\ Head(timerQ).type = "remove"
  PROVE  /\ timerQ' \in Seq(TimerMessage) /\ \A i \in 1..Len(timerQ') : TimerQueued(i)'
         /\ Head(timerQ) \in TimerMessage
         /\ Head(timerQ).type # "expire" => Head(timerQ).timer \in (1..made) \ deleted
         /\ Head(timerQ).type = "remove" => \A c \in Clients : mTimer[c] # Head(timerQ).timer
         /\ Head(timerQ).type # "expire" /\ Timer!InQueue("expire") => Timer!InQueue("expire")'
  <1>1. /\ timerQ \in Seq(TimerMessage) /\ timerQ' \in Seq(TimerMessage)
        /\ Len(timerQ') = Len(timerQ) - 1 /\ Len(timerQ) \in Nat /\ Len(timerQ) >= 1
        /\ DOMAIN timerQ = 1..Len(timerQ) /\ DOMAIN timerQ' = 1..(Len(timerQ) - 1)
        /\ \A i \in 1..Len(timerQ') : timerQ'[i] = timerQ[i + 1]
        /\ Head(timerQ) \in TimerMessage /\ Head(timerQ) = timerQ[1]
    BY HeadTailProperties, EmptySeq DEF TimerInv, TimerType
  <1>2. TimerQueued(1)
    BY <1>1 DEF TimerInv
  <1>3. ASSUME NEW i \in 1..Len(timerQ')
        PROVE  TimerQueued(i)'
    <2>1. i + 1 \in 1..Len(timerQ) /\ TimerQueued(i + 1) /\ timerQ'[i] = timerQ[i + 1]
      BY <1>1 DEF TimerInv
    <2>2. timerQ[i + 1].type # "expire" => timerQ[i + 1].timer \notin deleted'
      <3>1. CASE deleted' = deleted
        BY <2>1, <3>1 DEF TimerQueued
      <3>2. CASE deleted' = deleted \union {Head(timerQ).timer} /\ Head(timerQ).type = "remove"
        <4>1. timerQ[i + 1].timer # timerQ[1].timer
          BY <1>1, <1>2, <2>1, <3>2 DEF TimerQueued
        <4> QED
          BY <1>1, <2>1, <3>2, <4>1 DEF TimerQueued
      <3> QED
        BY <3>1, <3>2
    <2>3. ASSUME timerQ[i + 1].type = "remove", NEW j \in 1..Len(timerQ'),
                 timerQ'[j].timer = timerQ[i + 1].timer
          PROVE  j <= i
      <3>1. j + 1 \in 1..Len(timerQ) /\ timerQ'[j] = timerQ[j + 1]
        BY <1>1
      <3>2. j + 1 <= i + 1
        BY <2>1, <2>3, <3>1 DEF TimerQueued
      <3> QED
        BY <1>1, <3>2
    <2> QED
      BY <2>1, <2>2, <2>3 DEF TimerQueued
  <1>4. ASSUME Head(timerQ).type # "expire", Timer!InQueue("expire")
        PROVE  Timer!InQueue("expire")'
    <2>1. PICK i \in 1..Len(timerQ) : timerQ[i].type = "expire"
      BY <1>1, <1>4 DEF Timer!InQueue
    <2>2. i - 1 \in 1..Len(timerQ') /\ timerQ'[i - 1] = timerQ[i]
      BY <1>1, <1>4, <2>1
    <2> QED
      BY <1>1, <2>1, <2>2 DEF Timer!InQueue
  <1> QED
    BY <1>1, <1>2, <1>3, <1>4 DEF TimerQueued

\* A delegate that is stopped is its client's no more, and is to be removed.
LEMMA DelegateStopped ==
  ASSUME TimerInv, NEW c \in Clients, Timer!StopDelegate(c, timerQ), UNCHANGED <<made, deleted>>
  PROVE  /\ mTimer' \in [Clients -> Nat]
         /\ mClient' \in [Timer!Delegates -> Clients \union {None}]
         /\ timerQ' \in Seq(TimerMessage) /\ \A i \in 1..Len(timerQ') : TimerQueued(i)'
         /\ \A x \in Clients : TimerOwned(x)'
         /\ Timer!InQueue("expire") => Timer!InQueue("expire")'
  <1> DEFINE m == [type |-> "remove", timer |-> mTimer[c]]
  <1>1. /\ mTimer[c] # 0 /\ mTimer' = [mTimer EXCEPT ![c] = 0]
        /\ mClient' = [mClient EXCEPT ![mTimer[c]] = None]
        /\ timerQ' = Append(timerQ, m)
    BY DEF Timer!StopDelegate
  <1>2. TimerType
    BY DEF TimerInv
  <1>3. m \in TimerMessage /\ m.type = "remove" /\ m.timer = mTimer[c]
    BY <1>2 DEF TimerType, TimerMessage
  <1> HIDE DEF m
  <1>4. mTimer[c] \in (1..made) \ deleted /\ mTimer[c] \in Timer!Delegates
    BY <1>1, <1>2, RuntimeAssumption DEF TimerInv, TimerType, TimerOwned, Timer!Delegates
  <1>5. /\ mTimer' \in [Clients -> Nat] /\ mTimer'[c] = 0
        /\ \A x \in Clients : x # c => mTimer'[x] = mTimer[x]
    BY <1>1, <1>2 DEF TimerType
  <1>6. /\ mClient' \in [Timer!Delegates -> Clients \union {None}]
        /\ \A d \in Timer!Delegates : d # mTimer[c] => mClient'[d] = mClient[d]
    BY <1>1, <1>2, <1>4 DEF TimerType
  <1>7. ASSUME NEW x \in Clients, x # c, mTimer[x] # 0
        PROVE  mTimer[x] # mTimer[c]
    BY <1>1, <1>7 DEF TimerInv, TimerOwned
  <1>8. ASSUME NEW x \in Clients
        PROVE  TimerOwned(x)'
    <2>1. CASE x = c
      BY <1>5, <2>1 DEF TimerOwned
    <2>2. CASE x # c /\ mTimer[x] # 0
      <3>1. mTimer[x] \in 1..made /\ mClient[mTimer[x]] = x /\ mTimer[x] \notin deleted
        BY <2>2 DEF TimerInv, TimerOwned
      <3>2. mTimer[x] \in Timer!Delegates
        BY <1>2, <3>1, RuntimeAssumption DEF TimerType, Timer!Delegates
      <3> QED
        BY <1>5, <1>6, <1>7, <2>2, <3>1, <3>2 DEF TimerOwned
    <2>3. CASE x # c /\ mTimer[x] = 0
      BY <1>5, <2>3 DEF TimerOwned
    <2> QED
      BY <2>1, <2>2, <2>3
  <1>9. \A x \in Clients : mTimer'[x] # mTimer[c]
    BY <1>1, <1>5, <1>7
  <1>10. ASSUME NEW i \in 1..Len(timerQ), timerQ[i].type = "remove"
         PROVE  timerQ[i].timer # mTimer[c] /\ \A x \in Clients : mTimer'[x] # timerQ[i].timer
    <2>1. TimerQueued(i)
      BY DEF TimerInv
    <2>2. /\ timerQ[i].timer \in 1..made
          /\ \A x \in Clients : mTimer[x] # timerQ[i].timer
      BY <1>10, <2>1 DEF TimerQueued
    <2>3. timerQ[i].timer # 0
      BY <1>2, <2>2 DEF TimerType
    <2> QED
      BY <1>5, <2>2, <2>3
  <1>11. made \in Nat /\ made' = made
    BY <1>2 DEF TimerType
  <1>12. /\ m.type = "expire" => m.timer = 0
         /\ m.type # "expire" => m.timer \in (1..made') \ deleted
         /\ m.type = "remove" => \A x \in Clients : mTimer'[x] # m.timer
         /\ \A i \in 1..Len(timerQ) : timerQ[i].type = "remove" =>
              timerQ[i].timer # m.timer /\ \A x \in Clients : mTimer'[x] # timerQ[i].timer
    BY <1>3, <1>4, <1>9, <1>10, <1>11
  <1>13. /\ timerQ' \in Seq(TimerMessage) /\ \A i \in 1..Len(timerQ') : TimerQueued(i)'
         /\ Timer!InQueue("expire") => Timer!InQueue("expire")'
    BY <1>1, <1>3, <1>11, <1>12, QueuePosted
  <1> QED
    BY <1>5, <1>6, <1>8, <1>13

\* A client starts: its delegate is new, known to nothing but the message that adds it.
LEMMA TimerStarted ==
  ASSUME TimerInv, NEW c \in Clients, NEW t \in Timeouts, Timer!start(c, t)
  PROVE  TimerInv'
  <1> DEFINE d == made + 1
             m == [type |-> "push", timer |-> d]
  <1>1. /\ made < MaxStarts /\ mTimer[c] = 0 /\ made' = d
        /\ mTimer' = [mTimer EXCEPT ![c] = d]
        /\ mClient' = [mClient EXCEPT ![d] = c]
        /\ due' = [due EXCEPT ![d] = now + t]
        /\ timerQ' = Append(timerQ, m)
        /\ UNCHANGED <<now, heap, top, fd, polled, poll, expiring, deleted>>
    BY DEF Timer!start
  <1>2. TimerType /\ made \in Nat
    BY DEF TimerInv, TimerType
  <1>3. d \in Timer!Delegates /\ d \in Nat /\ made <= d /\ d \in 1..d /\ d \notin 1..made /\ t \in Nat
    BY <1>1, <1>2, RuntimeAssumption DEF TimerType, Timer!Delegates
  <1>4. m \in TimerMessage /\ m.type = "push" /\ m.timer = d
    BY <1>3 DEF TimerMessage
  <1> HIDE DEF m
  <1>5. /\ mTimer' \in [Clients -> Nat] /\ mTimer'[c] = d
        /\ \A x \in Clients : x # c => mTimer'[x] = mTimer[x]
    BY <1>1, <1>2, <1>3 DEF TimerType
  <1>6. /\ mClient' \in [Timer!Delegates -> Clients \union {None}] /\ mClient'[d] = c
        /\ \A x \in 1..made : mClient'[x] = mClient[x]
    BY <1>1, <1>2, <1>3, RuntimeAssumption DEF TimerType, Timer!Delegates
  <1>7. /\ due' \in [Timer!Delegates -> Nat] /\ due'[d] > 0
        /\ \A x \in 1..made : due'[x] = due[x]
    BY <1>1, <1>2, <1>3, RuntimeAssumption DEF TimerType, Timer!Delegates
  <1>8. \A i \in 1..Len(timerQ) : timerQ[i].type = "remove" =>
           timerQ[i].timer # m.timer /\ \A x \in Clients : mTimer'[x] # timerQ[i].timer
    <2>1. ASSUME NEW i \in 1..Len(timerQ), timerQ[i].type = "remove"
          PROVE  timerQ[i].timer \in 1..made /\ \A x \in Clients : mTimer[x] # timerQ[i].timer
      BY <2>1 DEF TimerInv, TimerQueued
    <2> QED
      BY <1>3, <1>4, <1>5, <2>1
  <1>9. /\ timerQ' \in Seq(TimerMessage) /\ \A i \in 1..Len(timerQ') : TimerQueued(i)'
        /\ Timer!InQueue("expire") => Timer!InQueue("expire")'
    <2>1. m.timer \in (1..made') \ deleted /\ made' \in Nat /\ made <= made' /\ m.type = "push"
      BY <1>1, <1>2, <1>3, <1>4 DEF TimerType
    <2> QED
      BY <1>1, <1>4, <1>8, <2>1, QueuePosted
  <1>10. TimerType'
    <2>1. made' \in 0..MaxStarts /\ heap' \subseteq 1..made' /\ deleted' \subseteq 1..made'
      BY <1>1, <1>2, RuntimeAssumption DEF TimerType
    <2> QED
      BY <1>1, <1>2, <1>5, <1>6, <1>7, <1>9, <2>1 DEF TimerType
  <1>11. TimerHeap'
    <2>1. \A x \in 1..made' : x \in 1..made \/ x = d
      BY <1>1, <1>2
    <2> QED
      BY <1>1, <1>7, <2>1 DEF TimerInv, TimerHeap
  <1>12. Timer!HeapIsWatched'
    <2>1. heap # {} => due'[top] = due[top]
      <3>1. heap # {} => top \in 1..made
        BY <1>2 DEF TimerInv, TimerType, TimerHeap
      <3> QED
        BY <1>7, <3>1
    <2> QED
      BY <1>1, <1>9, <2>1 DEF TimerInv, Timer!HeapIsWatched, Timer!Idle
  <1>13. ASSUME NEW x \in Clients
         PROVE  TimerOwned(x)'
    <2>1. CASE x = c
      BY <1>1, <1>2, <1>3, <1>5, <1>6, <2>1 DEF TimerOwned, TimerType
    <2>2. CASE x # c
      BY <1>1, <1>2, <1>5, <1>6, <2>2 DEF TimerInv, TimerOwned
    <2> QED
      BY <2>1, <2>2
  <1> QED
    BY <1>9, <1>10, <1>11, <1>12, <1>13 DEF TimerInv

\* A client stops.
LEMMA TimerStopped ==
  ASSUME TimerInv, NEW c \in Clients, Timer!stop(c)
  PROVE  TimerInv'
  <1>1. /\ Timer!StopDelegate(c, timerQ)
        /\ UNCHANGED <<now, made, due, heap, top, fd, polled, poll, expiring, deleted>>
    BY DEF Timer!stop
  <1>2. /\ mTimer' \in [Clients -> Nat]
        /\ mClient' \in [Timer!Delegates -> Clients \union {None}]
        /\ timerQ' \in Seq(TimerMessage) /\ \A i \in 1..Len(timerQ') : TimerQueued(i)'
        /\ \A x \in Clients : TimerOwned(x)'
        /\ Timer!InQueue("expire") => Timer!InQueue("expire")'
    BY <1>1, DelegateStopped
  <1>3. TimerType' /\ TimerHeap'
    BY <1>1, <1>2 DEF TimerInv, TimerType, TimerHeap
  <1>4. Timer!HeapIsWatched'
    BY <1>1, <1>2 DEF TimerInv, Timer!HeapIsWatched, Timer!Idle
  <1> QED
    BY <1>2, <1>3, <1>4 DEF TimerInv

\* A delegate joins the heap; if it is the new top the fd is armed for it.
LEMMA TimerAdded ==
  ASSUME TimerInv, Timer!add
  PROVE  TimerInv'
  <1> DEFINE d == Head(timerQ).timer
             cur == IF top = 0 \/ Timer!outRanks(d, top) THEN d ELSE top
  <1>1. /\ timerQ # <<>> /\ timerQ' = Tail(timerQ) /\ Head(timerQ).type = "push"
        /\ heap' = heap \union {d} /\ top' = cur /\ Timer!updateSoonestTime(cur, top)
        /\ UNCHANGED <<now, mTimer, made, mClient, due, poll, expiring, deleted>>
    BY DEF Timer!add, Timer!Handle, Timer!TaskIdle
  <1>2. /\ timerQ' \in Seq(TimerMessage) /\ \A i \in 1..Len(timerQ') : TimerQueued(i)'
        /\ d \in (1..made) \ deleted
        /\ Timer!InQueue("expire") => Timer!InQueue("expire")'
    BY <1>1, QueueTaken
  <1> HIDE DEF d
  <1>3. TimerType /\ made \in Nat /\ d \in Nat /\ d > 0 /\ d \in Timer!Delegates
    BY <1>2, RuntimeAssumption DEF TimerInv, TimerType, Timer!Delegates
  <1>4. due[d] \in Nat /\ due[d] > 0 /\ TimerHeap
    BY <1>2, <1>3 DEF TimerInv, TimerHeap, TimerType
  <1>5. TimerType' /\ TimerHeap'
    <2>1. heap' # {} /\ top' \in heap'
      BY <1>1, <1>4 DEF TimerHeap
    <2> QED
      BY <1>1, <1>2, <1>3, <1>4, <2>1 DEF TimerType, TimerHeap
  <1>6. Timer!HeapIsWatched'
    <2>1. CASE cur = top
      <3>1. top # 0 /\ heap # {} /\ UNCHANGED <<fd, polled>>
        BY <1>1, <1>3, <1>4, <2>1 DEF TimerHeap, Timer!updateSoonestTime
      <3> QED
        BY <1>1, <1>2, <2>1, <3>1 DEF TimerInv, Timer!HeapIsWatched, Timer!Idle
    <2>2. CASE cur # top
      <3>1. cur = d /\ polled' = TRUE /\ fd' = due[d]
        BY <1>1, <1>3, <2>2 DEF Timer!updateSoonestTime
      <3> QED
        BY <1>1, <1>4, <3>1 DEF Timer!HeapIsWatched
    <2> QED
      BY <2>1, <2>2
  <1>7. \A c \in Clients : TimerOwned(c)'
    BY <1>1 DEF TimerInv, TimerOwned
  <1> QED
    BY <1>2, <1>5, <1>6, <1>7 DEF TimerInv

\* After a delegate has left the heap its top is one of the heap, and the same as before
\* unless that has left.
LEMMA NextTop ==
  ASSUME TimerInv, NEW d, heap' = heap \ {d}, top' \in Timer!Tops(heap \ {d})
  PROVE  /\ IF heap' = {} THEN top' = 0 ELSE top' \in heap'
         /\ heap' # {} /\ d # top => top' = top
  BY DEF TimerInv, TimerHeap, Timer!Tops, Timer!Soonest

\* A delegate is removed and deleted; if it was the top the fd is armed for the next one.
LEMMA TimerRemoved ==
  ASSUME TimerInv, Timer!remove
  PROVE  TimerInv'
  <1> DEFINE d == Head(timerQ).timer
  <1>1. /\ timerQ # <<>> /\ timerQ' = Tail(timerQ) /\ Head(timerQ).type = "remove"
        /\ heap' = heap \ {d} /\ top' \in Timer!Tops(heap \ {d})
        /\ IF d \in heap /\ d = top THEN Timer!updateSoonestTime(top', 0)
           ELSE UNCHANGED <<fd, polled>>
        /\ deleted' = deleted \union {d}
        /\ UNCHANGED <<now, mTimer, made, mClient, due, poll, expiring>>
    BY DEF Timer!remove, Timer!Handle, Timer!TaskIdle
  <1>2. /\ timerQ' \in Seq(TimerMessage) /\ \A i \in 1..Len(timerQ') : TimerQueued(i)'
        /\ d \in (1..made) \ deleted /\ \A c \in Clients : mTimer[c] # d
        /\ Timer!InQueue("expire") => Timer!InQueue("expire")'
    BY <1>1, QueueTaken
  <1> HIDE DEF d
  <1>3. /\ IF heap' = {} THEN top' = 0 ELSE top' \in heap'
        /\ heap' # {} /\ d # top => top' = top
    BY <1>1, NextTop
  <1>4. TimerType' /\ TimerHeap'
    BY <1>1, <1>2, <1>3 DEF TimerInv, TimerType, TimerHeap
  <1>5. Timer!HeapIsWatched'
    <2>1. CASE heap' = {}
      BY <2>1 DEF Timer!HeapIsWatched
    <2>2. CASE heap' # {} /\ d = top
      <3>1. heap # {} /\ d \in heap
        BY <1>1, <2>2 DEF TimerInv, TimerHeap
      <3>2. top' # 0 /\ top' \in 1..made
        <4>1. top' \in heap /\ heap \subseteq 1..made /\ made \in Nat
          BY <1>1, <1>3, <2>2 DEF TimerInv, TimerType
        <4> QED
          BY <4>1
      <3>3. polled' = TRUE /\ fd' = due[top'] /\ due[top'] > 0 /\ due[top'] \in Nat
        <4>1. top' \in Timer!Delegates
          BY <3>2, RuntimeAssumption DEF TimerInv, TimerType, Timer!Delegates
        <4> QED
          BY <1>1, <2>2, <3>1, <3>2, <4>1 DEF TimerInv, TimerType, TimerHeap, Timer!updateSoonestTime
      <3> QED
        BY <1>1, <3>3 DEF Timer!HeapIsWatched
    <2>3. CASE heap' # {} /\ d # top
      BY <1>1, <1>2, <1>3, <2>3 DEF TimerInv, Timer!HeapIsWatched, Timer!Idle
    <2> QED
      BY <2>1, <2>2, <2>3
  <1>6. \A c \in Clients : TimerOwned(c)'
    BY <1>1, <1>2 DEF TimerInv, TimerOwned
  <1> QED
    BY <1>2, <1>4, <1>5, <1>6 DEF TimerInv

\* An expiry begins: it pops the top, or finds the heap empty.
LEMMA TimerExpires ==
  ASSUME TimerInv, Timer!beginExpire
  PROVE  TimerInv'
  <1>1. /\ timerQ # <<>> /\ timerQ' = Tail(timerQ)
        /\ UNCHANGED <<now, mTimer, made, mClient, due, poll, deleted, fd, polled>>
        /\ IF heap = {} THEN UNCHANGED <<heap, top, expiring>>
           ELSE /\ heap' = heap \ {top} /\ top' \in Timer!Tops(heap \ {top})
                /\ expiring' = [at |-> now, timer |-> top, client |-> mClient[top]]
    BY DEF Timer!beginExpire, Timer!Handle, Timer!TaskIdle
  <1>2. timerQ' \in Seq(TimerMessage) /\ \A i \in 1..Len(timerQ') : TimerQueued(i)'
    BY <1>1, QueueTaken
  <1>3. \A c \in Clients : TimerOwned(c)'
    BY <1>1 DEF TimerInv, TimerOwned
  <1>4. TimerType /\ TimerHeap
    BY DEF TimerInv
  <1>5. CASE heap = {}
    BY <1>1, <1>2, <1>3, <1>4, <1>5 DEF TimerInv, TimerType, TimerHeap, Timer!HeapIsWatched
  <1>6. CASE heap # {}
    <2>1. IF heap' = {} THEN top' = 0 ELSE top' \in heap'
      BY <1>1, <1>6, NextTop
    <2>2. /\ top \in Nat /\ top # 0 /\ top \in Timer!Delegates
          /\ expiring' = [at |-> now, timer |-> top, client |-> mClient[top]]
      <3>1. top \in 1..made /\ made \in 0..MaxStarts
        BY <1>4, <1>6 DEF TimerType, TimerHeap
      <3> QED
        BY <1>1, <1>6, <3>1, RuntimeAssumption DEF Timer!Delegates
    <2>3. /\ expiring' \in [at : Nat, timer : Nat, client : Clients \union {None}]
          /\ expiring'.timer # 0
      BY <1>4, <2>2 DEF TimerType
    <2>4. expiring' # Timer!Idle
      BY <2>3 DEF Timer!Idle
    <2>5. TimerType' /\ TimerHeap'
      BY <1>1, <1>2, <1>4, <1>6, <2>1, <2>3 DEF TimerType, TimerHeap
    <2>6. Timer!HeapIsWatched'
      BY <1>1, <2>4 DEF Timer!HeapIsWatched, Timer!Idle
    <2> QED
      BY <1>2, <1>3, <2>5, <2>6 DEF TimerInv
  <1> QED
    BY <1>5, <1>6

\* An expiry stops the client it has read, then pops the next delegate that is due or arms
\* the fd for it and ends.
LEMMA TimerGoesOn ==
  ASSUME TimerInv, Timer!expire
  PROVE  TimerInv'
  <1> DEFINE c == expiring.client
  <1>1. /\ expiring # Timer!Idle
        /\ UNCHANGED <<now, made, due, poll, deleted>>
        /\ \/ c # None /\ Timer!StopDelegate(c, timerQ)
           \/ UNCHANGED <<mTimer, mClient, timerQ>>
        /\ IF top # 0 /\ due[top] <= expiring.at
           THEN /\ heap' = heap \ {top} /\ top' \in Timer!Tops(heap \ {top})
                /\ expiring' = [expiring EXCEPT !.timer = top, !.client = mClient'[top]]
                /\ UNCHANGED <<fd, polled>>
           ELSE /\ expiring' = Timer!Idle /\ Timer!updateSoonestTime(top, 0)
                /\ UNCHANGED <<heap, top>>
    BY DEF Timer!expire, Timer!heapVars
  <1>2. TimerType /\ TimerHeap /\ c \in Clients \union {None} /\ expiring.at \in Nat
    BY DEF TimerInv, TimerType
  <1>3. /\ mTimer' \in [Clients -> Nat]
        /\ mClient' \in [Timer!Delegates -> Clients \union {None}]
        /\ timerQ' \in Seq(TimerMessage) /\ \A i \in 1..Len(timerQ') : TimerQueued(i)'
        /\ \A x \in Clients : TimerOwned(x)'
    <2>1. CASE c # None /\ Timer!StopDelegate(c, timerQ)
      BY <1>1, <1>2, <2>1, DelegateStopped
    <2>2. CASE UNCHANGED <<mTimer, mClient, timerQ>>
      BY <1>1, <2>2 DEF TimerInv, TimerType, TimerOwned, TimerQueued
    <2> QED
      BY <1>1, <2>1, <2>2
  <1> HIDE DEF c
  <1>4. CASE top # 0 /\ due[top] <= expiring.at
    <2>1. /\ heap' = heap \ {top} /\ top' \in Timer!Tops(heap \ {top})
          /\ expiring' = [expiring EXCEPT !.timer = top, !.client = mClient'[top]]
      BY <1>1, <1>4
    <2>2. IF heap' = {} THEN top' = 0 ELSE top' \in heap'
      BY <2>1, NextTop
    <2>3. top \in Nat /\ top \in Timer!Delegates
      <3>1. top \in 1..made /\ made \in 0..MaxStarts
        BY <1>2, <1>4 DEF TimerType, TimerHeap
      <3> QED
        BY <3>1, RuntimeAssumption DEF Timer!Delegates
    <2>4. /\ expiring' \in [at : Nat, timer : Nat, client : Clients \union {None}]
          /\ expiring'.timer # 0
      <3>1. mClient'[top] \in Clients \union {None}
        BY <1>3, <2>3
      <3> QED
        BY <1>2, <1>4, <2>1, <2>3, <3>1 DEF TimerType
    <2>5. TimerType' /\ TimerHeap'
      BY <1>1, <1>2, <1>3, <2>1, <2>2, <2>4 DEF TimerType, TimerHeap
    <2>6. Timer!HeapIsWatched'
      BY <2>4 DEF Timer!HeapIsWatched, Timer!Idle
    <2> QED
      BY <1>3, <2>5, <2>6 DEF TimerInv
  <1>5. CASE ~(top # 0 /\ due[top] <= expiring.at)
    <2>1. /\ expiring' = Timer!Idle /\ Timer!updateSoonestTime(top, 0)
          /\ UNCHANGED <<heap, top>>
      BY <1>1, <1>5
    <2>2. Timer!Idle \in [at : Nat, timer : Nat, client : Clients \union {None}]
      BY DEF Timer!Idle
    <2>3. TimerType' /\ TimerHeap'
      BY <1>1, <1>2, <1>3, <2>1, <2>2 DEF TimerType, TimerHeap
    <2>4. Timer!HeapIsWatched'
      <3>1. ASSUME heap # {}
            PROVE  top # 0 /\ due[top] > 0 /\ due[top] \in Nat
        <4>1. top \in 1..made /\ made \in 0..MaxStarts
          BY <1>2, <3>1 DEF TimerType, TimerHeap
        <4>2. top \in Timer!Delegates
          BY <4>1, RuntimeAssumption DEF Timer!Delegates
        <4> QED
          BY <1>2, <4>1, <4>2 DEF TimerType, TimerHeap
      <3>2. top # 0 => polled' = TRUE /\ fd' = due[top]
        BY <2>1 DEF Timer!updateSoonestTime
      <3> QED
        BY <1>1, <2>1, <3>1, <3>2 DEF Timer!HeapIsWatched
    <2> QED
      BY <1>3, <2>3, <2>4 DEF TimerInv
  <1> QED
    BY <1>4, <1>5

\* The poll thread finds the fd expired, disarms it and posts an expiry.
LEMMA TimerPolled ==
  ASSUME TimerInv, Timer!Poll
  PROVE  TimerInv'
  <1>1. CASE Timer!run \/ Timer!disarm \/ Timer!unpoll
    <2>1. /\ UNCHANGED <<now, mTimer, made, mClient, due, heap, top, timerQ, expiring, deleted>>
          /\ poll' # "wait"
      BY <1>1 DEF Timer!run, Timer!disarm, Timer!unpoll
    <2>2. TimerType' /\ TimerHeap' /\ \A c \in Clients : TimerOwned(c)'
      BY <2>1 DEF TimerInv, TimerType, TimerHeap, TimerOwned
    <2>3. \A i \in 1..Len(timerQ') : TimerQueued(i)'
      BY <2>1 DEF TimerInv, TimerQueued
    <2>4. Timer!HeapIsWatched'
      BY <2>1 DEF Timer!HeapIsWatched
    <2> QED
      BY <2>2, <2>3, <2>4 DEF TimerInv
  <1>2. CASE Timer!post
    <2> DEFINE m == [type |-> "expire", timer |-> 0]
    <2>1. /\ timerQ' = Append(timerQ, m)
          /\ UNCHANGED <<now, mTimer, made, mClient, due, heap, top, expiring, deleted>>
      BY <1>2 DEF Timer!post
    <2>2. m \in TimerMessage /\ m.type = "expire" /\ m.timer = 0
      BY DEF TimerMessage
    <2> HIDE DEF m
    <2>3. \A i \in 1..Len(timerQ) : timerQ[i].type = "remove" =>
             timerQ[i].timer # m.timer /\ \A x \in Clients : mTimer'[x] # timerQ[i].timer
      BY <2>1, <2>2 DEF TimerInv, TimerQueued
    <2>4. made' \in Nat /\ made <= made' /\ timerQ \in Seq(TimerMessage)
      BY <2>1 DEF TimerInv, TimerType
    <2>5. timerQ' \in Seq(TimerMessage) /\ \A i \in 1..Len(timerQ') : TimerQueued(i)'
      BY <2>1, <2>2, <2>3, <2>4, QueuePosted
    <2>6. TimerType' /\ TimerHeap' /\ \A c \in Clients : TimerOwned(c)'
      BY <2>1, <2>5 DEF TimerInv, TimerType, TimerHeap, TimerOwned
    <2>7. Timer!InQueue("expire")'
      <3>1. Len(timerQ) + 1 \in DOMAIN timerQ' /\ timerQ'[Len(timerQ) + 1] = m
        BY <2>1, <2>2, <2>4
      <3> QED
        BY <2>2, <3>1 DEF Timer!InQueue
    <2> QED
      BY <2>5, <2>6, <2>7 DEF TimerInv, Timer!HeapIsWatched
  <1> QED
    BY <1>1, <1>2 DEF Timer!Poll

\* Every step of the timers preserves the invariant.
LEMMA TimerStep ==
  ASSUME TimerInv, [Timer!Next]_timerVars
  PROVE  TimerInv'
  <1>1. CASE Timer!Tick \/ UNCHANGED timerVars
    <2>1. /\ UNCHANGED <<mTimer, made, mClient, due, heap, top, timerQ, fd, polled, poll,
                         expiring, deleted>>
          /\ now' \in Nat \ {0}
      BY <1>1 DEF Timer!Tick, timerVars, TimerInv, TimerType
    <2>2. TimerType' /\ TimerHeap' /\ \A c \in Clients : TimerOwned(c)'
      BY <2>1 DEF TimerInv, TimerType, TimerHeap, TimerOwned
    <2>3. \A i \in 1..Len(timerQ') : TimerQueued(i)'
      BY <2>1 DEF TimerInv, TimerQueued
    <2>4. Timer!HeapIsWatched'
      BY <2>1 DEF TimerInv, Timer!HeapIsWatched, Timer!InQueue, Timer!Idle
    <2> QED
      BY <2>2, <2>3, <2>4 DEF TimerInv
  <1>2. CASE Timer!Task
    BY <1>2, TimerAdded, TimerRemoved, TimerExpires, TimerGoesOn DEF Timer!Task
  <1>3. CASE Timer!Poll
    BY <1>3, TimerPolled
  <1>4. CASE \E c \in Clients : Timer!stop(c) \/ \E t \in Timeouts : Timer!start(c, t)
    BY <1>4, TimerStopped, TimerStarted
  <1> QED
    BY <1>1, <1>2, <1>3, <1>4 DEF Timer!Next

\* The invariant holds before the first start.
LEMMA TimerInit ==
  ASSUME Timer!Init
  PROVE  TimerInv
  <1>1. /\ now = 1 /\ made = 0 /\ mTimer = [c \in Clients |-> 0]
        /\ mClient = [d \in Timer!Delegates |-> None] /\ due = [d \in Timer!Delegates |-> 0]
        /\ heap = {} /\ top = 0 /\ timerQ = <<>> /\ expiring = Timer!Idle /\ deleted = {}
    BY DEF Timer!Init
  <1>2. Timer!Idle \in [at : Nat, timer : Nat, client : Clients \union {None}]
    BY DEF Timer!Idle
  <1>3. TimerType
    BY <1>1, <1>2, RuntimeAssumption DEF TimerType
  <1> QED
    BY <1>1, <1>3 DEF TimerInv, TimerHeap, TimerOwned, TimerQueued, Timer!HeapIsWatched

\* However the timer task and the poll thread interleave on the fd they share, and whenever
\* clients start and stop, a timer in the heap has a wake-up on its way, and a delegate is
\* removed and deleted once and held by nothing afterwards.
THEOREM TimersWatched == MCSpec => []TimersAreWatched
  <1>1. MCInit => TimerInv
    BY TimerInit DEF MCInit
  <1>2. TimerInv /\ [MCNext]_mcvars => TimerInv'
    BY PartSteps, TimerStep
  <1>3. ASSUME TimerInv
        PROVE  TimersAreWatched
    <2>1. \A c \in Clients : mTimer[c] \notin deleted
      BY <1>3 DEF TimerInv, TimerType, TimerOwned
    <2>2. \A i \in 1..Len(timerQ) : timerQ[i].timer \notin deleted
      BY <1>3 DEF TimerInv, TimerType, TimerQueued
    <2>3. ASSUME NEW i \in 1..Len(timerQ), NEW j \in 1..Len(timerQ),
                 timerQ[i] = timerQ[j], timerQ[i].type = "remove"
          PROVE  i = j
      <3>1. j <= i /\ i <= j
        BY <1>3, <2>3 DEF TimerInv, TimerQueued
      <3> QED
        BY <3>1
    <2>4. DOMAIN timerQ = 1..Len(timerQ)
      BY <1>3 DEF TimerInv, TimerType
    <2> QED
      BY <1>3, <2>1, <2>2, <2>3, <2>4 DEF TimerInv, TimerHeap, TimersAreWatched, Timer!DeletedOnce
  <1> QED
    BY <1>1, <1>2, <1>3, PTL DEF MCSpec

-----------------------------------------------------------------------------
(* A message task.  MsgTaskProofs has its invariants and its refinement of   *)
(* Fifo; here they are carried over to the task of MCRuntime.                *)

TaskP == INSTANCE MsgTaskProofs

\* The task of MCRuntime takes the steps of the task MsgTaskProofs is about.
LEMMA TaskSteps ==
  ASSUME [MCNext]_mcvars
  PROVE  [TaskP!Next]_(TaskP!vars)
  <1>1. [Task!Next]_taskVars
    BY PartSteps
  <1>2. Task!Next <=> TaskP!Next
    BY DEF Task!Next, Task!Thread, Task!Parent, Task!Receive, Task!create, Task!started,
           Task!bye, Task!join, Task!release, Task!begin, Task!prerun, Task!loop, Task!leave,
           Task!ran, Task!postrun, Task!DropReference, Task!msg_q_rcv, Task!run,
           Task!runUnblocked, Task!waitAgain, Task!deleteTask, Task!wakeSpuriously,
           Task!sendMsg, Task!destroy, Task!destroyUnstarted, Task!linked_list_add,
           Task!linked_list_remove, Task!linked_list_empty, Task!linked_list_flush,
           Task!Walk, Task!Messages, Task!threadVars, Task!queueVars,
           TaskP!Next, TaskP!Thread, TaskP!Parent, TaskP!Receive, TaskP!create, TaskP!started,
           TaskP!bye, TaskP!join, TaskP!release, TaskP!begin, TaskP!prerun, TaskP!loop,
           TaskP!leave, TaskP!ran, TaskP!postrun, TaskP!DropReference, TaskP!msg_q_rcv,
           TaskP!run, TaskP!runUnblocked, TaskP!waitAgain, TaskP!deleteTask,
           TaskP!wakeSpuriously, TaskP!sendMsg, TaskP!destroy, TaskP!destroyUnstarted,
           TaskP!linked_list_add, TaskP!linked_list_remove, TaskP!linked_list_empty,
           TaskP!linked_list_flush, TaskP!Walk, TaskP!Messages, TaskP!threadVars,
           TaskP!queueVars
  <1>3. UNCHANGED taskVars => UNCHANGED TaskP!vars
    BY DEF taskVars, queueVars, TaskP!vars, TaskP!threadVars, TaskP!queueVars
  <1> QED
    BY <1>1, <1>2, <1>3

\* It starts as that task does.
LEMMA TaskStart ==
  ASSUME MCInit
  PROVE  TaskP!Init
  BY DEF MCInit, Task!Init, Task!ThreadInit, Task!Messages, TaskP!Init, TaskP!ThreadInit, TaskP!Messages

\* The delegate of the thread is deleted by the last of its two owners; walked from
\* either end the list has the messages that are neither handled nor freed.  The
\* invariant is the one of MsgTaskProofs.
THEOREM TaskSound == MCSpec => []TaskIsSound
  <1> DEFINE Inv == /\ TaskP!Counted
                    /\ TaskP!HandledInOrder /\ TaskP!ListIsLinked /\ TaskP!FreedAtEnd
  <1>1. MCInit => Inv
    <2>1. TaskP!Init => TaskP!Counted
      BY DEF TaskP!Init, TaskP!ThreadInit, TaskP!Counted, TaskP!ThreadStep, TaskP!ParentStep,
             TaskP!ThreadHolds, TaskP!ParentHolds
    <2>2. TaskP!Init => TaskP!FreedAtEnd
      BY DEF TaskP!Init, TaskP!ThreadInit, TaskP!FreedAtEnd
    <2> QED
      BY <2>1, <2>2, TaskStart, RuntimeAssumption, TaskP!LinkedInit DEF RuntimeAssumption
  <1>2. Inv /\ [MCNext]_mcvars => Inv'
    <2> SUFFICES ASSUME Inv, [MCNext]_mcvars
                 PROVE  Inv'
      OBVIOUS
    <2>1. [TaskP!Next]_(TaskP!vars) /\ MaxSends \in Nat
      BY TaskSteps, RuntimeAssumption DEF RuntimeAssumption
    <2> QED
      BY <2>1, TaskP!CountedStep, TaskP!LinkedStep, TaskP!FreedStep
  <1>3. Inv => TaskIsSound
    <2>1. TaskP!Counted => TaskP!DelegateIsShared
      BY DEF TaskP!Counted, TaskP!ThreadStep, TaskP!ParentStep, TaskP!ThreadHolds,
             TaskP!ParentHolds, TaskP!DelegateIsShared
    <2>2. Inv => TaskP!ListIsSound
      BY TaskP!AccountIsSound, RuntimeAssumption DEF RuntimeAssumption
    <2>3. TaskIsSound <=> TaskP!DelegateIsShared /\ TaskP!ListIsSound
      BY DEF TaskIsSound, Task!DelegateIsShared, TaskP!DelegateIsShared, Task!ListIsSound,
             TaskP!ListIsSound, Task!Walk, TaskP!Walk, Task!Queued, TaskP!Queued, Task!FromTo, TaskP!FromTo
    <2> QED
      BY <2>1, <2>2, <2>3
  <1> QED
    BY <1>1, <1>2, <1>3, PTL DEF MCSpec

\* The task implements a first in, first out queue: each message is handled once, in
\* order, and at most one after the task is destroyed.
THEOREM TaskIsFifo == MCSpec => ImplementsFifo
  <1> DEFINE Inv == TaskP!HandledInOrder /\ TaskP!ListIsLinked /\ TaskP!Closing
  <1>1. MCInit => Inv /\ TaskP!Abstract!Init
    <2>1. TaskP!Init => TaskP!Closing
      BY DEF TaskP!Init, TaskP!ThreadInit, TaskP!Closing
    <2>2. TaskP!Init => TaskP!Abstract!Init
      BY DEF TaskP!Init, TaskP!Abstract!Init, TaskP!Queued
    <2> QED
      BY <2>1, <2>2, TaskStart, RuntimeAssumption, TaskP!LinkedInit DEF RuntimeAssumption
  <1>2. Inv /\ [MCNext]_mcvars => Inv' /\ [TaskP!Abstract!Next]_(TaskP!Abstract!vars)
    <2> SUFFICES ASSUME Inv, [MCNext]_mcvars
                 PROVE  Inv' /\ [TaskP!Abstract!Next]_(TaskP!Abstract!vars)
      OBVIOUS
    <2>1. [TaskP!Next]_(TaskP!vars) /\ MaxSends \in Nat
      BY TaskSteps, RuntimeAssumption DEF RuntimeAssumption
    <2> QED
      BY <2>1, TaskP!LinkedStep, TaskP!ClosingStep, TaskP!FifoStep
  <1>3. TaskP!Abstract!Init => Task!Abstract!Init
    BY DEF TaskP!Abstract!Init, Task!Abstract!Init, TaskP!Queued, Task!Queued, TaskP!FromTo, Task!FromTo
  <1>4. [TaskP!Abstract!Next]_(TaskP!Abstract!vars) => [Task!Abstract!Next]_(Task!Abstract!vars)
    BY DEF TaskP!Abstract!Next, Task!Abstract!Next, TaskP!Abstract!vars, Task!Abstract!vars,
     TaskP!Abstract!Accept, Task!Abstract!Accept, TaskP!Abstract!Close, Task!Abstract!Close,
     TaskP!Abstract!Handle, Task!Abstract!Handle, TaskP!Abstract!Discard, Task!Abstract!Discard,
     TaskP!Queued, Task!Queued, TaskP!FromTo, Task!FromTo
  <1> QED
    BY <1>1, <1>2, <1>3, <1>4, PTL DEF MCSpec, ImplementsFifo, Task!ImplementsFifo, Task!Abstract!Spec

-----------------------------------------------------------------------------
(* Requests for coarse positions: on-demand position injection, for any bound *)
(* of the adapter's queue.                                                    *)

OdcpiMessage == Command \union [kind : {"expire"}]

\* An expiry of the timer waits in the queue.
ExpiryQueued == \E i \in DOMAIN msgQ : msgQ[i].kind = "expire"

\* The inductive invariant.  It drops the active request from what RequestIsWatched says
\* of the timer and of the emergency mode: a start that finds the timer active, left
\* behind by a request that was stopped, starts nothing and asks nobody, and relies on
\* what that earlier request has left.
OdcpiInv ==
  /\ TypeOK
  /\ odcpiRequestActive => timerActive
  /\ timerActive => timerRunning \/ ExpiryQueued
  /\ odcpiRequest => asked

-----------------------------------------------------------------------------
\* What handling a message leaves in the queue: an expiry is still there unless it was the
\* one handled.
LEMMA MessageHandled ==
  ASSUME msgQ \in Seq(OdcpiMessage), NEW kind, Handle(kind)
  PROVE  /\ msgQ' \in Seq(OdcpiMessage)
         /\ ExpiryQueued /\ kind # "expire" => ExpiryQueued'
         /\ kind = "start" => Head(msgQ).isEmergencyMode \in BOOLEAN
  <1>1. msgQ # <<>> /\ Head(msgQ).kind = kind /\ msgQ' = Tail(msgQ)
    BY DEF Handle
  <1>2. msgQ' \in Seq(OdcpiMessage)
    BY <1>1
  <1>3. ASSUME NEW i \in DOMAIN msgQ, msgQ[i].kind = "expire", kind # "expire"
        PROVE  ExpiryQueued'
    <2>1. i \in 1 .. Len(msgQ) /\ i # 1
      BY <1>1, <1>3
    <2>2. i - 1 \in DOMAIN msgQ' /\ msgQ'[i - 1] = msgQ[i]
      BY <1>1, <2>1
    <2> QED
      BY <1>3, <2>2 DEF ExpiryQueued
  <1>4. kind = "start" => Head(msgQ).isEmergencyMode \in BOOLEAN
    <2>1. Head(msgQ) \in OdcpiMessage
      BY <1>1
    <2> QED
      BY <1>1, <2>1 DEF OdcpiMessage, Command
  <1> QED
    BY <1>2, <1>3, <1>4 DEF ExpiryQueued

\* What appending a message does to the queue.
LEMMA MessageAppended ==
  ASSUME msgQ \in Seq(OdcpiMessage), NEW msg \in OdcpiMessage, msgQ' = Append(msgQ, msg)
  PROVE  /\ msgQ' \in Seq(OdcpiMessage)
         /\ ExpiryQueued \/ msg.kind = "expire" => ExpiryQueued'
  <1>1. msgQ' \in Seq(OdcpiMessage) /\ Len(msgQ') = Len(msgQ) + 1
        /\ msgQ'[Len(msgQ) + 1] = msg
        /\ \A i \in 1 .. Len(msgQ) : msgQ'[i] = msgQ[i]
    OBVIOUS
  <1>2. msg.kind = "expire" => ExpiryQueued'
    BY <1>1 DEF ExpiryQueued
  <1>3. ExpiryQueued => ExpiryQueued'
    BY <1>1 DEF ExpiryQueued
  <1> QED
    BY <1>1, <1>2, <1>3

\* Every step keeps the inductive invariant.
LEMMA OdcpiStep == OdcpiInv /\ [Next]_vars => OdcpiInv'
  <1> SUFFICES ASSUME OdcpiInv, [Next]_vars
               PROVE  OdcpiInv'
    OBVIOUS
  <1> USE DEF OdcpiInv, TypeOK
  <1>0. msgQ \in Seq(OdcpiMessage)
    BY DEF OdcpiMessage
  <1>1. ASSUME NEW msg \in Command, Post(msg)
        PROVE  OdcpiInv'
    <2>1. msgQ' \in Seq(OdcpiMessage) /\ (ExpiryQueued => ExpiryQueued')
      BY <1>0, <1>1, MessageAppended DEF Post, OdcpiMessage
    <2> QED
      BY <1>1, <2>1 DEF Post, OdcpiMessage
  <1>2. CASE timeOutCallback
    <2>1. msgQ' \in Seq(OdcpiMessage) /\ ExpiryQueued'
      <3>1. [kind |-> "expire"] \in OdcpiMessage
        BY DEF OdcpiMessage
      <3> QED
        BY <1>0, <1>2, <3>1, MessageAppended DEF timeOutCallback
    <2> QED
      BY <1>2, <2>1 DEF timeOutCallback, OdcpiMessage
  <1>3. CASE initOdcpi
    <2>1. msgQ' \in Seq(OdcpiMessage) /\ (ExpiryQueued => ExpiryQueued')
      BY <1>0, <1>3, MessageHandled DEF initOdcpi
    <2> QED
      BY <1>3, <2>1 DEF initOdcpi, OdcpiMessage
  <1>4. CASE reportOdcpiRequestStart
    <2>1. /\ msgQ' \in Seq(OdcpiMessage) /\ (ExpiryQueued => ExpiryQueued')
          /\ Head(msgQ).isEmergencyMode \in BOOLEAN
      BY <1>0, <1>4, MessageHandled DEF reportOdcpiRequestStart
    <2> QED
      BY <1>4, <2>1 DEF reportOdcpiRequestStart, FirstRequest, Escalates, StartTimer, OdcpiMessage
  <1>5. CASE reportOdcpiRequestStop
    <2>1. msgQ' \in Seq(OdcpiMessage) /\ (ExpiryQueued => ExpiryQueued')
      BY <1>0, <1>5, MessageHandled DEF reportOdcpiRequestStop
    <2> QED
      BY <1>5, <2>1 DEF reportOdcpiRequestStop, OdcpiMessage
  <1>6. CASE restartSessions
    <2>1. msgQ' \in Seq(OdcpiMessage) /\ (ExpiryQueued => ExpiryQueued')
      BY <1>0, <1>6, MessageHandled DEF restartSessions
    <2> QED
      BY <1>6, <2>1 DEF restartSessions, OdcpiMessage
  <1>7. CASE injectOdcpi
    <2>1. msgQ' \in Seq(OdcpiMessage) /\ (ExpiryQueued => ExpiryQueued')
      BY <1>0, <1>7, MessageHandled DEF injectOdcpi
    <2> QED
      BY <1>7, <2>1 DEF injectOdcpi, OdcpiMessage
  <1>8. CASE odcpiTimerExpire
    <2>1. msgQ' \in Seq(OdcpiMessage)
      BY <1>0, <1>8, MessageHandled DEF odcpiTimerExpire
    <2>2. CASE odcpiRequestActive /\ AskAgain
      <3>1. /\ asked' = odcpiRequest /\ timerActive' = TRUE /\ timerRunning' = TRUE
            /\ UNCHANGED <<odcpiRequestCb, odcpiRequestActive, odcpiRequest>>
        BY <1>8, <2>2 DEF odcpiTimerExpire, AskAgain, StartTimer
      <3>2. TypeOK'
        BY <2>1, <3>1 DEF OdcpiMessage
      <3> QED
        BY <3>1, <3>2
    <2>3. CASE ~odcpiRequestActive /\ StopTimer /\ UNCHANGED asked
      BY <1>8, <2>1, <2>3 DEF odcpiTimerExpire, StopTimer, OdcpiMessage
    <2> QED
      BY <1>8, <2>2, <2>3 DEF odcpiTimerExpire
  <1>9. CASE UNCHANGED vars
    BY <1>9 DEF vars, ExpiryQueued
  <1> QED
    BY <1>1, <1>2, <1>3, <1>4, <1>5, <1>6, <1>7, <1>8, <1>9 DEF Next, Handler

\* Nothing is active at first.
LEMMA OdcpiInit == Init => OdcpiInv
  <1> SUFFICES ASSUME Init
               PROVE  OdcpiInv
    OBVIOUS
  <1>1. <<>> \in Seq(OdcpiMessage)
    OBVIOUS
  <1>2. TypeOK
    BY <1>1 DEF Init, TypeOK, OdcpiMessage
  <1> QED
    BY <1>2 DEF Init, OdcpiInv

-----------------------------------------------------------------------------
\* The flags stay flags and the queue holds commands and expiries.
THEOREM OdcpiTyped == Spec => []TypeOK
  <1>1. OdcpiInv => TypeOK
    BY DEF OdcpiInv
  <1> QED
    BY OdcpiInit, OdcpiStep, <1>1, PTL DEF Spec

\* A request that is active is watched by the timer or by an expiry in the queue, and an
\* emergency was passed on as one, however starts, stops, restarts of the modem and
\* expiries of the timer's thread interleave (GnssAdapter.cpp 2584-2695).
THEOREM ActiveIsWatched == Spec => []RequestIsWatched
  <1>1. OdcpiInv => RequestIsWatched
    BY DEF OdcpiInv, RequestIsWatched, ExpiryQueued
  <1> QED
    BY OdcpiInit, OdcpiStep, <1>1, PTL DEF Spec
=============================================================================
