----------------------------- MODULE NiSession ------------------------------
(***************************************************************************)
(* Network-initiated requests (gps/gnss/GnssAdapter.cpp 1834-1937 and      *)
(* 2323-2480, NiSession and NiData of GnssAdapter.h).                      *)
(*                                                                         *)
(* The modem asks whether the user agrees to be located.  The adapter has  *)
(* two slots, one for emergency requests; a request takes a slot, a thread *)
(* of its own waits in it for the user's response or a timeout, and sends  *)
(* the outcome to the modem through the adapter's queue.  tLock protects   *)
(* resp and respRecvd, but the adapter looks at rawRequest and reqID       *)
(* before it takes it, and the thread clears reqID after it released it.   *)
(*                                                                         *)
(* A request is named by its number, which is reqIDCounter's value; its    *)
(* payload has the same name.  Left out: respTimeLeft (the timeout may     *)
(* come at any time) and a pthread_create that fails.                      *)
(***************************************************************************)
EXTENDS Naturals, Sequences, FiniteSets

CONSTANTS
  MaxRequests,  \* bound: requests of the modem
  MaxQueue,     \* bound: messages in the adapter's queue
  Agrees        \* the responses the user may give: "ACCEPT", "DENY"

VARIABLES
  slot,       \* niData.session, niData.sessionEs: [rawRequest, reqID, resp, respRecvd]
  counter,    \* niData.reqIDCounter
  hasClient,  \* a client has a gnssNiCb
  msgQ,       \* the adapter's queue
  answering,  \* responses the adapter has yet to store in a slot
  thread,     \* the thread of each request: [pc, slot, send, raw]
  informed,   \* the outcomes the modem was told, of each request
  freed,      \* how often the payload of each request was freed
  given       \* the responses the user has given to each request

vars == <<slot, counter, hasClient, msgQ, answering, thread, informed, freed, given>>

-----------------------------------------------------------------------------
Request == 1 .. MaxRequests
Slot == {"session", "sessionEs"}
Response == Agrees \union {"IGNORE", "NO_RESPONSE"}
NoThread == [pc |-> "none", slot |-> "session", send |-> "IGNORE", raw |-> 0]
Free == [rawRequest |-> 0, reqID |-> 0, resp |-> "NO_RESPONSE", respRecvd |-> FALSE]

Init ==
  /\ slot = [s \in Slot |-> Free]
  /\ counter = 0
  /\ hasClient \in BOOLEAN
  /\ msgQ = <<>>
  /\ answering = <<>>
  /\ thread = [r \in Request |-> NoThread]
  /\ informed = [r \in Request |-> <<>>]
  /\ freed = [r \in Request |-> 0]
  /\ given = [r \in Request |-> {}]

Post(msg) == Len(msgQ) < MaxQueue /\ msgQ' = Append(msgQ, msg)

\* The places in the queue of the requests the adapter has yet to look at
Unseen == {i \in DOMAIN msgQ : msgQ[i].kind = "notify"}

\* The modem's request arrives in a thread of LocApi.
requestNiNotifyEvent(emergency) ==
  /\ counter + Cardinality(Unseen) < MaxRequests
  /\ Post([kind |-> "notify", emergency |-> emergency])
  /\ UNCHANGED <<slot, counter, hasClient, answering, thread, informed, freed, given>>

\* The user answers, perhaps late or more than once, a request that was shown.
gnssNiResponse(r, response) ==
  /\ r <= counter /\ response \notin given[r]
  /\ Post([kind |-> "response", id |-> r, response |-> response])
  /\ given' = [given EXCEPT ![r] = @ \union {response}]
  /\ UNCHANGED <<slot, counter, hasClient, answering, thread, informed, freed>>

-----------------------------------------------------------------------------
(* The adapter's thread *)

Handling(kind) == answering = <<>> /\ msgQ # <<>> /\ Head(msgQ).kind = kind /\ msgQ' = Tail(msgQ)

\* The slot a request may use, or none if one is in progress.
SlotFor(emergency) ==
  IF emergency THEN {s \in {"sessionEs"} : slot[s].rawRequest = 0}
  ELSE {s \in {"session"} : \A t \in Slot : slot[t].rawRequest = 0}

\* A request that finds no slot is dropped; its payload is freed if a client could answer.
requestNiNotify ==
  LET free == SlotFor(Head(msgQ).emergency)
      r == counter + 1
  IN  /\ Handling("notify")
      /\ IF hasClient /\ free # {}
         THEN LET s == CHOOSE t \in free : TRUE IN
              /\ slot' = [slot EXCEPT ![s].rawRequest = r, ![s].reqID = r]
              /\ counter' = r
              /\ thread' = [thread EXCEPT ![r] = [NoThread EXCEPT !.pc = "waiting", !.slot = s]]
         ELSE UNCHANGED <<slot, counter, thread>>
      /\ UNCHANGED <<hasClient, answering, informed, freed, given>>

\* The slot a response is for, by its id; an accepted emergency request ignores the other.
Targets(id, response) ==
  LET Has(s) == slot[s].reqID = id /\ slot[s].rawRequest # 0 IN
  IF Has("sessionEs")
  THEN (IF response = "ACCEPT" /\ slot["session"].rawRequest # 0
        THEN <<[slot |-> "session", resp |-> "IGNORE"]>> ELSE <<>>)
       \o <<[slot |-> "sessionEs", resp |-> response]>>
  ELSE IF Has("session") THEN <<[slot |-> "session", resp |-> response]>>
  ELSE <<>>   \* ID_UNKNOWN

gnssNiResponseCommand ==
  /\ Handling("response")
  /\ answering' = IF hasClient THEN Targets(Head(msgQ).id, Head(msgQ).response) ELSE <<>>
  /\ UNCHANGED <<slot, counter, hasClient, thread, informed, freed, given>>

\* Under tLock: the response is stored and the thread woken, if it is still there.
StoreResponse ==
  /\ answering # <<>>
  /\ slot' = [slot EXCEPT ![Head(answering).slot].resp = Head(answering).resp,
                          ![Head(answering).slot].respRecvd = TRUE]
  /\ answering' = Tail(answering)
  /\ UNCHANGED <<counter, hasClient, msgQ, thread, informed, freed, given>>

\* MsgGnssNiResponse of the thread: the modem is informed, the destructor frees the payload.
informNiResponse ==
  /\ Handling("inform")
  /\ informed' = [informed EXCEPT ![Head(msgQ).raw] = Append(@, Head(msgQ).response)]
  /\ freed' = [freed EXCEPT ![Head(msgQ).raw] = @ + 1]
  /\ UNCHANGED <<slot, counter, hasClient, answering, thread, given>>

-----------------------------------------------------------------------------
(* The thread of a request: niThreadProc *)

\* Mutant: the payload stays in the slot.
Emptied_KeepsRequest(session, response) ==
  [session EXCEPT !.resp = response, !.respRecvd = FALSE]

\* A slot whose outcome the thread took
Emptied(session, response) ==
  [session EXCEPT !.resp = response, !.respRecvd = FALSE, !.rawRequest = 0]

\* What the thread does under tLock once it is woken or timed out
Collect(r, resp) ==
  LET s == thread[r].slot
      raw == slot[s].rawRequest
  IN  /\ slot' = [slot EXCEPT ![s] = Emptied(@, resp)]
      /\ thread' = [thread EXCEPT ![r].pc = "unlocked",
                                  ![r].send = IF raw # 0 THEN resp ELSE "IGNORE",
                                  ![r].raw = raw]
      /\ freed' = IF raw # 0 /\ resp = "IGNORE" THEN [freed EXCEPT ![raw] = @ + 1] ELSE freed
      /\ UNCHANGED <<counter, hasClient, msgQ, answering, informed, given>>

niThreadWoken(r) ==
  /\ thread[r].pc = "waiting" /\ slot[thread[r].slot].respRecvd
  /\ Collect(r, slot[thread[r].slot].resp)

\* Mutant: the thread waits for the user alone.
niThreadTimedOut_Never(r) == FALSE

\* The timeout also wins over a response that was stored before the thread has the lock again.
niThreadTimedOut(r) ==
  /\ thread[r].pc = "waiting"
  /\ Collect(r, "NO_RESPONSE")

\* After the unlock: whichever request the slot now has
niThreadClears(r) ==
  /\ thread[r].pc = "unlocked"
  /\ slot' = [slot EXCEPT ![thread[r].slot].reqID = 0]
  /\ thread' = [thread EXCEPT ![r].pc = IF thread[r].send = "IGNORE" THEN "done" ELSE "sending"]
  /\ UNCHANGED <<counter, hasClient, msgQ, answering, informed, freed, given>>

niThreadSends(r) ==
  /\ thread[r].pc = "sending"
  /\ msgQ' = Append(msgQ, [kind |-> "inform", raw |-> thread[r].raw, response |-> thread[r].send])
  /\ thread' = [thread EXCEPT ![r].pc = "done"]
  /\ UNCHANGED <<slot, counter, hasClient, answering, informed, freed, given>>

AdapterStep == requestNiNotify \/ gnssNiResponseCommand \/ StoreResponse \/ informNiResponse

ThreadStep(r) == niThreadWoken(r) \/ niThreadTimedOut(r) \/ niThreadClears(r) \/ niThreadSends(r)

Next ==
  \/ \E emergency \in BOOLEAN : requestNiNotifyEvent(emergency)
  \/ \E r \in Request, response \in Agrees : gnssNiResponse(r, response)
  \/ AdapterStep
  \/ \E r \in Request : ThreadStep(r)

\* The threads run and the wait of a thread ends by its timeout.
Fairness == WF_vars(AdapterStep) /\ \A r \in Request : WF_vars(ThreadStep(r))

Spec == Init /\ [][Next]_vars /\ Fairness

-----------------------------------------------------------------------------
(* Properties *)

\* The payload of a request is freed at most once and the modem told of it at most once,
\* although a timeout races the user's responses and an emergency request may cancel it
\* (GnssAdapter.cpp 1921-1929 and 2376-2408).
FreedOnce == \A r \in Request : freed[r] <= 1 /\ Len(informed[r]) <= freed[r]

\* A slot that has a request has the thread that waits for it, so the slot becomes free
\* again; otherwise all later requests of the modem would be dropped
\* (GnssAdapter.cpp 2387-2396 and 2429-2466).
PendingHasThread ==
  \A s \in Slot : slot[s].rawRequest # 0 =>
    thread[slot[s].rawRequest].pc = "waiting" /\ thread[slot[s].rawRequest].slot = s

\* Every request that was shown to the user comes to an end: the modem is told or the
\* request is ignored in favour of an emergency (GnssAdapter.cpp 2351-2410).
RequestEnds == \A r \in Request : (counter >= r) ~> (freed[r] = 1)
=============================================================================
