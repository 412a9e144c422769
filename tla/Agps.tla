-------------------------------- MODULE Agps --------------------------------
(***************************************************************************)
(* The AGPS manager of the location HAL (gps/gnss/Agps.cpp, Agps.h) and    *)
(* the part of GnssAdapter that feeds it (GnssAdapter.cpp 2697-3002).      *)
(*                                                                         *)
(* The modem asks the HAL for data links ("ATL") by connection handle.     *)
(* The HAL multiplexes the handles over three network interfaces (NIFs),   *)
(* one state machine each: AGNSS (SUPL) and INTERNET (WWAN_ANY), whose     *)
(* data connection the Android framework sets up, and DS (emergency SUPL), *)
(* whose data call the modem's data services client sets up.               *)
(*                                                                         *)
(* Every handler runs in the adapter's message thread, one message at a    *)
(* time: requests and reports from other threads are messages of its FIFO. *)
(* The exception is the retry timer of the DS machine, which runs in the   *)
(* timer thread and reads the subscriber list without a lock.              *)
(*                                                                         *)
(* Abstraction of the data: a subscriber list is a function from handles   *)
(* to the status of the subscriber with that handle (addSubscriber keeps a *)
(* handle from being listed twice), so "the first active subscriber" is    *)
(* any active one; APN names and bearers are left out.                     *)
(***************************************************************************)
EXTENDS Naturals, Sequences, FiniteSets

CONSTANTS
  Handles,          \* connection handles the modem uses
  Types,            \* [handle -> the AGPS types it asks for with it]
  UseEmergencyPdn,  \* gps.conf USE_EMERGENCY_PDN_FOR_EMERGENCY_SUPL
  MaxRetries,       \* MAX_START_DATA_CALL_RETRIES
  DsStart,          \* what openAndStartDataCall may return
  DsInit,           \* whether initDataServiceClient may succeed, may fail
  MaxOutstanding,   \* bound: messages and framework requests in flight
  MaxTimers         \* bound: retry timers armed at once

ASSUME HandlesAssumption == IsFiniteSet(Handles)
ASSUME TypesAssumption == Types \in [Handles -> SUBSET {"SUPL", "WWAN_ANY", "SUPL_ES"}]
ASSUME ConfAssumption ==
  /\ UseEmergencyPdn \in BOOLEAN
  /\ MaxRetries \in Nat
  /\ DsStart \subseteq {"SUCCESS", "BUSY", "UNSUPPORTED", "OTHER"}
  /\ DsInit \subseteq BOOLEAN
  /\ MaxOutstanding \in Nat /\ MaxTimers \in Nat

VARIABLES
  created,   \* the NIFs whose state machine exists
  mState,    \* [NIF -> AgpsState]
  subs,      \* [NIF -> [handle -> SubStatus]]: mSubscriberList
  mRetries,  \* DSStateMachine::mRetries
  msgQ,      \* the adapter's message queue
  timers,    \* armed retry timers
  retry,     \* handles the timer thread has read and not yet posted
  fwReq,     \* [NIF -> requests its connection provider has not served yet]
  conn,      \* [NIF -> is the data connection up, at its provider]
  modem      \* [handle -> the modem's view of its link]

vars == <<created, mState, subs, mRetries, msgQ, timers, retry, fwReq, conn, modem>>

-----------------------------------------------------------------------------
(* Types *)

Nif == {"AGNSS", "INTERNET", "DS"}
FrameworkNif == {"AGNSS", "INTERNET"}

AgpsState == {"RELEASED", "PENDING", "ACQUIRED", "RELEASING"}

\* AgpsSubscriber: "plain" and "wait" are active (mWaitForCloseComplete is set
\* for "wait"), "inactive" has mIsInactive set, "none" is not in the list.
SubStatus == {"none", "plain", "wait", "inactive"}
Active == {"plain", "wait"}

AgpsType == {"SUPL", "WWAN_ANY", "SUPL_ES"}
ModemView == {"idle", "opening", "open", "closing"}
Conn == {"REQUEST", "RELEASE"}

\* The LocMsg subclasses the AGPS manager gets: AgpsMsgRequestATL,
\* AgpsMsgReleaseATL, and the reports of the connection providers.
MsgRequestATL(h, t) == [msg |-> "RequestATL", h |-> h, type |-> t]
MsgReleaseATL(h) == [msg |-> "ReleaseATL", h |-> h]
Report(n, e) == [msg |-> "Report", nif |-> n, event |-> e]
RequestMsgs == {MsgRequestATL(h, t) : h \in Handles, t \in AgpsType}
Msg == RequestMsgs
         \cup {MsgReleaseATL(h) : h \in Handles}
         \cup {Report(n, e) : n \in Nif, e \in {"GRANTED", "RELEASED", "DENIED"}}

NoSubs == [h \in Handles |-> "none"]

ActiveIn(s) == {h \in Handles : s[h] \in Active}
InactiveIn(s) == {h \in Handles : s[h] = "inactive"}
ListedIn(s) == {h \in Handles : s[h] # "none"}

\* The orders in which the members of a finite set can stand in a list.
Orders(S) == {q \in [1..Cardinality(S) -> S] : \A i, j \in DOMAIN q : q[i] = q[j] => i = j}

TypeOK ==
  /\ created \subseteq Nif
  /\ mState \in [Nif -> AgpsState]
  /\ subs \in [Nif -> [Handles -> SubStatus]]
  /\ mRetries \in 0..MaxRetries
  /\ msgQ \in Seq(Msg)
  /\ timers \in Nat
  /\ retry \subseteq Handles
  /\ fwReq \in [Nif -> Seq(Conn)]
  /\ conn \in [Nif -> BOOLEAN]
  /\ modem \in [Handles -> ModemView]

Init ==
  /\ created = {}
  /\ mState = [n \in Nif |-> "RELEASED"]
  /\ subs = [n \in Nif |-> NoSubs]
  /\ mRetries = 0
  /\ msgQ = <<>>
  /\ timers = 0
  /\ retry = {}
  /\ fwReq = [n \in Nif |-> <<>>]
  /\ conn = [n \in Nif |-> FALSE]
  /\ modem = [h \in Handles |-> "idle"]

-----------------------------------------------------------------------------
(* The ATL status callbacks, as the modem sees them.  It ignores a status   *)
(* it is not waiting for; a close may also come unasked, when the           *)
(* connection is lost.                                                      *)

AfterOpenStatus(S, ok) ==
  [h \in Handles |-> IF h \in S /\ modem[h] = "opening"
                     THEN IF ok THEN "open" ELSE "idle"
                     ELSE modem[h]]

AfterCloseStatus(S) ==
  [h \in Handles |-> IF h \in S /\ modem[h] \in {"open", "closing"}
                     THEN "idle" ELSE modem[h]]

\* The handler of the first message is done, and has posted the messages `more`.
Consume(more) == msgQ' = Tail(msgQ) \o more

-----------------------------------------------------------------------------
(* requestOrReleaseDataConn *)

\* A busy data client is asked again while mRetries, counted up, is not above
\* MAX_START_DATA_CALL_RETRIES.  (Slip: one retry too many.)
RetriesLeft_OneMore == mRetries <= MaxRetries
RetriesLeft == mRetries < MaxRetries

\* DSStateMachine, request = true: `s` is the subscriber list, `ok` tells
\* whether it returns 0.  A busy client is retried by a timer up to MaxRetries
\* times; after that, and when there is no emergency profile, the subscriber
\* falls back to SUPL (notifyEventToSubscriber DENIED) and stays in the list.
\* loc_timer_start's non-null handle takes the error return: not 0 either way.
StartDataCall(s, ok) ==
  IF ActiveIn(s) = {}
  THEN /\ ok = FALSE
       /\ Consume(<<>>)
       /\ UNCHANGED <<fwReq, mRetries, timers>>
  ELSE \E h \in ActiveIn(s), r \in DsStart :
         LET again == r = "BUSY" /\ RetriesLeft
             fallback == r = "UNSUPPORTED" \/ (r = "BUSY" /\ ~RetriesLeft)
         IN /\ again => timers < MaxTimers
            /\ ok = (r = "SUCCESS")
            /\ fwReq' = IF ok THEN [fwReq EXCEPT !["DS"] = Append(@, "REQUEST")] ELSE fwReq
            /\ mRetries' = IF fallback THEN 0 ELSE IF again THEN mRetries + 1 ELSE mRetries
            /\ timers' = IF again THEN timers + 1 ELSE timers
            /\ Consume(IF fallback THEN <<MsgRequestATL(h, "SUPL")>> ELSE <<>>)

\* AgpsStateMachine::requestOrReleaseDataConn: what the framework is sent.
\* (Slip: the two status codes swapped.)
FrameworkStatus_Swapped(request) == IF request THEN "RELEASE" ELSE "REQUEST"
FrameworkStatus(request) == IF request THEN "REQUEST" ELSE "RELEASE"

RequestDataConn(n, s, ok) ==
  IF n = "DS"
  THEN StartDataCall(s, ok)
  ELSE /\ ok = TRUE
       /\ fwReq' = [fwReq EXCEPT ![n] = Append(@, FrameworkStatus(TRUE))]
       /\ Consume(<<>>)
       /\ UNCHANGED <<mRetries, timers>>

\* For the DS machine this is stopDataCall.
ReleaseDataConn(n) ==
  fwReq' = [fwReq EXCEPT ![n] = Append(@, IF n = "DS" THEN "RELEASE" ELSE FrameworkStatus(FALSE))]

-----------------------------------------------------------------------------
(* The events of a state machine.  Each operator is one processAgpsEvent... *)
(* method and sets every variable but created, retry and conn.              *)

transitionState(n, st) == mState' = [mState EXCEPT ![n] = st]

\* addSubscriber: a handle already listed keeps its subscriber.
WithSubscriber(n, h, kind) ==
  IF subs[n][h] = "none" THEN [subs[n] EXCEPT ![h] = kind] ELSE subs[n]

processAgpsEventSubscribe(n, h, kind) ==
  LET s == WithSubscriber(n, h, kind)
  IN /\ subs' = [subs EXCEPT ![n] = s]
     /\ \/ /\ mState[n] = "RELEASED"
           /\ \E ok \in BOOLEAN :
                /\ RequestDataConn(n, s, ok)
                /\ IF ok THEN transitionState(n, "PENDING") ELSE UNCHANGED mState
           /\ UNCHANGED modem
        \/ /\ mState[n] \in {"PENDING", "RELEASING"}
           /\ Consume(<<>>)
           /\ UNCHANGED <<mState, mRetries, timers, fwReq, modem>>
        \/ /\ mState[n] = "ACQUIRED"
           /\ modem' = AfterOpenStatus({h}, TRUE)
           /\ Consume(<<>>)
           /\ UNCHANGED <<mState, mRetries, timers, fwReq>>

\* What becomes of the subscriber that unsubscribes: it stays, inactive, if it
\* waits for the close.  (Slip: the others are not deleted.)
Unsubscribed_Kept(st) == IF st = "wait" THEN "inactive" ELSE st
Unsubscribed(st) == IF st \in {"wait", "inactive"} THEN "inactive" ELSE "none"

\* The state after it, `s` being the list then.  (Slip: only an empty list counts.)
StateWithout_OnlyEmpty(n, s) == IF ListedIn(s) = {} THEN "RELEASED" ELSE mState[n]
StateWithout(n, s) ==
  IF ListedIn(s) = {} THEN "RELEASED"
  ELSE IF ActiveIn(s) = {} THEN "RELEASING" ELSE mState[n]

\* Whether the connection is to be released.  (Slip: only for an empty list.)
NoMoreNeeded_OnlyEmpty(n, s) == mState[n] # "RELEASING" /\ ListedIn(s) = {}
NoMoreNeeded(n, s) == mState[n] # "RELEASING" /\ ActiveIn(s) = {}

processAgpsEventUnsubscribe(n, h) ==
  LET s == [subs[n] EXCEPT ![h] = Unsubscribed(@)]
  IN /\ Consume(<<>>)
     /\ UNCHANGED <<mRetries, timers>>
     /\ IF mState[n] = "RELEASED"
        THEN /\ modem' = AfterCloseStatus({h})
             /\ UNCHANGED <<subs, mState, fwReq>>
        ELSE /\ subs' = [subs EXCEPT ![n] = s]
             /\ modem' = IF s[h] = "inactive" THEN modem ELSE AfterCloseStatus({h})
             /\ transitionState(n, StateWithout(n, s))
             /\ IF NoMoreNeeded(n, s) THEN ReleaseDataConn(n) ELSE UNCHANGED fwReq

\* notifyAllSubscribers(GRANTED): the active ones.  (Slip: not those that wait
\* for the close.)
NotifiedOfGrant_Plain(n) == {h \in Handles : subs[n][h] = "plain"}
NotifiedOfGrant(n) == ActiveIn(subs[n])

processAgpsEventGranted(n) ==
  /\ Consume(<<>>)
  /\ UNCHANGED <<subs, mRetries, timers, fwReq>>
  /\ IF mState[n] = "PENDING"
     THEN /\ transitionState(n, "ACQUIRED")
          /\ modem' = AfterOpenStatus(NotifiedOfGrant(n), TRUE)
     ELSE UNCHANGED <<mState, modem>>

\* RELEASED or DENIED in state RELEASING: the inactive subscribers are told
\* and dropped; active ones that came meanwhile need the connection anew.  The
\* result of the request is ignored.
ConnectionGone(n) ==
  LET s == [h \in Handles |-> IF subs[n][h] = "inactive" THEN "none" ELSE subs[n][h]]
  IN /\ subs' = [subs EXCEPT ![n] = s]
     /\ modem' = AfterCloseStatus(InactiveIn(subs[n]))
     /\ IF ActiveIn(s) # {}
        THEN /\ transitionState(n, "PENDING")
             /\ \E ok \in BOOLEAN : RequestDataConn(n, s, ok)
        ELSE /\ transitionState(n, "RELEASED")
             /\ Consume(<<>>)
             /\ UNCHANGED <<fwReq, mRetries, timers>>

\* notifyAllSubscribers(RELEASED), forced: all are told and deleted.  (Slip: the
\* inactive ones only, as in RELEASING.)
NotifiedOfLoss_Inactive(n) == InactiveIn(subs[n])
NotifiedOfLoss(n) == ListedIn(subs[n])

\* The states in which RELEASED changes nothing.  (Slip: ACQUIRED is one.)
ReleasedIsNoop_Acquired == {"RELEASED", "PENDING", "ACQUIRED"}
ReleasedIsNoop == {"RELEASED", "PENDING"}

processAgpsEventReleased(n) ==
  IF mState[n] \in ReleasedIsNoop
  THEN /\ Consume(<<>>)
       /\ UNCHANGED <<mState, subs, modem, fwReq, mRetries, timers>>
  ELSE IF mState[n] = "RELEASING"
  THEN ConnectionGone(n)
  ELSE /\ transitionState(n, "RELEASED")
       /\ subs' = [subs EXCEPT ![n] =
                     [h \in Handles |-> IF h \in NotifiedOfLoss(n) THEN "none" ELSE @[h]]]
       /\ modem' = AfterCloseStatus(NotifiedOfLoss(n))
       /\ Consume(<<>>)
       /\ UNCHANGED <<fwReq, mRetries, timers>>

\* In PENDING every subscriber is told, inactive ones too.  The DS machine
\* tells it by posting a SUPL request in the subscriber's name.
processAgpsEventDenied(n) ==
  \/ /\ mState[n] = "PENDING"
     /\ transitionState(n, "RELEASED")
     /\ subs' = [subs EXCEPT ![n] = NoSubs]
     /\ IF n = "DS"
        THEN /\ \E q \in Orders(ListedIn(subs[n])) :
                  Consume([i \in DOMAIN q |-> MsgRequestATL(q[i], "SUPL")])
             /\ mRetries' = 0
             /\ UNCHANGED modem
        ELSE /\ modem' = AfterOpenStatus(ListedIn(subs[n]), FALSE)
             /\ Consume(<<>>)
             /\ UNCHANGED mRetries
     /\ UNCHANGED <<fwReq, timers>>
  \/ /\ mState[n] = "RELEASING"
     /\ ConnectionGone(n)
  \/ /\ mState[n] \in {"RELEASED", "ACQUIRED"}
     /\ Consume(<<>>)
     /\ UNCHANGED <<mState, subs, modem, fwReq, mRetries, timers>>

-----------------------------------------------------------------------------
(* AgpsManager: the handlers of the message thread *)

\* createAgpsStateMachines (the HAL is AGPS capable): the sets of machines
\* there may be afterwards; the DS machine needs its client initialised.
Creating ==
  IF UseEmergencyPdn /\ "DS" \notin created
  THEN {created \cup FrameworkNif \cup (IF ok THEN {"DS"} ELSE {}) : ok \in DsInit}
  ELSE {created \cup FrameworkNif}

\* getAgpsStateMachine
NifFor(t) ==
  CASE t = "SUPL" -> "AGNSS"
    [] t = "SUPL_ES" -> IF UseEmergencyPdn THEN "DS" ELSE "AGNSS"
    [] t = "WWAN_ANY" -> "INTERNET"

InitAgps ==
  /\ created = {}
  /\ created' \in Creating
  /\ UNCHANGED <<mState, subs, mRetries, msgQ, timers, retry, fwReq, conn, modem>>

IsNext(kind) == msgQ # <<>> /\ Head(msgQ).msg = kind

requestATL ==
  /\ IsNext("RequestATL")
  /\ LET h == Head(msgQ).h
         t == Head(msgQ).type
         n == NifFor(t)
     IN \E c \in IF n \in created THEN {created} ELSE Creating :
          /\ created' = c
          /\ IF n \in c
             THEN processAgpsEventSubscribe(n, h, IF t = "SUPL_ES" THEN "wait" ELSE "plain")
             ELSE /\ modem' = AfterOpenStatus({h}, FALSE)
                  /\ Consume(<<>>)
                  /\ UNCHANGED <<mState, subs, mRetries, timers, fwReq>>
  /\ UNCHANGED <<retry, conn>>

\* The machine a handle is released from: the first that lists it.
Holds(n, h) == n \in created /\ subs[n][h] # "none"

releaseATL ==
  /\ IsNext("ReleaseATL")
  /\ LET h == Head(msgQ).h
     IN IF Holds("AGNSS", h) THEN processAgpsEventUnsubscribe("AGNSS", h)
        ELSE IF Holds("INTERNET", h) THEN processAgpsEventUnsubscribe("INTERNET", h)
        ELSE IF Holds("DS", h) THEN processAgpsEventUnsubscribe("DS", h)
        ELSE /\ modem' = AfterCloseStatus({h})
             /\ Consume(<<>>)
             /\ UNCHANGED <<mState, subs, mRetries, timers, fwReq>>
  /\ UNCHANGED <<created, retry, conn>>

\* DSStateMachine::processAgpsEvent reads a RELEASED that comes while it is
\* PENDING as DENIED: its client reports failure and closure alike.  (Slip: it
\* does not.)
EventFor_Plain(n, e) == e
EventFor(n, e) ==
  IF n = "DS" /\ e = "RELEASED" /\ mState[n] = "PENDING" THEN "DENIED" ELSE e

\* reportAtlOpenSuccess, reportAtlClosed, reportAtlOpenFailed and, for the DS
\* machine, reportDataCallOpened and reportDataCallClosed.
report(e) ==
  /\ IsNext("Report")
  /\ LET n == Head(msgQ).nif
     IN /\ EventFor(n, Head(msgQ).event) = e
        /\ CASE e = "GRANTED" -> processAgpsEventGranted(n)
             [] e = "RELEASED" -> processAgpsEventReleased(n)
             [] e = "DENIED" -> processAgpsEventDenied(n)
  /\ UNCHANGED <<created, retry, conn>>

MsgThread ==
  \/ requestATL
  \/ releaseATL
  \/ report("GRANTED")
  \/ report("RELEASED")
  \/ report("DENIED")

-----------------------------------------------------------------------------
(* DSStateMachine::retryCallback, in the timer thread: it reads the first   *)
(* active subscriber, then posts a request in its name.  The message thread *)
(* can run between the two.                                                 *)

retryRead ==
  /\ timers > 0 /\ retry = {}
  /\ timers' = timers - 1
  /\ IF ActiveIn(subs["DS"]) = {}
     THEN UNCHANGED retry
     ELSE \E h \in ActiveIn(subs["DS"]) : retry' = {h}
  /\ UNCHANGED <<created, mState, subs, mRetries, msgQ, fwReq, conn, modem>>

retryPost ==
  /\ \E h \in retry : msgQ' = Append(msgQ, MsgRequestATL(h, "SUPL_ES"))
  /\ retry' = {}
  /\ UNCHANGED <<created, mState, subs, mRetries, timers, fwReq, conn, modem>>

-----------------------------------------------------------------------------
(* The modem and the connection providers (external) *)

InFlight == Len(msgQ) + Len(fwReq["AGNSS"]) + Len(fwReq["INTERNET"]) + Len(fwReq["DS"])

Names(m, h) == m.msg \in {"RequestATL", "ReleaseATL"} /\ m.h = h
Queued(h) == \E i \in DOMAIN msgQ : Names(msgQ[i], h)

\* Every link has a handle of its own; the model uses a handle again when the
\* HAL has no trace left of its last link.
Fresh(h) == ~Queued(h) /\ h \notin retry /\ \A n \in Nif : subs[n][h] = "none"

\* The modem is told to send requests by InitAgps (updateEvtMask).  It may
\* close a link that is not open yet.
ModemRequest(h, t) ==
  /\ created # {} /\ InFlight < MaxOutstanding
  /\ modem[h] = "idle" /\ Fresh(h)
  /\ modem' = [modem EXCEPT ![h] = "opening"]
  /\ msgQ' = Append(msgQ, MsgRequestATL(h, t))
  /\ UNCHANGED <<created, mState, subs, mRetries, timers, retry, fwReq, conn>>

ModemRelease(h) ==
  /\ InFlight < MaxOutstanding
  /\ modem[h] \in {"opening", "open"}
  /\ modem' = [modem EXCEPT ![h] = "closing"]
  /\ msgQ' = Append(msgQ, MsgReleaseATL(h))
  /\ UNCHANGED <<created, mState, subs, mRetries, timers, retry, fwReq, conn>>

\* A provider serves the requests of a NIF in order.  It reports the outcome
\* of every request to connect, and the end of every connection.
ProviderConnects(n, up) ==
  /\ fwReq[n] # <<>> /\ Head(fwReq[n]) = "REQUEST"
  /\ conn[n] => up
  /\ fwReq' = [fwReq EXCEPT ![n] = Tail(@)]
  /\ conn' = [conn EXCEPT ![n] = up]
  /\ msgQ' = Append(msgQ, Report(n, IF up THEN "GRANTED"
                                    ELSE IF n = "DS" THEN "RELEASED" ELSE "DENIED"))
  /\ UNCHANGED <<created, mState, subs, mRetries, timers, retry, modem>>

ProviderReleases(n) ==
  /\ fwReq[n] # <<>> /\ Head(fwReq[n]) = "RELEASE"
  /\ fwReq' = [fwReq EXCEPT ![n] = Tail(@)]
  /\ conn' = [conn EXCEPT ![n] = FALSE]
  /\ msgQ' = IF conn[n] THEN Append(msgQ, Report(n, "RELEASED")) ELSE msgQ
  /\ UNCHANGED <<created, mState, subs, mRetries, timers, retry, modem>>

ConnectionLost(n) ==
  /\ conn[n] /\ InFlight < MaxOutstanding
  /\ conn' = [conn EXCEPT ![n] = FALSE]
  /\ msgQ' = Append(msgQ, Report(n, "RELEASED"))
  /\ UNCHANGED <<created, mState, subs, mRetries, timers, retry, fwReq, modem>>

Provider(n) == (\E up \in BOOLEAN : ProviderConnects(n, up)) \/ ProviderReleases(n)

-----------------------------------------------------------------------------
Next ==
  \/ InitAgps
  \/ MsgThread
  \/ retryRead
  \/ retryPost
  \/ \E h \in Handles : \E t \in Types[h] : ModemRequest(h, t)
  \/ \E h \in Handles : ModemRelease(h)
  \/ \E n \in Nif : Provider(n) \/ ConnectionLost(n)

Spec == Init /\ [][Next]_vars

\* The message thread runs while there are messages, an armed timer expires,
\* and a provider serves what it is asked for.
Fairness ==
  /\ WF_vars(MsgThread)
  /\ WF_vars(retryRead) /\ WF_vars(retryPost)
  /\ \A n \in Nif : WF_vars(Provider(n))

FairSpec == Spec /\ Fairness

-----------------------------------------------------------------------------
(* Properties *)

Reported(n, E) == \E i \in DOMAIN msgQ : \E e \in E : msgQ[i] = Report(n, e)
Asked(n, c) == \E i \in DOMAIN fwReq[n] : fwReq[n][i] = c

\* A machine that waits for a connection or has one (PENDING, ACQUIRED) has a
\* subscriber that wants it; one that waits for the connection to close
\* (RELEASING) has a subscriber waiting for that; and no subscriber waits for a
\* close in a machine that is RELEASED.  This is what the early exits of
\* processAgpsEventUnsubscribe and the branches of processAgpsEventReleased and
\* processAgpsEventDenied keep up.
StateMatchesSubscribers ==
  \A n \in Nif :
    /\ mState[n] \in {"PENDING", "ACQUIRED"} => ActiveIn(subs[n]) # {}
    /\ mState[n] = "RELEASING" => InactiveIn(subs[n]) # {}
    /\ mState[n] = "RELEASED" => InactiveIn(subs[n]) = {}

\* "Subscriber list should be empty if we are in released state"
\* (Agps.cpp, processAgpsEventReleased): it is so for the two machines the
\* framework serves.  No subscriber is forgotten in a machine that asks for
\* nothing.
FrameworkReleasedIsEmpty ==
  \A n \in FrameworkNif : mState[n] = "RELEASED" => ListedIn(subs[n]) = {}

\* "Already requested for data connection, do nothing until we get RSRC_GRANTED
\* event": in PENDING an outcome is still to come, so new subscribers may wait.
\* (RELEASED is an outcome for the DS machine only.)
PendingOutcomeComing(nifs) ==
  \A n \in nifs :
    mState[n] = "PENDING" =>
      \/ Asked(n, "REQUEST")
      \/ Reported(n, {"GRANTED", "DENIED"} \cup (IF n = "DS" THEN {"RELEASED"} ELSE {}))

\* It is so for the machines of the framework, whatever reports of earlier
\* requests are still queued.
FrameworkPendingHasRequest == PendingOutcomeComing(FrameworkNif)

\* The same for every machine.
PendingHasRequest == PendingOutcomeComing(Nif)

\* A machine believes it has a connection only while the connection is up or
\* the report of its end is queued: subscribers are not granted a connection
\* that was torn down unnoticed.
AcquiredIsBacked ==
  \A n \in Nif :
    mState[n] = "ACQUIRED" => conn[n] \/ Reported(n, {"RELEASED"})

\* A machine of the framework waits in RELEASING only while a report that ends
\* the wait is queued or is sure to come: for a release not served yet, of a
\* connection that is up or still being set up.
ReleasingWillEnd ==
  \A n \in FrameworkNif :
    mState[n] = "RELEASING" =>
      \/ Reported(n, {"RELEASED", "DENIED"})
      \/ \E i \in DOMAIN fwReq[n] :
           /\ fwReq[n][i] = "RELEASE"
           /\ conn[n] \/ \E j \in 1..(i - 1) : fwReq[n][j] = "REQUEST"

\* The HAL and the modem agree on the links: a subscriber is active only for a
\* link the modem wants, or whose release is queued; and an open link is an
\* active subscriber of a machine that has the connection.
LinkAgreement ==
  \A h \in Handles :
    /\ \A n \in Nif : subs[n][h] \in Active =>
         \/ modem[h] \in {"opening", "open"}
         \/ \E i \in DOMAIN msgQ : msgQ[i] = MsgReleaseATL(h)
    /\ modem[h] = "open" =>
         \E n \in Nif : mState[n] = "ACQUIRED" /\ subs[n][h] \in Active

\* "Does this subscriber wait for data call close complete, before being
\* notified ATL close ? While waiting for data call close, subscriber will be
\* in inactive state" (Agps.h, AgpsSubscriber): a link the modem is closing has
\* its release queued or an inactive subscriber waiting.
ClosingIsWaiting ==
  \A h \in Handles :
    modem[h] = "closing" =>
      \/ \E i \in DOMAIN msgQ : msgQ[i] = MsgReleaseATL(h)
      \/ \E n \in Nif : subs[n][h] = "inactive"

\* Every request for a link is answered in the end, unless the modem gives it up.
OpenAnswered ==
  \A h \in Handles : modem[h] = "opening" ~> modem[h] # "opening"
=============================================================================
