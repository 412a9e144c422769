-------------------------------- MODULE Odcpi --------------------------------
(***************************************************************************)
(* On-demand coarse position injection (gps/gnss/GnssAdapter.cpp           *)
(* 2540-2695, OdcpiTimer of GnssAdapter.h).                                *)
(*                                                                         *)
(* The modem starts and stops requests for a coarse position, at times in  *)
(* quick succession.  The adapter passes the first one to the framework    *)
(* and then lets a timer of ten seconds decide: while a request is active  *)
(* at its expiry the framework is asked again.  The timer runs in the      *)
(* thread of LocTimer and expires by a message to the adapter's queue, so  *)
(* that an expiry may be handled after the timer was restarted.            *)
(*                                                                         *)
(* Events of the modem, of the framework and of the timer come from three  *)
(* threads; each is a message, handled in the order of the queue.          *)
(***************************************************************************)
EXTENDS Naturals, Sequences

CONSTANT MaxQueue  \* bound: messages that the modem and the framework leave in the queue

VARIABLES
  odcpiRequestCb,      \* mOdcpiRequestCb is set
  odcpiRequestActive,  \* mOdcpiRequestActive
  odcpiRequest,        \* mOdcpiRequest.isEmergencyMode
  timerActive,         \* mOdcpiTimer.mActive
  timerRunning,        \* the LocTimer base object runs
  msgQ,                \* the adapter's queue
  asked                \* the isEmergencyMode the framework was last asked with

vars == <<odcpiRequestCb, odcpiRequestActive, odcpiRequest, timerActive,
          timerRunning, msgQ, asked>>

-----------------------------------------------------------------------------
Init ==
  /\ odcpiRequestCb = FALSE
  /\ odcpiRequestActive = FALSE
  /\ odcpiRequest = FALSE
  /\ timerActive = FALSE
  /\ timerRunning = FALSE
  /\ msgQ = <<>>
  /\ asked = FALSE

\* What is posted: the command of the framework, the requests of the modem, the
\* modem's restart, and an injected position.
Command ==
  [kind : {"init", "stop", "restart", "inject"}] \union
  [kind : {"start"}, isEmergencyMode : BOOLEAN]

Post(msg) ==
  /\ Len(msgQ) < MaxQueue
  /\ msgQ' = Append(msgQ, msg)
  /\ UNCHANGED <<odcpiRequestCb, odcpiRequestActive, odcpiRequest, timerActive,
                 timerRunning, asked>>

\* The expiry of the timer, in its own thread.  mActive stays as it is.
timeOutCallback ==
  /\ timerRunning
  /\ timerRunning' = FALSE
  /\ msgQ' = Append(msgQ, [kind |-> "expire"])
  /\ UNCHANGED <<odcpiRequestCb, odcpiRequestActive, odcpiRequest, timerActive, asked>>

Handle(kind) == msgQ # <<>> /\ Head(msgQ).kind = kind /\ msgQ' = Tail(msgQ)

\* start() and restart() leave the timer running: a LocTimer that already runs
\* ignores start(), and restart() stops it first.
StartTimer == timerActive' = TRUE /\ timerRunning' = TRUE
StopTimer == timerActive' = FALSE /\ timerRunning' = FALSE

initOdcpi ==
  /\ Handle("init")
  /\ odcpiRequestCb' = TRUE
  /\ UNCHANGED <<odcpiRequestActive, odcpiRequest, timerActive, timerRunning, asked>>

\* ODCPI_REQUEST_TYPE_START.
FirstRequest == ~odcpiRequestActive /\ ~timerActive
\* Mutant: an emergency request is passed on at once only when no request is active.
EscalatesIfIdle(emergency) == ~odcpiRequestActive /\ ~odcpiRequest /\ emergency
Escalates(emergency) == ~odcpiRequest /\ emergency

reportOdcpiRequestStart ==
  LET emergency == Head(msgQ).isEmergencyMode IN
  /\ Handle("start")
  /\ IF odcpiRequestCb
     THEN /\ odcpiRequestActive' = TRUE
          /\ odcpiRequest' = emergency
          /\ IF FirstRequest \/ Escalates(emergency)
             THEN asked' = emergency /\ StartTimer
             ELSE UNCHANGED <<asked, timerActive, timerRunning>>
     ELSE UNCHANGED <<odcpiRequestActive, odcpiRequest, asked, timerActive, timerRunning>>
  /\ UNCHANGED odcpiRequestCb

reportOdcpiRequestStop ==
  /\ Handle("stop")
  /\ odcpiRequestActive' = (odcpiRequestActive /\ ~odcpiRequestCb)
  /\ UNCHANGED <<odcpiRequestCb, odcpiRequest, timerActive, timerRunning, asked>>

\* restartSessions, the part about ODCPI: the modem forgot its request.
restartSessions ==
  /\ Handle("restart")
  /\ odcpiRequestActive' = FALSE
  /\ UNCHANGED <<odcpiRequestCb, odcpiRequest, timerActive, timerRunning, asked>>

\* A position of the framework goes straight to the modem.
injectOdcpi ==
  /\ Handle("inject")
  /\ UNCHANGED <<odcpiRequestCb, odcpiRequestActive, odcpiRequest, timerActive,
                 timerRunning, asked>>

\* Mutant: the framework is asked again, but the timer is not restarted.
AskOnce == asked' = odcpiRequest /\ timerActive' = TRUE /\ UNCHANGED timerRunning
AskAgain == asked' = odcpiRequest /\ StartTimer

odcpiTimerExpire ==
  /\ Handle("expire")
  /\ \/ odcpiRequestActive /\ AskAgain
     \/ ~odcpiRequestActive /\ StopTimer /\ UNCHANGED asked
  /\ UNCHANGED <<odcpiRequestCb, odcpiRequestActive, odcpiRequest>>

Handler ==
  \/ initOdcpi
  \/ reportOdcpiRequestStart
  \/ reportOdcpiRequestStop
  \/ restartSessions
  \/ injectOdcpi
  \/ odcpiTimerExpire

Next ==
  \/ \E msg \in Command : Post(msg)
  \/ timeOutCallback
  \/ Handler

Spec == Init /\ [][Next]_vars /\ WF_vars(timeOutCallback) /\ WF_vars(Handler)

-----------------------------------------------------------------------------
(* Properties                                                              *)

\* What the adapter holds is of the declared types.
TypeOK ==
  /\ {odcpiRequestCb, odcpiRequestActive, odcpiRequest, timerActive,
      timerRunning, asked} \subseteq BOOLEAN
  /\ msgQ \in Seq(Command \union [kind : {"expire"}])

\* An active request is watched: the timer runs or its expiry is in the queue,
\* so that the framework will be asked again; and an emergency request that is
\* active was passed on as an emergency, whatever requests came before it and
\* whatever expiry was under way.
RequestIsWatched ==
  odcpiRequestActive =>
    /\ timerActive
    /\ timerRunning \/ \E i \in DOMAIN msgQ : msgQ[i].kind = "expire"
    /\ odcpiRequest => asked

\* A request that stays active is renewed again and again.
RequestIsRenewed ==
  (<>[]odcpiRequestActive) => []<><<odcpiTimerExpire>>_vars

=============================================================================
