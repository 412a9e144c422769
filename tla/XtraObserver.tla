---------------------------- MODULE XtraObserver ----------------------------
(***************************************************************************)
(* What the HAL tells the XTRA daemon (gps/gnss/XtraSystemStatusObserver,  *)
(* over LocIpc): it keeps its own copy of the lock, the connections, the   *)
(* TAC and the MCC/MNC, sends changes once the daemon has asked for the    *)
(* status, and answers a status request with all of them.  A datagram to   *)
(* a daemon that is not listening is lost; the daemon (external) forgets   *)
(* everything when it restarts and then asks again.                        *)
(***************************************************************************)
EXTENDS Integers

CONSTANTS
  Fields,      \* {"gpslock", "connection", "tac", "mncmcc"}: in the answer
  Values,      \* what a field may say
  Unset,       \* its initial value
  MaxUpdates,  \* bound: updates
  MaxRestarts  \* bound: starts of the daemon

Throttle == "xtrathrottle"     \* not in the answer

VARIABLES
  mine,        \* [Fields \union {Throttle} -> value]: mGpsLock, mConnections, ...
  mReqStatusReceived,
  daemon,      \* the daemon: does it listen, and what does it know?
  asking,      \* the status requests on their way: their argument
  synced,      \* has this daemon been answered?
  updates, restarts

vars == <<mine, mReqStatusReceived, daemon, asking, synced, updates, restarts>>

AllFields == Fields \union {Throttle}
Blank == [f \in AllFields |-> Unset]

Init ==
  /\ mine = Blank /\ mReqStatusReceived = FALSE
  /\ daemon = [up |-> FALSE, knows |-> Blank]
  /\ asking = {} /\ synced = FALSE /\ updates = 0 /\ restarts = 0

\* send(LOC_IPC_XTRA, ...): what a daemon knows after it is sent the fields
Sent(fields, values) ==
  IF daemon.up
  THEN [daemon EXCEPT !.knows = [f \in AllFields |-> IF f \in fields THEN values[f] ELSE @[f]]]
  ELSE daemon

\* updateLockStatus, updateConnections, updateTac, updateMccMnc and updateXtraThrottle
update(f, v) ==
  /\ updates < MaxUpdates /\ updates' = updates + 1
  /\ mine' = [mine EXCEPT ![f] = v]
  /\ daemon' = IF mReqStatusReceived THEN Sent({f}, mine') ELSE daemon
  /\ UNCHANGED <<mReqStatusReceived, asking, synced, restarts>>

\* The data items the observer has subscribed to
notify == \E f \in {"connection", "tac", "mncmcc"} \intersect Fields, v \in Values : update(f, v)

\* Mutant: the status is sent at the first request only.
onStatusRequested_First(hasIt) ==
  /\ hasIt \in asking /\ asking' = asking \ {hasIt}
  /\ mReqStatusReceived' = TRUE
  /\ daemon' = IF hasIt \/ mReqStatusReceived THEN daemon ELSE Sent(Fields, mine)
  /\ synced' = (synced \/ (~hasIt /\ daemon.up))
  /\ UNCHANGED <<mine, updates, restarts>>

\* onStatusRequested, for a request that says whether the daemon has the status already
onStatusRequested(hasIt) ==
  /\ hasIt \in asking /\ asking' = asking \ {hasIt}
  /\ mReqStatusReceived' = TRUE
  /\ daemon' = IF hasIt THEN daemon ELSE Sent(Fields, mine)
  /\ synced' = (synced \/ (~hasIt /\ daemon.up))
  /\ UNCHANGED <<mine, updates, restarts>>

\* The daemon starts and asks for the status; it asks again, saying it has it, when the HAL
\* announces itself
DaemonStarts ==
  /\ ~daemon.up /\ restarts < MaxRestarts /\ restarts' = restarts + 1
  /\ daemon' = [up |-> TRUE, knows |-> Blank]
  /\ asking' = {FALSE} /\ synced' = FALSE
  /\ UNCHANGED <<mine, mReqStatusReceived, updates>>

DaemonAsksAgain ==
  /\ daemon.up /\ synced /\ asking' = asking \union {TRUE}
  /\ UNCHANGED <<mine, mReqStatusReceived, daemon, synced, updates, restarts>>

\* A request of a daemon that has died may still be on its way
DaemonStops ==
  /\ daemon.up /\ daemon' = [daemon EXCEPT !.up = FALSE] /\ synced' = FALSE
  /\ UNCHANGED <<mine, mReqStatusReceived, asking, updates, restarts>>

Next ==
  \/ \E f \in AllFields \ {"connection", "tac", "mncmcc"}, v \in Values : update(f, v)
  \/ notify
  \/ \E hasIt \in BOOLEAN : onStatusRequested(hasIt)
  \/ DaemonStarts \/ DaemonAsksAgain \/ DaemonStops

Spec == Init /\ [][Next]_vars

-----------------------------------------------------------------------------
(* Properties *)

\* A daemon that has been answered knows the lock, the connections, the TAC and the MCC/MNC
\* as they are, whether they changed before the HAL was first asked, between a crash of the
\* daemon and its next request, or after (onStatusRequested and the update functions).
DaemonIsCurrent == synced /\ daemon.up => \A f \in Fields : daemon.knows[f] = mine[f]
=============================================================================
