----------------------------- MODULE AgpsProofs -----------------------------
(***************************************************************************)
(* Theorems about the AGPS manager, for any set of handles, any request    *)
(* types, with and without the emergency PDN, and any retry limit.         *)
(***************************************************************************)
EXTENDS Agps, TLAPS, FiniteSetTheorems, SequenceTheorems

\* The part of TypeOK a handler of the message thread can change.
HandlerTypeOK ==
  /\ mState \in [Nif -> AgpsState]
  /\ subs \in [Nif -> [Handles -> SubStatus]]
  /\ mRetries \in 0..MaxRetries
  /\ msgQ \in Seq(Msg)
  /\ timers \in Nat
  /\ fwReq \in [Nif -> Seq(Conn)]
  /\ modem \in [Handles -> ModemView]

-----------------------------------------------------------------------------
(* The operators the handlers are built from keep their types. *)

\* The status callbacks leave the modem with one of its four views of a link.
LEMMA StatusType ==
  ASSUME modem \in [Handles -> ModemView], NEW S, NEW ok \in BOOLEAN
  PROVE  /\ AfterOpenStatus(S, ok) \in [Handles -> ModemView]
         /\ AfterCloseStatus(S) \in [Handles -> ModemView]
  BY DEF AfterOpenStatus, AfterCloseStatus, ModemView

\* Handling the first message and posting others leaves a queue of messages.
LEMMA ConsumeType ==
  ASSUME msgQ \in Seq(Msg), msgQ # <<>>, NEW more \in Seq(Msg), Consume(more)
  PROVE  msgQ' \in Seq(Msg)
  BY DEF Consume

\* The messages of the queue, by construction.
LEMMA MessageTypes ==
  /\ \A h \in Handles, t \in AgpsType : MsgRequestATL(h, t) \in Msg
  /\ \A h \in Handles : MsgReleaseATL(h) \in Msg
  /\ \A n \in Nif, e \in {"GRANTED", "RELEASED", "DENIED"} : Report(n, e) \in Msg
  BY DEF Msg, RequestMsgs

\* A queue that starts with a message of a kind starts with one of that shape.
LEMMA HeadTypes ==
  ASSUME msgQ \in Seq(Msg), NEW kind, IsNext(kind)
  PROVE  /\ msgQ # <<>>
         /\ kind = "RequestATL" => Head(msgQ).h \in Handles /\ Head(msgQ).type \in AgpsType
         /\ kind = "ReleaseATL" => Head(msgQ).h \in Handles
         /\ kind = "Report" => /\ Head(msgQ).nif \in Nif
                               /\ Head(msgQ).event \in {"GRANTED", "RELEASED", "DENIED"}
  <1>1. msgQ # <<>> /\ Head(msgQ) \in Msg /\ Head(msgQ).msg = kind
    BY DEF IsNext
  <1> QED
    BY <1>1 DEF Msg, RequestMsgs, MsgRequestATL, MsgReleaseATL, Report

\* What the orders of a finite set of handles look like as message sequences.
LEMMA FallbackType ==
  ASSUME NEW S \in SUBSET Handles, NEW q \in Orders(S)
  PROVE  [i \in DOMAIN q |-> MsgRequestATL(q[i], "SUPL")] \in Seq(Msg)
  <1>1. IsFiniteSet(S)
    BY HandlesAssumption, FS_Subset
  <1>2. Cardinality(S) \in Nat
    BY <1>1, FS_CardinalityType
  <1>3. q \in [1..Cardinality(S) -> S]
    BY DEF Orders
  <1>4. \A i \in 1..Cardinality(S) : MsgRequestATL(q[i], "SUPL") \in Msg
    BY <1>3, MessageTypes DEF AgpsType
  <1> QED
    BY <1>2, <1>3, <1>4

-----------------------------------------------------------------------------
(* Each event of a state machine keeps the types. *)

\* One more request leaves the provider's queue well typed.
LEMMA AskType ==
  ASSUME TypeOK, NEW n \in Nif
  PROVE  [fwReq EXCEPT ![n] = Append(@, "REQUEST")] \in [Nif -> Seq(Conn)]
  <1>1. fwReq[n] \in Seq(Conn) /\ "REQUEST" \in Conn
    BY DEF TypeOK, Conn
  <1>2. Append(fwReq[n], "REQUEST") \in Seq(Conn)
    BY <1>1
  <1> QED
    BY <1>2 DEF TypeOK

\* Asking for a connection changes the queues, the retry count and the timers.
LEMMA RequestType ==
  ASSUME TypeOK, msgQ # <<>>, NEW n \in Nif, NEW s \in [Handles -> SubStatus],
         NEW ok \in BOOLEAN, RequestDataConn(n, s, ok)
  PROVE  /\ msgQ' \in Seq(Msg) /\ fwReq' \in [Nif -> Seq(Conn)]
         /\ mRetries' \in 0..MaxRetries /\ timers' \in Nat
  <1>1. <<>> \in Seq(Msg)
    OBVIOUS
  <1>2. CASE n # "DS"
    <2>1. msgQ' \in Seq(Msg)
      BY <1>1, <1>2, ConsumeType DEF RequestDataConn, TypeOK
    <2>2. fwReq' = [fwReq EXCEPT ![n] = Append(@, "REQUEST")]
      BY <1>2 DEF RequestDataConn, FrameworkStatus
    <2>3. fwReq' \in [Nif -> Seq(Conn)]
      BY <2>2, AskType
    <2> QED
      BY <1>2, <2>1, <2>3 DEF RequestDataConn, TypeOK
  <1>3. CASE n = "DS" /\ ActiveIn(s) = {}
    BY <1>1, <1>3, ConsumeType DEF RequestDataConn, StartDataCall, TypeOK
  <1>4. CASE n = "DS" /\ ActiveIn(s) # {}
    <2>1. PICK h \in ActiveIn(s), r \in DsStart :
            LET again == r = "BUSY" /\ RetriesLeft
                fallback == r = "UNSUPPORTED" \/ (r = "BUSY" /\ ~RetriesLeft)
            IN /\ fwReq' = IF ok THEN [fwReq EXCEPT !["DS"] = Append(@, "REQUEST")] ELSE fwReq
               /\ mRetries' = IF fallback THEN 0 ELSE IF again THEN mRetries + 1 ELSE mRetries
               /\ timers' = IF again THEN timers + 1 ELSE timers
               /\ Consume(IF fallback THEN <<MsgRequestATL(h, "SUPL")>> ELSE <<>>)
      BY <1>4 DEF RequestDataConn, StartDataCall
    <2>2. MsgRequestATL(h, "SUPL") \in Msg
      BY MessageTypes DEF ActiveIn, AgpsType
    <2>3. msgQ' \in Seq(Msg)
      <3>1. CASE r = "UNSUPPORTED" \/ (r = "BUSY" /\ ~RetriesLeft)
        <4>1. <<MsgRequestATL(h, "SUPL")>> \in Seq(Msg)
          BY <2>2
        <4> QED
          BY <2>1, <3>1, <4>1, ConsumeType DEF TypeOK
      <3>2. CASE ~(r = "UNSUPPORTED" \/ (r = "BUSY" /\ ~RetriesLeft))
        BY <1>1, <2>1, <3>2, ConsumeType DEF TypeOK
      <3> QED
        BY <3>1, <3>2
    <2>4. fwReq' \in [Nif -> Seq(Conn)]
      <3>1. fwReq' \in {fwReq, [fwReq EXCEPT !["DS"] = Append(@, "REQUEST")]}
        BY <2>1
      <3>2. "DS" \in Nif
        BY DEF Nif
      <3> QED
        BY <3>1, <3>2, AskType DEF TypeOK
    <2>5. mRetries' \in 0..MaxRetries /\ timers' \in Nat
      BY <2>1, ConfAssumption DEF TypeOK, RetriesLeft
    <2> QED
      BY <2>3, <2>4, <2>5
  <1> QED
    BY <1>2, <1>3, <1>4

\* A release request leaves the provider's queue well typed.
LEMMA ReleaseType ==
  ASSUME TypeOK, NEW n \in Nif, ReleaseDataConn(n)
  PROVE  fwReq' \in [Nif -> Seq(Conn)]
  BY DEF ReleaseDataConn, FrameworkStatus, TypeOK, Conn

\* SUBSCRIBE keeps the types.
LEMMA SubscribeType ==
  ASSUME TypeOK, msgQ # <<>>, NEW n \in Nif, NEW h \in Handles, NEW kind \in Active,
         processAgpsEventSubscribe(n, h, kind)
  PROVE  HandlerTypeOK'
  <1> DEFINE s == WithSubscriber(n, h, kind)
  <1>1. s \in [Handles -> SubStatus] /\ subs' \in [Nif -> [Handles -> SubStatus]]
    BY DEF processAgpsEventSubscribe, WithSubscriber, TypeOK, SubStatus, Active
  <1>2. <<>> \in Seq(Msg)
    OBVIOUS
  <1>3. CASE mState[n] = "RELEASED"
    <2>1. PICK ok \in BOOLEAN :
            /\ RequestDataConn(n, s, ok)
            /\ IF ok THEN transitionState(n, "PENDING") ELSE UNCHANGED mState
      BY <1>3 DEF processAgpsEventSubscribe
    <2>2. /\ msgQ' \in Seq(Msg) /\ fwReq' \in [Nif -> Seq(Conn)]
          /\ mRetries' \in 0..MaxRetries /\ timers' \in Nat
      BY <1>1, <2>1, RequestType
    <2>3. modem' = modem
      BY <1>3 DEF processAgpsEventSubscribe
    <2>4. mState' \in [Nif -> AgpsState]
      BY <2>1 DEF transitionState, TypeOK, AgpsState
    <2> QED
      BY <1>1, <2>2, <2>3, <2>4 DEF HandlerTypeOK, TypeOK
  <1>4. CASE mState[n] # "RELEASED"
    <2>1. Consume(<<>>) /\ UNCHANGED <<mState, mRetries, timers, fwReq>>
      BY <1>4 DEF processAgpsEventSubscribe
    <2>2. modem' \in [Handles -> ModemView]
      <3>1. modem' \in {modem, AfterOpenStatus({h}, TRUE)}
        BY <1>4 DEF processAgpsEventSubscribe
      <3> QED
        BY <3>1, StatusType DEF TypeOK
    <2>3. msgQ' \in Seq(Msg)
      BY <1>2, <2>1, ConsumeType DEF TypeOK
    <2> QED
      BY <1>1, <2>1, <2>2, <2>3 DEF HandlerTypeOK, TypeOK
  <1> QED
    BY <1>3, <1>4

\* UNSUBSCRIBE keeps the types.
LEMMA UnsubscribeType ==
  ASSUME TypeOK, msgQ # <<>>, NEW n \in Nif, NEW h \in Handles,
         processAgpsEventUnsubscribe(n, h)
  PROVE  HandlerTypeOK'
  <1> DEFINE s == [subs[n] EXCEPT ![h] = Unsubscribed(@)]
  <1>1. Consume(<<>>) /\ UNCHANGED <<mRetries, timers>>
    BY DEF processAgpsEventUnsubscribe
  <1>2. msgQ' \in Seq(Msg)
    <2>1. <<>> \in Seq(Msg)
      OBVIOUS
    <2> QED
      BY <1>1, <2>1, ConsumeType DEF TypeOK
  <1>3. modem' \in [Handles -> ModemView]
    <2>1. modem' \in {modem, AfterCloseStatus({h})}
      BY DEF processAgpsEventUnsubscribe
    <2> QED
      BY <2>1, StatusType DEF TypeOK
  <1>4. s \in [Handles -> SubStatus]
    BY DEF TypeOK, SubStatus, Unsubscribed
  <1>5. subs' \in [Nif -> [Handles -> SubStatus]]
    BY <1>4 DEF processAgpsEventUnsubscribe, TypeOK
  <1>6. mState' \in [Nif -> AgpsState]
    BY <1>4 DEF processAgpsEventUnsubscribe, TypeOK, transitionState, StateWithout, AgpsState
  <1>7. fwReq' \in [Nif -> Seq(Conn)]
    <2>1. CASE fwReq' = fwReq
      BY <2>1 DEF TypeOK
    <2>2. CASE ReleaseDataConn(n)
      BY <2>2, ReleaseType
    <2> QED
      BY <2>1, <2>2 DEF processAgpsEventUnsubscribe
  <1> QED
    BY <1>1, <1>2, <1>3, <1>5, <1>6, <1>7 DEF HandlerTypeOK, TypeOK

\* GRANTED keeps the types.
LEMMA GrantedType ==
  ASSUME TypeOK, msgQ # <<>>, NEW n \in Nif, processAgpsEventGranted(n)
  PROVE  HandlerTypeOK'
  <1>1. <<>> \in Seq(Msg)
    OBVIOUS
  <1>2. msgQ' \in Seq(Msg)
    BY <1>1, ConsumeType DEF processAgpsEventGranted, TypeOK
  <1>3. modem' \in [Handles -> ModemView]
    <2>1. modem' \in {modem, AfterOpenStatus(NotifiedOfGrant(n), TRUE)}
      BY DEF processAgpsEventGranted
    <2> QED
      BY <2>1, StatusType DEF TypeOK
  <1>4. mState' \in [Nif -> AgpsState]
    BY DEF processAgpsEventGranted, transitionState, TypeOK, AgpsState
  <1> QED
    BY <1>2, <1>3, <1>4 DEF processAgpsEventGranted, HandlerTypeOK, TypeOK

\* The end of RELEASING keeps the types.
LEMMA ConnectionGoneType ==
  ASSUME TypeOK, msgQ # <<>>, NEW n \in Nif, ConnectionGone(n)
  PROVE  HandlerTypeOK'
  <1> DEFINE s == [h \in Handles |-> IF subs[n][h] = "inactive" THEN "none" ELSE subs[n][h]]
  <1>1. s \in [Handles -> SubStatus]
    BY DEF TypeOK, SubStatus
  <1>2. subs' \in [Nif -> [Handles -> SubStatus]]
    BY <1>1 DEF ConnectionGone, TypeOK
  <1>3. modem' \in [Handles -> ModemView]
    BY StatusType DEF ConnectionGone, TypeOK
  <1>4. mState' \in [Nif -> AgpsState]
    BY DEF ConnectionGone, transitionState, TypeOK, AgpsState
  <1>5. /\ msgQ' \in Seq(Msg) /\ fwReq' \in [Nif -> Seq(Conn)]
        /\ mRetries' \in 0..MaxRetries /\ timers' \in Nat
    <2>1. CASE ActiveIn(s) # {}
      <3>1. PICK ok \in BOOLEAN : RequestDataConn(n, s, ok)
        BY <2>1 DEF ConnectionGone
      <3> QED
        BY <1>1, <3>1, RequestType
    <2>2. CASE ActiveIn(s) = {}
      <3>1. Consume(<<>>) /\ UNCHANGED <<fwReq, mRetries, timers>>
        BY <2>2 DEF ConnectionGone
      <3>2. <<>> \in Seq(Msg)
        OBVIOUS
      <3> QED
        BY <3>1, <3>2, ConsumeType DEF TypeOK
    <2> QED
      BY <2>1, <2>2
  <1> QED
    BY <1>2, <1>3, <1>4, <1>5 DEF HandlerTypeOK

\* RELEASED keeps the types.
LEMMA ReleasedType ==
  ASSUME TypeOK, msgQ # <<>>, NEW n \in Nif, processAgpsEventReleased(n)
  PROVE  HandlerTypeOK'
  <1>1. CASE mState[n] = "RELEASING"
    BY <1>1, ConnectionGoneType DEF processAgpsEventReleased, ReleasedIsNoop
  <1>2. CASE mState[n] # "RELEASING"
    <2>1. Consume(<<>>) /\ UNCHANGED <<fwReq, mRetries, timers>>
      BY <1>2 DEF processAgpsEventReleased
    <2>2. <<>> \in Seq(Msg)
      OBVIOUS
    <2>3. msgQ' \in Seq(Msg)
      BY <2>1, <2>2, ConsumeType DEF TypeOK
    <2>4. modem' \in [Handles -> ModemView]
      <3>1. modem' \in {modem, AfterCloseStatus(NotifiedOfLoss(n))}
        BY <1>2 DEF processAgpsEventReleased
      <3> QED
        BY <3>1, StatusType DEF TypeOK
    <2>5. mState' \in [Nif -> AgpsState]
      BY <1>2 DEF processAgpsEventReleased, transitionState, TypeOK, AgpsState
    <2>6. subs' \in [Nif -> [Handles -> SubStatus]]
      <3> DEFINE f == [h \in Handles |-> IF h \in NotifiedOfLoss(n) THEN "none" ELSE subs[n][h]]
      <3>1. f \in [Handles -> SubStatus]
        BY DEF TypeOK, SubStatus
      <3>2. subs' \in {subs, [subs EXCEPT ![n] = f]}
        BY <1>2 DEF processAgpsEventReleased
      <3> QED
        BY <3>1, <3>2 DEF TypeOK
    <2> QED
      BY <2>1, <2>3, <2>4, <2>5, <2>6 DEF HandlerTypeOK, TypeOK
  <1> QED
    BY <1>1, <1>2

\* DENIED keeps the types.
LEMMA DeniedType ==
  ASSUME TypeOK, msgQ # <<>>, NEW n \in Nif, processAgpsEventDenied(n)
  PROVE  HandlerTypeOK'
  <1>1. <<>> \in Seq(Msg)
    OBVIOUS
  <1>2. CASE mState[n] = "RELEASING"
    BY <1>2, ConnectionGoneType DEF processAgpsEventDenied
  <1>3. CASE mState[n] \in {"RELEASED", "ACQUIRED"}
    <2>1. Consume(<<>>) /\ UNCHANGED <<mState, subs, modem, fwReq, mRetries, timers>>
      BY <1>3 DEF processAgpsEventDenied
    <2> QED
      BY <1>1, <2>1, ConsumeType DEF HandlerTypeOK, TypeOK
  <1>4. CASE mState[n] = "PENDING"
    <2>1. mState' \in [Nif -> AgpsState]
      BY <1>4 DEF processAgpsEventDenied, transitionState, TypeOK, AgpsState
    <2>2. NoSubs \in [Handles -> SubStatus]
      BY DEF NoSubs, SubStatus
    <2>3. subs' \in [Nif -> [Handles -> SubStatus]] /\ UNCHANGED <<fwReq, timers>>
      BY <1>4, <2>2 DEF processAgpsEventDenied, TypeOK
    <2>4. CASE n = "DS"
      <3>1. PICK q \in Orders(ListedIn(subs[n])) :
              Consume([i \in DOMAIN q |-> MsgRequestATL(q[i], "SUPL")])
        BY <1>4, <2>4 DEF processAgpsEventDenied
      <3>2. [i \in DOMAIN q |-> MsgRequestATL(q[i], "SUPL")] \in Seq(Msg)
        BY FallbackType DEF ListedIn
      <3>3. msgQ' \in Seq(Msg)
        BY <3>1, <3>2, ConsumeType DEF TypeOK
      <3>4. mRetries' \in 0..MaxRetries /\ modem' = modem
        BY <1>4, <2>4, ConfAssumption DEF processAgpsEventDenied
      <3> QED
        BY <2>1, <2>3, <3>3, <3>4 DEF HandlerTypeOK, TypeOK
    <2>5. CASE n # "DS"
      <3>1. /\ modem' = AfterOpenStatus(ListedIn(subs[n]), FALSE)
            /\ Consume(<<>>) /\ mRetries' = mRetries
        BY <1>4, <2>5 DEF processAgpsEventDenied
      <3>2. modem' \in [Handles -> ModemView]
        BY <3>1, StatusType DEF TypeOK
      <3>3. msgQ' \in Seq(Msg)
        BY <1>1, <3>1, ConsumeType DEF TypeOK
      <3> QED
        BY <2>1, <2>3, <3>1, <3>2, <3>3 DEF HandlerTypeOK, TypeOK
    <2> QED
      BY <2>4, <2>5
  <1> QED
    BY <1>2, <1>3, <1>4 DEF TypeOK, AgpsState

-----------------------------------------------------------------------------
(* Type correctness *)

\* Creating the state machines adds NIFs only.
LEMMA CreatingType ==
  ASSUME created \subseteq Nif
  PROVE  \A c \in Creating : c \subseteq Nif
  BY DEF Creating, Nif, FrameworkNif

\* getAgpsStateMachine finds a NIF for every type.
LEMMA NifForType ==
  ASSUME NEW t \in AgpsType
  PROVE  NifFor(t) \in Nif
  BY DEF NifFor, AgpsType, Nif

\* The messages the message thread handles keep the types.
LEMMA MsgThreadType ==
  ASSUME TypeOK, MsgThread
  PROVE  TypeOK'
  <1> USE DEF TypeOK
  <1>1. CASE requestATL
    <2> DEFINE h == Head(msgQ).h
               t == Head(msgQ).type
               kind == IF t = "SUPL_ES" THEN "wait" ELSE "plain"
    <2>1. msgQ # <<>> /\ h \in Handles /\ t \in AgpsType
      BY <1>1, HeadTypes DEF requestATL
    <2>2. PICK c \in IF NifFor(t) \in created THEN {created} ELSE Creating :
            /\ created' = c
            /\ IF NifFor(t) \in c
               THEN processAgpsEventSubscribe(NifFor(t), h, kind)
               ELSE /\ modem' = AfterOpenStatus({h}, FALSE)
                    /\ Consume(<<>>)
                    /\ UNCHANGED <<mState, subs, mRetries, timers, fwReq>>
      BY <1>1 DEF requestATL
    <2>3. created' \subseteq Nif
      BY <2>2, CreatingType
    <2>4. HandlerTypeOK'
      <3>1. CASE NifFor(t) \in c
        <4>1. kind \in Active
          BY DEF Active
        <4> QED
          BY <2>1, <2>2, <3>1, <4>1, NifForType, SubscribeType
      <3>2. CASE NifFor(t) \notin c
        <4>1. /\ modem' = AfterOpenStatus({h}, FALSE)
              /\ Consume(<<>>)
              /\ UNCHANGED <<mState, subs, mRetries, timers, fwReq>>
          BY <2>2, <3>2
        <4>2. modem' \in [Handles -> ModemView]
          BY <4>1, StatusType
        <4>3. <<>> \in Seq(Msg)
          OBVIOUS
        <4>4. msgQ' \in Seq(Msg)
          BY <2>1, <4>1, <4>3, ConsumeType
        <4> QED
          BY <4>1, <4>2, <4>4 DEF HandlerTypeOK
      <3> QED
        BY <3>1, <3>2
    <2> QED
      BY <1>1, <2>3, <2>4 DEF requestATL, HandlerTypeOK
  <1>2. CASE releaseATL
    <2> DEFINE h == Head(msgQ).h
    <2>1. msgQ # <<>> /\ h \in Handles
      BY <1>2, HeadTypes DEF releaseATL
    <2>2. HandlerTypeOK'
      <3>1. CASE \E n \in Nif : processAgpsEventUnsubscribe(n, h)
        BY <2>1, <3>1, UnsubscribeType
      <3>2. CASE ~\E n \in Nif : processAgpsEventUnsubscribe(n, h)
        <4>1. /\ modem' = AfterCloseStatus({h})
              /\ Consume(<<>>)
              /\ UNCHANGED <<mState, subs, mRetries, timers, fwReq>>
          BY <1>2, <3>2 DEF releaseATL, Nif
        <4>2. modem' \in [Handles -> ModemView]
          BY <4>1, StatusType
        <4>3. <<>> \in Seq(Msg)
          OBVIOUS
        <4>4. msgQ' \in Seq(Msg)
          BY <2>1, <4>1, <4>3, ConsumeType
        <4> QED
          BY <4>1, <4>2, <4>4 DEF HandlerTypeOK
      <3> QED
        BY <3>1, <3>2
    <2> QED
      BY <1>2, <2>2 DEF releaseATL, HandlerTypeOK
  <1>3. ASSUME NEW e \in {"GRANTED", "RELEASED", "DENIED"}, report(e)
        PROVE  TypeOK'
    <2> DEFINE n == Head(msgQ).nif
    <2>1. msgQ # <<>> /\ n \in Nif
      BY <1>3, HeadTypes DEF report
    <2>2. HandlerTypeOK'
      <3>1. CASE e = "GRANTED"
        BY <1>3, <2>1, <3>1, GrantedType DEF report
      <3>2. CASE e = "RELEASED"
        BY <1>3, <2>1, <3>2, ReleasedType DEF report
      <3>3. CASE e = "DENIED"
        BY <1>3, <2>1, <3>3, DeniedType DEF report
      <3> QED
        BY <3>1, <3>2, <3>3
    <2> QED
      BY <1>3, <2>2 DEF report, HandlerTypeOK
  <1> QED
    BY <1>1, <1>2, <1>3 DEF MsgThread

\* Type correctness.  Beside the types of the state it bounds mRetries: a busy
\* data client is asked at most MAX_START_DATA_CALL_RETRIES times more.
THEOREM TypeCorrect == Spec => []TypeOK
  <1>1. Init => TypeOK
    BY ConfAssumption DEF Init, TypeOK, NoSubs, AgpsState, SubStatus, ModemView, Nif
  <1>2. TypeOK /\ [Next]_vars => TypeOK'
    <2> SUFFICES ASSUME TypeOK, [Next]_vars
                 PROVE  TypeOK'
      OBVIOUS
    <2> USE DEF TypeOK
    <2>1. CASE InitAgps
      BY <2>1, CreatingType DEF InitAgps
    <2>2. CASE MsgThread
      BY <2>2, MsgThreadType
    <2>3. CASE retryRead
      BY <2>3 DEF retryRead, ActiveIn
    <2>4. CASE retryPost
      <3>1. PICK h \in retry : msgQ' = Append(msgQ, MsgRequestATL(h, "SUPL_ES"))
        BY <2>4 DEF retryPost
      <3>2. MsgRequestATL(h, "SUPL_ES") \in Msg
        BY MessageTypes DEF AgpsType
      <3>3. msgQ' \in Seq(Msg)
        BY <3>1, <3>2
      <3> QED
        BY <2>4, <3>3 DEF retryPost
    <2>5. ASSUME NEW h \in Handles, NEW t \in Types[h], ModemRequest(h, t)
          PROVE  TypeOK'
      <3>1. t \in AgpsType
        BY TypesAssumption DEF AgpsType
      <3>2. MsgRequestATL(h, t) \in Msg
        BY <3>1, MessageTypes
      <3>3. msgQ' \in Seq(Msg)
        BY <2>5, <3>2 DEF ModemRequest
      <3> QED
        BY <2>5, <3>3 DEF ModemRequest, ModemView
    <2>6. ASSUME NEW h \in Handles, ModemRelease(h)
          PROVE  TypeOK'
      <3>1. MsgReleaseATL(h) \in Msg
        BY MessageTypes
      <3>2. msgQ' \in Seq(Msg)
        BY <2>6, <3>1 DEF ModemRelease
      <3> QED
        BY <2>6, <3>2 DEF ModemRelease, ModemView
    <2>7. ASSUME NEW n \in Nif, Provider(n) \/ ConnectionLost(n)
          PROVE  TypeOK'
      <3>1. \A e \in {"GRANTED", "RELEASED", "DENIED"} : Append(msgQ, Report(n, e)) \in Seq(Msg)
        BY MessageTypes
      <3>2. fwReq[n] \in Seq(Conn)
        OBVIOUS
      <3>3. fwReq[n] # <<>> => Tail(fwReq[n]) \in Seq(Conn)
        BY <3>2
      <3>4. CASE ConnectionLost(n)
        BY <3>1, <3>4 DEF ConnectionLost
      <3>5. CASE ProviderReleases(n)
        BY <3>1, <3>3, <3>5 DEF ProviderReleases
      <3>6. ASSUME NEW up \in BOOLEAN, ProviderConnects(n, up)
            PROVE  TypeOK'
        <4>1. msgQ' \in Seq(Msg)
          BY <3>1, <3>6 DEF ProviderConnects
        <4> QED
          BY <3>3, <3>6, <4>1 DEF ProviderConnects
      <3> QED
        BY <2>7, <3>4, <3>5, <3>6 DEF Provider
    <2>8. CASE UNCHANGED vars
      BY <2>8 DEF vars
    <2> QED
      BY <2>1, <2>2, <2>3, <2>4, <2>5, <2>6, <2>7, <2>8 DEF Next
  <1> QED
    BY <1>1, <1>2, PTL DEF Spec

-----------------------------------------------------------------------------
(* The state of a machine and its subscribers.  StateMatchesSubscribers is   *)
(* not inductive alone: a request that makes a RELEASED machine of the       *)
(* framework PENDING adds to an empty list only because of                   *)
(* FrameworkReleasedIsEmpty, so the two are proved together, one machine at  *)
(* a time.                                                                   *)

Matched(n, st, s) ==
  /\ st \in {"PENDING", "ACQUIRED"} => ActiveIn(s) # {}
  /\ st = "RELEASING" => InactiveIn(s) # {}
  /\ st = "RELEASED" => InactiveIn(s) = {}
  /\ st = "RELEASED" /\ n \in FrameworkNif => ListedIn(s) = {}

AllMatched == \A n \in Nif : Matched(n, mState[n], subs[n])

\* A step that changes one machine keeps AllMatched if that machine is matched.
LEMMA OneMachine ==
  ASSUME TypeOK, AllMatched, NEW n \in Nif, NEW st, NEW s,
         mState' = [mState EXCEPT ![n] = st], subs' = [subs EXCEPT ![n] = s],
         Matched(n, st, s)
  PROVE  AllMatched'
  <1> SUFFICES ASSUME NEW m \in Nif
               PROVE  Matched(m, mState'[m], subs'[m])
    BY DEF AllMatched, Matched, ActiveIn, InactiveIn, ListedIn
  <1>1. CASE m = n
    BY <1>1 DEF TypeOK
  <1>2. CASE m # n
    BY <1>2 DEF TypeOK, AllMatched
  <1> QED
    BY <1>1, <1>2

\* SUBSCRIBE: the new subscriber is active, whether the handle was listed or not.
LEMMA SubscribeMatched ==
  ASSUME TypeOK, AllMatched, NEW n \in Nif, NEW h \in Handles, NEW kind \in Active,
         processAgpsEventSubscribe(n, h, kind)
  PROVE  AllMatched'
  <1> DEFINE s == WithSubscriber(n, h, kind)
  <1>1. subs' = [subs EXCEPT ![n] = s]
    BY DEF processAgpsEventSubscribe
  <1>2. subs[n] \in [Handles -> SubStatus] /\ Matched(n, mState[n], subs[n])
    BY DEF TypeOK, AllMatched
  <1>3. /\ ActiveIn(subs[n]) \subseteq ActiveIn(s)
        /\ InactiveIn(s) = InactiveIn(subs[n])
    BY <1>2 DEF WithSubscriber, ActiveIn, InactiveIn, Active
  <1>4. mState[n] = "RELEASED" => h \in ActiveIn(s)
    <2>1. mState[n] = "RELEASED" => subs[n][h] # "inactive"
      BY <1>2 DEF Matched, InactiveIn
    <2> QED
      BY <1>2, <2>1 DEF WithSubscriber, ActiveIn, Active, SubStatus
  <1>5. CASE mState[n] = "RELEASED"
    <2>1. PICK ok \in BOOLEAN :
            /\ RequestDataConn(n, s, ok)
            /\ IF ok THEN transitionState(n, "PENDING") ELSE UNCHANGED mState
      BY <1>5 DEF processAgpsEventSubscribe
    <2>2. CASE ok
      <3>1. mState' = [mState EXCEPT ![n] = "PENDING"]
        BY <2>1, <2>2 DEF transitionState
      <3>2. Matched(n, "PENDING", s)
        BY <1>4, <1>5 DEF Matched
      <3> QED
        BY <1>1, <3>1, <3>2, OneMachine
    <2>3. CASE ~ok
      <3>1. n \notin FrameworkNif
        BY <2>1, <2>3 DEF RequestDataConn, FrameworkNif
      <3>2. mState' = [mState EXCEPT ![n] = "RELEASED"]
        BY <1>5, <2>1, <2>3 DEF TypeOK
      <3>3. Matched(n, "RELEASED", s)
        BY <1>2, <1>3, <1>5, <3>1 DEF Matched
      <3> QED
        BY <1>1, <3>2, <3>3, OneMachine
    <2> QED
      BY <2>2, <2>3
  <1>6. CASE mState[n] # "RELEASED"
    <2>1. mState' = mState
      BY <1>6 DEF processAgpsEventSubscribe
    <2>2. mState' = [mState EXCEPT ![n] = mState[n]]
      BY <2>1 DEF TypeOK
    <2>3. Matched(n, mState[n], s)
      BY <1>2, <1>3, <1>6 DEF Matched
    <2> QED
      BY <1>1, <2>2, <2>3, OneMachine
  <1> QED
    BY <1>5, <1>6

\* UNSUBSCRIBE: the machine leaves PENDING and ACQUIRED with its last active
\* subscriber, and RELEASING with its last subscriber.
LEMMA UnsubscribeMatched ==
  ASSUME TypeOK, AllMatched, NEW n \in Nif, NEW h \in Handles,
         processAgpsEventUnsubscribe(n, h)
  PROVE  AllMatched'
  <1> DEFINE s == [subs[n] EXCEPT ![h] = Unsubscribed(@)]
  <1>1. subs[n] \in [Handles -> SubStatus] /\ Matched(n, mState[n], subs[n])
    BY DEF TypeOK, AllMatched
  <1>2. CASE mState[n] = "RELEASED"
    BY <1>2 DEF processAgpsEventUnsubscribe, AllMatched
  <1>3. CASE mState[n] # "RELEASED"
    <2>1. /\ subs' = [subs EXCEPT ![n] = s]
          /\ mState' = [mState EXCEPT ![n] = StateWithout(n, s)]
      BY <1>3 DEF processAgpsEventUnsubscribe, transitionState
    <2>2. InactiveIn(subs[n]) \subseteq InactiveIn(s)
      BY <1>1 DEF InactiveIn, Unsubscribed
    <2>3. s \in [Handles -> SubStatus]
      BY <1>1 DEF Unsubscribed, SubStatus
    <2>4. ListedIn(s) = ActiveIn(s) \cup InactiveIn(s)
      BY <2>3 DEF ListedIn, ActiveIn, InactiveIn, Active, SubStatus
    <2>5. Matched(n, StateWithout(n, s), s)
      <3>1. CASE ListedIn(s) = {}
        BY <2>4, <3>1 DEF Matched, StateWithout
      <3>2. CASE ListedIn(s) # {} /\ ActiveIn(s) = {}
        BY <2>4, <3>2 DEF Matched, StateWithout
      <3>3. CASE ActiveIn(s) # {}
        BY <1>1, <1>3, <2>2, <2>4, <3>3 DEF Matched, StateWithout
      <3> QED
        BY <3>1, <3>2, <3>3
    <2> QED
      BY <2>1, <2>5, OneMachine
  <1> QED
    BY <1>2, <1>3

\* GRANTED: only a PENDING machine, which has an active subscriber, moves.
LEMMA GrantedMatched ==
  ASSUME TypeOK, AllMatched, NEW n \in Nif, processAgpsEventGranted(n)
  PROVE  AllMatched'
  <1>1. Matched(n, mState[n], subs[n])
    BY DEF AllMatched
  <1>2. CASE mState[n] = "PENDING"
    <2>1. mState' = [mState EXCEPT ![n] = "ACQUIRED"] /\ subs' = [subs EXCEPT ![n] = subs[n]]
      BY <1>2 DEF processAgpsEventGranted, transitionState, TypeOK
    <2>2. Matched(n, "ACQUIRED", subs[n])
      BY <1>1, <1>2 DEF Matched
    <2> QED
      BY <2>1, <2>2, OneMachine
  <1>3. CASE mState[n] # "PENDING"
    BY <1>3 DEF processAgpsEventGranted, AllMatched
  <1> QED
    BY <1>2, <1>3

\* The end of RELEASING: no inactive subscriber is left.
LEMMA ConnectionGoneMatched ==
  ASSUME TypeOK, AllMatched, NEW n \in Nif, ConnectionGone(n)
  PROVE  AllMatched'
  <1> DEFINE s == [h \in Handles |-> IF subs[n][h] = "inactive" THEN "none" ELSE subs[n][h]]
             st == IF ActiveIn(s) # {} THEN "PENDING" ELSE "RELEASED"
  <1>1. subs' = [subs EXCEPT ![n] = s] /\ mState' = [mState EXCEPT ![n] = st]
    BY DEF ConnectionGone, transitionState
  <1>2. s \in [Handles -> SubStatus] /\ InactiveIn(s) = {}
    BY DEF TypeOK, SubStatus, InactiveIn
  <1>3. ListedIn(s) = ActiveIn(s)
    BY <1>2 DEF ListedIn, ActiveIn, InactiveIn, Active, SubStatus
  <1>4. Matched(n, st, s)
    BY <1>2, <1>3 DEF Matched
  <1> QED
    BY <1>1, <1>4, OneMachine

\* RELEASED: a lost connection leaves an empty list.
LEMMA ReleasedMatched ==
  ASSUME TypeOK, AllMatched, NEW n \in Nif, processAgpsEventReleased(n)
  PROVE  AllMatched'
  <1>1. CASE mState[n] \in {"RELEASED", "PENDING"}
    BY <1>1 DEF processAgpsEventReleased, ReleasedIsNoop, AllMatched
  <1>2. CASE mState[n] = "RELEASING"
    BY <1>2, ConnectionGoneMatched DEF processAgpsEventReleased, ReleasedIsNoop
  <1>3. CASE mState[n] = "ACQUIRED"
    <2> DEFINE s == [h \in Handles |-> IF h \in NotifiedOfLoss(n) THEN "none" ELSE subs[n][h]]
    <2>1. subs' = [subs EXCEPT ![n] = s] /\ mState' = [mState EXCEPT ![n] = "RELEASED"]
      BY <1>3 DEF processAgpsEventReleased, ReleasedIsNoop, transitionState
    <2>2. \A h \in Handles : s[h] = "none"
      BY DEF NotifiedOfLoss, ListedIn
    <2>3. Matched(n, "RELEASED", s)
      BY <2>2 DEF Matched, InactiveIn, ListedIn
    <2> QED
      BY <2>1, <2>3, OneMachine
  <1> QED
    BY <1>1, <1>2, <1>3 DEF TypeOK, AgpsState

\* DENIED: a denied request leaves an empty list.
LEMMA DeniedMatched ==
  ASSUME TypeOK, AllMatched, NEW n \in Nif, processAgpsEventDenied(n)
  PROVE  AllMatched'
  <1>1. CASE mState[n] \in {"RELEASED", "ACQUIRED"}
    BY <1>1 DEF processAgpsEventDenied, AllMatched
  <1>2. CASE mState[n] = "RELEASING"
    BY <1>2, ConnectionGoneMatched DEF processAgpsEventDenied
  <1>3. CASE mState[n] = "PENDING"
    <2>1. subs' = [subs EXCEPT ![n] = NoSubs] /\ mState' = [mState EXCEPT ![n] = "RELEASED"]
      BY <1>3 DEF processAgpsEventDenied, transitionState
    <2>2. Matched(n, "RELEASED", NoSubs)
      BY DEF Matched, NoSubs, InactiveIn, ListedIn
    <2> QED
      BY <2>1, <2>2, OneMachine
  <1> QED
    BY <1>1, <1>2, <1>3 DEF TypeOK, AgpsState

\* Every step keeps every machine matched.
LEMMA MatchedStep ==
  ASSUME TypeOK, AllMatched, [Next]_vars
  PROVE  AllMatched'
  <1>1. CASE UNCHANGED <<mState, subs>>
    BY <1>1 DEF AllMatched
  <1>2. CASE requestATL
    <2> DEFINE h == Head(msgQ).h
               t == Head(msgQ).type
               kind == IF t = "SUPL_ES" THEN "wait" ELSE "plain"
    <2>1. h \in Handles /\ t \in AgpsType /\ kind \in Active
      BY <1>2, HeadTypes DEF requestATL, Active, TypeOK
    <2>2. CASE processAgpsEventSubscribe(NifFor(t), h, kind)
      BY <2>1, <2>2, NifForType, SubscribeMatched
    <2>3. CASE UNCHANGED <<mState, subs>>
      BY <1>1, <2>3
    <2> QED
      BY <1>2, <2>2, <2>3 DEF requestATL
  <1>3. CASE releaseATL
    <2>1. Head(msgQ).h \in Handles
      BY <1>3, HeadTypes DEF releaseATL, TypeOK
    <2>2. CASE \E n \in Nif : processAgpsEventUnsubscribe(n, Head(msgQ).h)
      BY <2>1, <2>2, UnsubscribeMatched
    <2>3. CASE UNCHANGED <<mState, subs>>
      BY <1>1, <2>3
    <2> QED
      BY <1>3, <2>2, <2>3 DEF releaseATL, Nif
  <1>4. ASSUME NEW e \in {"GRANTED", "RELEASED", "DENIED"}, report(e)
        PROVE  AllMatched'
    <2>1. Head(msgQ).nif \in Nif
      BY <1>4, HeadTypes DEF report, TypeOK
    <2> QED
      BY <1>4, <2>1, GrantedMatched, ReleasedMatched, DeniedMatched DEF report
  <1>5. CASE MsgThread
    BY <1>2, <1>3, <1>4, <1>5 DEF MsgThread
  <1>6. CASE InitAgps \/ retryRead \/ retryPost \/ UNCHANGED vars
    BY <1>1, <1>6 DEF InitAgps, retryRead, retryPost, vars
  <1>7. CASE \/ \E h \in Handles : \E t \in Types[h] : ModemRequest(h, t)
             \/ \E h \in Handles : ModemRelease(h)
             \/ \E n \in Nif : Provider(n) \/ ConnectionLost(n)
    BY <1>1, <1>7 DEF ModemRequest, ModemRelease, Provider, ProviderConnects,
                      ProviderReleases, ConnectionLost
  <1> QED
    BY <1>5, <1>6, <1>7 DEF Next

\* In every reachable state, of all three machines, the state of the machine
\* and the subscribers it lists agree.
THEOREM StatesMatch == Spec => []StateMatchesSubscribers
  <1>1. Init => AllMatched
    BY DEF Init, AllMatched, Matched, NoSubs, ActiveIn, InactiveIn, ListedIn, Nif
  <1>2. TypeOK /\ AllMatched /\ [Next]_vars => AllMatched'
    BY MatchedStep
  <1>3. AllMatched => StateMatchesSubscribers
    BY DEF AllMatched, Matched, StateMatchesSubscribers
  <1> QED
    BY <1>1, <1>2, <1>3, TypeCorrect, PTL DEF Spec

\* A machine the framework serves keeps no subscriber in RELEASED: nobody is
\* forgotten by a machine that has asked for nothing.
THEOREM NobodyForgotten == Spec => []FrameworkReleasedIsEmpty
  <1>1. Init => AllMatched
    BY DEF Init, AllMatched, Matched, NoSubs, ActiveIn, InactiveIn, ListedIn, Nif
  <1>2. TypeOK /\ AllMatched /\ [Next]_vars => AllMatched'
    BY MatchedStep
  <1>3. AllMatched => FrameworkReleasedIsEmpty
    BY DEF AllMatched, Matched, FrameworkReleasedIsEmpty, FrameworkNif, Nif
  <1> QED
    BY <1>1, <1>2, <1>3, TypeCorrect, PTL DEF Spec

-----------------------------------------------------------------------------
(* How a handler of the message thread moves a machine: the facts about the  *)
(* queue and about one machine that the proofs below rest on.                *)

\* After Consume a message is one that stood further back, or a new request.
LEMMA ConsumedAt ==
  ASSUME msgQ \in Seq(Msg), msgQ # <<>>, NEW more \in Seq(RequestMsgs), Consume(more)
  PROVE  /\ msgQ[1] = Head(msgQ) /\ 1 \in DOMAIN msgQ
         /\ \A i \in DOMAIN msgQ : i # 1 => i - 1 \in DOMAIN msgQ' /\ msgQ'[i - 1] = msgQ[i]
         /\ \A i \in DOMAIN msgQ' :
              \/ i + 1 \in DOMAIN msgQ /\ msgQ'[i] = msgQ[i + 1]
              \/ i \geq Len(msgQ) /\ msgQ'[i] \in RequestMsgs
  <1>1. Tail(msgQ) \in Seq(Msg) /\ Len(Tail(msgQ)) = Len(msgQ) - 1 /\ Len(msgQ) \in Nat \ {0}
    OBVIOUS
  <1>2. \A i \in 1..(Len(msgQ) - 1) : Tail(msgQ)[i] = msgQ[i + 1]
    OBVIOUS
  <1>3. /\ Len(msgQ') = Len(msgQ) - 1 + Len(more) /\ Len(more) \in Nat
        /\ DOMAIN msgQ' = 1..Len(msgQ')
    BY <1>1 DEF Consume
  <1>4. \A i \in 1..Len(msgQ') :
          msgQ'[i] = IF i \leq Len(msgQ) - 1 THEN Tail(msgQ)[i] ELSE more[i - (Len(msgQ) - 1)]
    BY <1>1, <1>3 DEF Consume
  <1>5. \A i \in DOMAIN msgQ : i # 1 => i - 1 \in DOMAIN msgQ' /\ msgQ'[i - 1] = msgQ[i]
    BY <1>1, <1>2, <1>3, <1>4
  <1>6. ASSUME NEW i \in DOMAIN msgQ'
        PROVE  \/ i + 1 \in DOMAIN msgQ /\ msgQ'[i] = msgQ[i + 1]
               \/ i \geq Len(msgQ) /\ msgQ'[i] \in RequestMsgs
    <2>1. CASE i \leq Len(msgQ) - 1
      BY <1>1, <1>2, <1>3, <1>4, <2>1
    <2>2. CASE ~(i \leq Len(msgQ) - 1)
      <3>1. i - (Len(msgQ) - 1) \in 1..Len(more)
        BY <1>1, <1>3, <2>2
      <3>2. more[i - (Len(msgQ) - 1)] \in RequestMsgs
        BY <3>1
      <3> QED
        BY <1>1, <1>3, <1>4, <2>2, <3>2
    <2> QED
      BY <2>1, <2>2
  <1> QED
    BY <1>1, <1>5, <1>6

\* Asking for a connection handles the message, and may post a request.
LEMMA RequestConsumes ==
  ASSUME NEW n \in Nif, NEW s, NEW ok \in BOOLEAN, RequestDataConn(n, s, ok)
  PROVE  \E more \in Seq(RequestMsgs) : Consume(more)
  <1>1. <<>> \in Seq(RequestMsgs)
    OBVIOUS
  <1>2. CASE Consume(<<>>)
    BY <1>1, <1>2
  <1>3. ASSUME NEW h \in ActiveIn(s), Consume(<<MsgRequestATL(h, "SUPL")>>)
        PROVE  \E more \in Seq(RequestMsgs) : Consume(more)
    <2>1. MsgRequestATL(h, "SUPL") \in RequestMsgs
      BY DEF ActiveIn, RequestMsgs, AgpsType
    <2>2. <<MsgRequestATL(h, "SUPL")>> \in Seq(RequestMsgs)
      BY <2>1
    <2> QED
      BY <1>3, <2>2
  <1>4. CASE n = "DS" /\ ActiveIn(s) # {}
    <2>1. PICK h \in ActiveIn(s), r \in DsStart :
            Consume(IF r = "UNSUPPORTED" \/ (r = "BUSY" /\ ~RetriesLeft)
                    THEN <<MsgRequestATL(h, "SUPL")>> ELSE <<>>)
      BY <1>4 DEF RequestDataConn, StartDataCall
    <2> QED
      BY <1>2, <1>3, <2>1
  <1> QED
    BY <1>2, <1>4 DEF RequestDataConn, StartDataCall

\* Every handler takes the first message, posts nothing but requests, and
\* leaves the connections to their providers.
LEMMA HandlerConsumes ==
  ASSUME TypeOK, MsgThread
  PROVE  /\ msgQ # <<>> /\ conn' = conn
         /\ \E more \in Seq(RequestMsgs) : Consume(more)
  <1>1. msgQ # <<>> /\ conn' = conn
    BY DEF MsgThread, requestATL, releaseATL, report, IsNext
  <1>2. <<>> \in Seq(RequestMsgs)
    OBVIOUS
  <1>3. CASE Consume(<<>>)
    BY <1>1, <1>2, <1>3
  <1>4. ASSUME NEW n \in Nif, ConnectionGone(n)
        PROVE  \E more \in Seq(RequestMsgs) : Consume(more)
    BY <1>2, <1>4, RequestConsumes DEF ConnectionGone
  <1>5. CASE requestATL
    <2> DEFINE t == Head(msgQ).type
    <2>1. NifFor(t) \in Nif
      BY <1>5, HeadTypes, NifForType DEF requestATL, TypeOK
    <2>2. ASSUME NEW h, NEW kind, processAgpsEventSubscribe(NifFor(t), h, kind)
          PROVE  \E more \in Seq(RequestMsgs) : Consume(more)
      <3>1. ASSUME NEW ok \in BOOLEAN,
                   RequestDataConn(NifFor(t), WithSubscriber(NifFor(t), h, kind), ok)
            PROVE  \E more \in Seq(RequestMsgs) : Consume(more)
        BY <2>1, <3>1, RequestConsumes
      <3>2. \/ Consume(<<>>)
            \/ \E ok \in BOOLEAN :
                 RequestDataConn(NifFor(t), WithSubscriber(NifFor(t), h, kind), ok)
        BY <2>2 DEF processAgpsEventSubscribe
      <3> QED
        BY <1>2, <3>1, <3>2
    <2> QED
      BY <1>1, <1>3, <1>5, <2>2 DEF requestATL
  <1>6. CASE releaseATL
    BY <1>1, <1>3, <1>6 DEF releaseATL, processAgpsEventUnsubscribe
  <1>7. ASSUME NEW e \in {"GRANTED", "RELEASED", "DENIED"}, report(e)
        PROVE  \E more \in Seq(RequestMsgs) : Consume(more)
    <2> DEFINE n == Head(msgQ).nif
    <2>1. n \in Nif
      BY <1>7, HeadTypes DEF report, TypeOK
    <2>2. CASE processAgpsEventGranted(n)
      BY <1>2, <2>2 DEF processAgpsEventGranted
    <2>3. CASE processAgpsEventReleased(n)
      BY <1>2, <1>4, <2>1, <2>3 DEF processAgpsEventReleased
    <2>4. CASE processAgpsEventDenied(n)
      <3>1. ASSUME NEW q \in Orders(ListedIn(subs[n])),
                   Consume([i \in DOMAIN q |-> MsgRequestATL(q[i], "SUPL")])
            PROVE  \E more \in Seq(RequestMsgs) : Consume(more)
        <4>1. IsFiniteSet(ListedIn(subs[n]))
          BY HandlesAssumption, FS_Subset DEF ListedIn
        <4>2. Cardinality(ListedIn(subs[n])) \in Nat
          BY <4>1, FS_CardinalityType
        <4>3. q \in [1..Cardinality(ListedIn(subs[n])) -> Handles]
          BY DEF Orders, ListedIn
        <4>4. [i \in DOMAIN q |-> MsgRequestATL(q[i], "SUPL")] \in Seq(RequestMsgs)
          <5>1. \A i \in DOMAIN q : MsgRequestATL(q[i], "SUPL") \in RequestMsgs
            BY <4>3 DEF RequestMsgs, AgpsType
          <5> QED
            BY <4>2, <4>3, <5>1
        <4> QED
          BY <3>1, <4>4
      <3> QED
        BY <1>2, <1>4, <2>1, <2>4, <3>1 DEF processAgpsEventDenied
    <2> QED
      BY <1>7, <2>2, <2>3, <2>4 DEF report
  <1> QED
    BY <1>1, <1>5, <1>6, <1>7 DEF MsgThread

\* The first message is one of the reports E for machine n.
HeadReports(n, E) == \E e \in E : Head(msgQ) = Report(n, e)

\* What a handler can do to machine n: leave it alone, if the message is not
\* the report it waits for; ask for a connection; give up; or take the outcome.
MachineStep(n) ==
  \/ /\ mState'[n] = mState[n] /\ fwReq'[n] = fwReq[n]
     /\ mState[n] = "ACQUIRED" => ~HeadReports(n, {"RELEASED"})
     /\ mState[n] = "PENDING" => ~HeadReports(n, {"GRANTED", "DENIED"})
     /\ mState[n] = "RELEASING" => ~HeadReports(n, {"RELEASED", "DENIED"})
  \/ mState'[n] = "PENDING" /\ (n # "DS" => fwReq'[n] = Append(fwReq[n], "REQUEST"))
  \/ mState'[n] = "RELEASED"
  \/ /\ mState[n] \in {"PENDING", "ACQUIRED"} /\ mState'[n] = "RELEASING"
     /\ fwReq'[n] = Append(fwReq[n], "RELEASE")
     /\ Head(msgQ).msg # "Report"
  \/ /\ mState[n] = "PENDING" /\ mState'[n] = "ACQUIRED"
     /\ fwReq'[n] = fwReq[n]
     /\ Head(msgQ) = Report(n, "GRANTED")

\* A message that is not a report about n leaves n alone if its state and its
\* requests stay.
LEMMA LeftAlone ==
  ASSUME NEW n \in Nif, mState'[n] = mState[n], fwReq'[n] = fwReq[n],
         Head(msgQ).msg = "Report" => Head(msgQ).nif # n
  PROVE  MachineStep(n)
  BY DEF MachineStep, HeadReports, Report

\* Asking for a connection touches the requests of that NIF only, and a machine
\* of the framework always sends REQUEST.
LEMMA RequestSends ==
  ASSUME TypeOK, NEW n \in Nif, NEW s, NEW ok \in BOOLEAN, RequestDataConn(n, s, ok)
  PROVE  /\ \A m \in Nif : m # n => fwReq'[m] = fwReq[m]
         /\ n # "DS" => ok /\ fwReq'[n] = Append(fwReq[n], "REQUEST")
         /\ ~ok => fwReq'[n] = fwReq[n]
  BY DEF RequestDataConn, StartDataCall, FrameworkStatus, TypeOK

\* SUBSCRIBE, as a step of each machine.
LEMMA SubscribeMoves ==
  ASSUME TypeOK, NEW n \in Nif, NEW h, NEW kind, processAgpsEventSubscribe(n, h, kind),
         Head(msgQ).msg # "Report", NEW m \in Nif
  PROVE  MachineStep(m)
  <1> DEFINE s == WithSubscriber(n, h, kind)
  <1>1. CASE mState[n] = "RELEASED"
    <2>1. PICK ok \in BOOLEAN :
            /\ RequestDataConn(n, s, ok)
            /\ IF ok THEN transitionState(n, "PENDING") ELSE UNCHANGED mState
      BY <1>1 DEF processAgpsEventSubscribe
    <2>2. /\ \A k \in Nif : k # n => fwReq'[k] = fwReq[k]
          /\ n # "DS" => ok /\ fwReq'[n] = Append(fwReq[n], "REQUEST")
          /\ ~ok => fwReq'[n] = fwReq[n]
      BY <2>1, RequestSends
    <2>3. CASE m # n
      <3>1. mState'[m] = mState[m]
        BY <2>1, <2>3 DEF transitionState, TypeOK
      <3> QED
        BY <2>2, <2>3, <3>1, LeftAlone
    <2>4. CASE m = n /\ ok
      <3>1. mState'[m] = "PENDING"
        BY <2>1, <2>4 DEF transitionState, TypeOK
      <3> QED
        BY <2>2, <2>4, <3>1 DEF MachineStep
    <2>5. CASE m = n /\ ~ok
      BY <2>1, <2>2, <2>5, LeftAlone
    <2> QED
      BY <2>3, <2>4, <2>5
  <1>2. CASE mState[n] # "RELEASED"
    <2>1. mState' = mState /\ fwReq' = fwReq
      BY <1>2 DEF processAgpsEventSubscribe
    <2> QED
      BY <2>1, LeftAlone
  <1> QED
    BY <1>1, <1>2

\* UNSUBSCRIBE, as a step of each machine.
LEMMA UnsubscribeMoves ==
  ASSUME TypeOK, NEW n \in Nif, NEW h, processAgpsEventUnsubscribe(n, h),
         Head(msgQ).msg # "Report", NEW m \in Nif
  PROVE  MachineStep(m)
  <1> DEFINE s == [subs[n] EXCEPT ![h] = Unsubscribed(@)]
  <1>1. CASE mState[n] = "RELEASED"
    <2>1. mState' = mState /\ fwReq' = fwReq
      BY <1>1 DEF processAgpsEventUnsubscribe
    <2> QED
      BY <2>1, LeftAlone
  <1>2. CASE mState[n] # "RELEASED"
    <2>1. /\ mState' = [mState EXCEPT ![n] = StateWithout(n, s)]
          /\ fwReq' = IF NoMoreNeeded(n, s)
                      THEN [fwReq EXCEPT ![n] = Append(@, "RELEASE")] ELSE fwReq
      BY <1>2 DEF processAgpsEventUnsubscribe, transitionState, ReleaseDataConn, FrameworkStatus
    <2>2. CASE m # n
      <3>1. mState'[m] = mState[m] /\ fwReq'[m] = fwReq[m]
        BY <2>1, <2>2 DEF TypeOK
      <3> QED
        BY <3>1, LeftAlone
    <2>3. CASE m = n
      <3>1. mState'[n] = StateWithout(n, s)
        BY <2>1 DEF TypeOK
      <3>2. fwReq'[n] = IF NoMoreNeeded(n, s) THEN Append(fwReq[n], "RELEASE") ELSE fwReq[n]
        BY <2>1 DEF TypeOK
      <3>3. CASE ListedIn(s) = {}
        BY <2>3, <3>1, <3>3 DEF StateWithout, MachineStep
      <3>4. CASE ListedIn(s) # {} /\ ActiveIn(s) = {} /\ mState[n] # "RELEASING"
        <4>1. mState[n] \in {"PENDING", "ACQUIRED"}
          BY <1>2, <3>4 DEF TypeOK, AgpsState
        <4> QED
          BY <2>3, <3>1, <3>2, <3>4, <4>1 DEF StateWithout, NoMoreNeeded, MachineStep
      <3>5. CASE ListedIn(s) # {} /\ (ActiveIn(s) # {} \/ mState[n] = "RELEASING")
        <4>1. mState'[n] = mState[n] /\ fwReq'[n] = fwReq[n]
          BY <3>1, <3>2, <3>5 DEF StateWithout, NoMoreNeeded
        <4> QED
          BY <2>3, <4>1, LeftAlone
      <3> QED
        BY <3>3, <3>4, <3>5
    <2> QED
      BY <2>2, <2>3
  <1> QED
    BY <1>1, <1>2

\* The end of RELEASING, as a step of each machine.
LEMMA GoneMoves ==
  ASSUME TypeOK, NEW n \in Nif, ConnectionGone(n),
         Head(msgQ).nif = n, NEW m \in Nif
  PROVE  MachineStep(m)
  <1> DEFINE s == [h \in Handles |-> IF subs[n][h] = "inactive" THEN "none" ELSE subs[n][h]]
  <1>1. CASE ActiveIn(s) # {}
    <2>1. PICK ok \in BOOLEAN : RequestDataConn(n, s, ok)
      BY <1>1 DEF ConnectionGone
    <2>2. mState' = [mState EXCEPT ![n] = "PENDING"]
      BY <1>1 DEF ConnectionGone, transitionState
    <2>3. /\ \A k \in Nif : k # n => fwReq'[k] = fwReq[k]
          /\ n # "DS" => fwReq'[n] = Append(fwReq[n], "REQUEST")
      BY <2>1, RequestSends
    <2>4. CASE m # n
      BY <2>2, <2>3, <2>4, LeftAlone DEF TypeOK
    <2>5. CASE m = n
      <3>1. mState'[m] = "PENDING"
        BY <2>2, <2>5 DEF TypeOK
      <3> QED
        BY <2>3, <2>5, <3>1 DEF MachineStep
    <2> QED
      BY <2>4, <2>5
  <1>2. CASE ActiveIn(s) = {}
    <2>1. mState' = [mState EXCEPT ![n] = "RELEASED"] /\ fwReq' = fwReq
      BY <1>2 DEF ConnectionGone, transitionState
    <2>2. CASE m # n
      BY <2>1, <2>2, LeftAlone DEF TypeOK
    <2>3. CASE m = n
      <3>1. mState'[m] = "RELEASED"
        BY <2>1, <2>3 DEF TypeOK
      <3> QED
        BY <3>1 DEF MachineStep
    <2> QED
      BY <2>2, <2>3
  <1> QED
    BY <1>1, <1>2

\* A report, as a step of each machine.
LEMMA ReportMoves ==
  ASSUME TypeOK, NEW e \in {"GRANTED", "RELEASED", "DENIED"}, report(e), NEW m \in Nif
  PROVE  MachineStep(m)
  <1> DEFINE n == Head(msgQ).nif
             ev == Head(msgQ).event
  <1>1. n \in Nif /\ ev \in {"GRANTED", "RELEASED", "DENIED"} /\ Head(msgQ).msg = "Report"
    BY HeadTypes DEF report, TypeOK, IsNext
  <1>2. EventFor(n, ev) = e
    BY DEF report
  <1>3. /\ e = "GRANTED" => processAgpsEventGranted(n)
        /\ e = "RELEASED" => processAgpsEventReleased(n)
        /\ e = "DENIED" => processAgpsEventDenied(n)
    BY DEF report
  <1>4. \A f : Head(msgQ) = Report(n, f) => f = ev
    BY DEF Report
  <1>5. CASE ConnectionGone(n)
    BY <1>1, <1>5, GoneMoves
  <1>6. CASE fwReq' = fwReq /\ m # n /\ \E st : mState' = [mState EXCEPT ![n] = st]
    BY <1>6, LeftAlone DEF TypeOK
  <1>7. CASE fwReq' = fwReq /\ mState' = mState /\ m # n
    BY <1>7, LeftAlone
  <1>8. CASE e = "GRANTED"
    <2>1. ev = "GRANTED"
      BY <1>2, <1>8 DEF EventFor
    <2>2. Head(msgQ) = Report(n, "GRANTED")
      <3>1. Head(msgQ) \in Msg
        BY DEF report, IsNext, TypeOK
      <3> QED
        BY <1>1, <2>1, <3>1 DEF Msg, RequestMsgs, MsgRequestATL, MsgReleaseATL, Report
    <2>3. CASE mState[n] = "PENDING"
      <3>1. mState' = [mState EXCEPT ![n] = "ACQUIRED"] /\ fwReq' = fwReq
        BY <1>3, <1>8, <2>3 DEF processAgpsEventGranted, transitionState
      <3>2. CASE m = n
        <4>1. mState'[m] = "ACQUIRED"
          BY <1>1, <3>1, <3>2 DEF TypeOK
        <4> QED
          BY <2>2, <2>3, <3>1, <3>2, <4>1 DEF MachineStep
      <3> QED
        BY <1>6, <3>1, <3>2
    <2>4. CASE mState[n] # "PENDING"
      <3>1. mState' = mState /\ fwReq' = fwReq
        BY <1>3, <1>8, <2>4 DEF processAgpsEventGranted
      <3>2. CASE m = n
        BY <1>4, <2>1, <2>4, <3>1, <3>2 DEF MachineStep, HeadReports
      <3> QED
        BY <1>7, <3>1, <3>2
    <2> QED
      BY <2>3, <2>4
  <1>9. CASE e = "RELEASED"
    <2>1. ev = "RELEASED"
      BY <1>2, <1>9 DEF EventFor
    <2>2. CASE mState[n] \in {"RELEASED", "PENDING"}
      <3>1. mState' = mState /\ fwReq' = fwReq
        BY <1>3, <1>9, <2>2 DEF processAgpsEventReleased, ReleasedIsNoop
      <3>2. CASE m = n
        BY <1>4, <2>1, <2>2, <3>1, <3>2 DEF MachineStep, HeadReports
      <3> QED
        BY <1>7, <3>1, <3>2
    <2>3. CASE mState[n] = "RELEASING"
      BY <1>3, <1>5, <1>9, <2>3 DEF processAgpsEventReleased, ReleasedIsNoop
    <2>4. CASE mState[n] = "ACQUIRED"
      <3>1. mState' = [mState EXCEPT ![n] = "RELEASED"] /\ fwReq' = fwReq
        BY <1>3, <1>9, <2>4 DEF processAgpsEventReleased, ReleasedIsNoop, transitionState
      <3>2. CASE m = n
        <4>1. mState'[m] = "RELEASED"
          BY <1>1, <3>1, <3>2 DEF TypeOK
        <4> QED
          BY <4>1 DEF MachineStep
      <3> QED
        BY <1>6, <3>1, <3>2
    <2> QED
      BY <1>1, <2>2, <2>3, <2>4 DEF TypeOK, AgpsState
  <1>10. CASE e = "DENIED"
    <2>1. ev = "DENIED" \/ mState[n] = "PENDING"
      BY <1>2, <1>10 DEF EventFor
    <2>2. CASE mState[n] \in {"RELEASED", "ACQUIRED"}
      <3>1. mState' = mState /\ fwReq' = fwReq
        BY <1>3, <1>10, <2>2 DEF processAgpsEventDenied
      <3>2. CASE m = n
        BY <1>4, <2>1, <2>2, <3>1, <3>2 DEF MachineStep, HeadReports
      <3> QED
        BY <1>7, <3>1, <3>2
    <2>3. CASE mState[n] = "RELEASING"
      BY <1>3, <1>5, <1>10, <2>3 DEF processAgpsEventDenied
    <2>4. CASE mState[n] = "PENDING"
      <3>1. mState' = [mState EXCEPT ![n] = "RELEASED"] /\ fwReq' = fwReq
        BY <1>3, <1>10, <2>4 DEF processAgpsEventDenied, transitionState
      <3>2. CASE m = n
        <4>1. mState'[m] = "RELEASED"
          BY <1>1, <3>1, <3>2 DEF TypeOK
        <4> QED
          BY <4>1 DEF MachineStep
      <3> QED
        BY <1>6, <3>1, <3>2
    <2> QED
      BY <1>1, <2>2, <2>3, <2>4 DEF TypeOK, AgpsState
  <1> QED
    BY <1>8, <1>9, <1>10

\* Every handler is a MachineStep of every machine.
LEMMA HandlerMoves ==
  ASSUME TypeOK, MsgThread, NEW m \in Nif
  PROVE  MachineStep(m)
  <1>1. CASE requestATL
    <2> DEFINE h == Head(msgQ).h
               t == Head(msgQ).type
               kind == IF t = "SUPL_ES" THEN "wait" ELSE "plain"
    <2>1. NifFor(t) \in Nif /\ Head(msgQ).msg # "Report"
      BY <1>1, HeadTypes, NifForType DEF requestATL, TypeOK, IsNext
    <2>2. CASE processAgpsEventSubscribe(NifFor(t), h, kind)
      BY <2>1, <2>2, SubscribeMoves
    <2>3. CASE UNCHANGED <<mState, fwReq>>
      BY <2>1, <2>3, LeftAlone
    <2> QED
      BY <1>1, <2>2, <2>3 DEF requestATL
  <1>2. CASE releaseATL
    <2>1. Head(msgQ).msg # "Report"
      BY <1>2 DEF releaseATL, IsNext
    <2>2. CASE \E n \in Nif : processAgpsEventUnsubscribe(n, Head(msgQ).h)
      BY <2>1, <2>2, UnsubscribeMoves
    <2>3. CASE UNCHANGED <<mState, fwReq>>
      BY <2>1, <2>3, LeftAlone
    <2> QED
      BY <1>2, <2>2, <2>3 DEF releaseATL, Nif
  <1> QED
    BY <1>1, <1>2, ReportMoves DEF MsgThread

\* Any other step leaves the states of the machines alone, and either touches
\* neither the requests nor the connection of m, and grants it nothing, or is
\* one of the steps of m's provider.
LEMMA OutsideMoves ==
  ASSUME TypeOK, [Next]_vars, ~MsgThread, NEW m \in Nif
  PROVE  /\ mState' = mState
         /\ \/ /\ fwReq'[m] = fwReq[m] /\ conn'[m] = conn[m]
               /\ \/ msgQ' = msgQ
                  \/ \E x \in Msg : msgQ' = Append(msgQ, x) /\ x # Report(m, "GRANTED")
            \/ \E up \in BOOLEAN : ProviderConnects(m, up)
            \/ ProviderReleases(m)
            \/ ConnectionLost(m)
  <1>1. CASE InitAgps \/ retryRead \/ UNCHANGED vars
    BY <1>1 DEF InitAgps, retryRead, vars
  <1>2. CASE retryPost
    <2>1. PICK h \in retry : msgQ' = Append(msgQ, MsgRequestATL(h, "SUPL_ES"))
      BY <1>2 DEF retryPost
    <2>2. MsgRequestATL(h, "SUPL_ES") \in Msg /\ MsgRequestATL(h, "SUPL_ES") # Report(m, "GRANTED")
      BY MessageTypes DEF TypeOK, AgpsType, MsgRequestATL, Report
    <2> QED
      BY <1>2, <2>1, <2>2 DEF retryPost
  <1>3. ASSUME NEW h \in Handles, NEW t \in Types[h], ModemRequest(h, t)
        PROVE  /\ mState' = mState /\ fwReq' = fwReq /\ conn' = conn
               /\ \E x \in Msg : msgQ' = Append(msgQ, x) /\ x # Report(m, "GRANTED")
    <2>1. t \in AgpsType
      BY TypesAssumption DEF AgpsType
    <2>2. MsgRequestATL(h, t) \in Msg /\ MsgRequestATL(h, t) # Report(m, "GRANTED")
      BY <2>1, MessageTypes DEF MsgRequestATL, Report
    <2> QED
      BY <1>3, <2>2 DEF ModemRequest
  <1>4. ASSUME NEW h \in Handles, ModemRelease(h)
        PROVE  /\ mState' = mState /\ fwReq' = fwReq /\ conn' = conn
               /\ \E x \in Msg : msgQ' = Append(msgQ, x) /\ x # Report(m, "GRANTED")
    <2>1. MsgReleaseATL(h) \in Msg /\ MsgReleaseATL(h) # Report(m, "GRANTED")
      BY MessageTypes DEF MsgReleaseATL, Report
    <2> QED
      BY <1>4, <2>1 DEF ModemRelease
  <1>5. ASSUME NEW n \in Nif, n # m, Provider(n) \/ ConnectionLost(n)
        PROVE  /\ mState' = mState /\ fwReq'[m] = fwReq[m] /\ conn'[m] = conn[m]
               /\ \/ msgQ' = msgQ
                  \/ \E x \in Msg : msgQ' = Append(msgQ, x) /\ x # Report(m, "GRANTED")
    <2>1. \A e \in {"GRANTED", "RELEASED", "DENIED"} :
            Report(n, e) \in Msg /\ Report(n, e) # Report(m, "GRANTED")
      BY <1>5, MessageTypes DEF Report
    <2>2. CASE ConnectionLost(n)
      BY <1>5, <2>1, <2>2 DEF ConnectionLost, TypeOK
    <2>3. CASE ProviderReleases(n)
      BY <1>5, <2>1, <2>3 DEF ProviderReleases, TypeOK
    <2>4. ASSUME NEW up \in BOOLEAN, ProviderConnects(n, up)
          PROVE  /\ mState' = mState /\ fwReq'[m] = fwReq[m] /\ conn'[m] = conn[m]
                 /\ \E x \in Msg : msgQ' = Append(msgQ, x) /\ x # Report(m, "GRANTED")
      BY <1>5, <2>1, <2>4 DEF ProviderConnects, TypeOK
    <2> QED
      BY <1>5, <2>2, <2>3, <2>4 DEF Provider
  <1>6. CASE Provider(m) \/ ConnectionLost(m)
    BY <1>6 DEF Provider, ProviderConnects, ProviderReleases, ConnectionLost
  <1> QED
    BY <1>1, <1>2, <1>3, <1>4, <1>5, <1>6 DEF Next

-----------------------------------------------------------------------------
(* The connection behind a machine: what each state of a machine owes to the *)
(* requests, the connection and the reports still queued.  GrantsBacked is   *)
(* the strengthening: a grant may be stale, but then the report of the end   *)
(* of the connection stands behind it in the queue.                          *)

GrantBacked(n) ==
  \A i \in DOMAIN msgQ : msgQ[i] = Report(n, "GRANTED") =>
    conn[n] \/ \E j \in DOMAIN msgQ : j > i /\ msgQ[j] = Report(n, "RELEASED")

PendingBacked(n) ==
  n \in FrameworkNif /\ mState[n] = "PENDING" =>
    Asked(n, "REQUEST") \/ Reported(n, {"GRANTED", "DENIED"})

AcquiredBacked(n) ==
  mState[n] = "ACQUIRED" => conn[n] \/ Reported(n, {"RELEASED"})

\* A release is asked for that will take down a connection.
ReleaseDue(n) ==
  \E i \in DOMAIN fwReq[n] :
    /\ fwReq[n][i] = "RELEASE"
    /\ conn[n] \/ \E j \in 1..(i - 1) : fwReq[n][j] = "REQUEST"

ReleasingBacked(n) ==
  n \in FrameworkNif /\ mState[n] = "RELEASING" =>
    Reported(n, {"RELEASED", "DENIED"}) \/ ReleaseDue(n)

Backed(n) == GrantBacked(n) /\ PendingBacked(n) /\ AcquiredBacked(n) /\ ReleasingBacked(n)

\* A report that stands in the queue stays there when a message is appended.
LEMMA ReportStays ==
  ASSUME TypeOK, NEW n \in Nif, NEW x \in Msg, msgQ' = Append(msgQ, x)
  PROVE  /\ \A E : Reported(n, E) => Reported(n, E)'
         /\ \A e : x = Report(n, e) => \A E : e \in E => Reported(n, E)'
  <1>1. /\ \A i \in DOMAIN msgQ : i \in DOMAIN msgQ' /\ msgQ'[i] = msgQ[i]
        /\ Len(msgQ) + 1 \in DOMAIN msgQ' /\ msgQ'[Len(msgQ) + 1] = x
    BY DEF TypeOK
  <1> QED
    BY <1>1 DEF Reported

\* A report that is not the one handled stays in the queue.
LEMMA ReportMovesUp ==
  ASSUME TypeOK, MsgThread, NEW n \in Nif, NEW E, Reported(n, E), ~HeadReports(n, E)
  PROVE  Reported(n, E)'
  <1>1. PICK more \in Seq(RequestMsgs) : Consume(more)
    BY HandlerConsumes
  <1>2. msgQ # <<>> /\ msgQ \in Seq(Msg)
    BY HandlerConsumes DEF TypeOK
  <1>3. PICK i \in DOMAIN msgQ, e \in E : msgQ[i] = Report(n, e)
    BY DEF Reported
  <1>4. /\ msgQ[1] = Head(msgQ)
        /\ i # 1 => i - 1 \in DOMAIN msgQ' /\ msgQ'[i - 1] = msgQ[i]
    BY <1>1, <1>2, ConsumedAt
  <1>5. i # 1
    BY <1>3, <1>4 DEF HeadReports
  <1> QED
    BY <1>3, <1>4, <1>5 DEF Reported

\* Handlers keep every grant backed: they post no report.
LEMMA HandlerGrants ==
  ASSUME TypeOK, MsgThread, NEW n \in Nif, GrantBacked(n)
  PROVE  GrantBacked(n)'
  <1>1. PICK more \in Seq(RequestMsgs) : Consume(more)
    BY HandlerConsumes
  <1>2. msgQ # <<>> /\ msgQ \in Seq(Msg) /\ conn' = conn
    BY HandlerConsumes DEF TypeOK
  <1>3. /\ \A i \in DOMAIN msgQ : i # 1 => i - 1 \in DOMAIN msgQ' /\ msgQ'[i - 1] = msgQ[i]
        /\ \A i \in DOMAIN msgQ' :
              \/ i + 1 \in DOMAIN msgQ /\ msgQ'[i] = msgQ[i + 1]
              \/ i \geq Len(msgQ) /\ msgQ'[i] \in RequestMsgs
    BY <1>1, <1>2, ConsumedAt
  <1> SUFFICES ASSUME NEW i \in DOMAIN msgQ', msgQ'[i] = Report(n, "GRANTED"), ~conn[n]
               PROVE  \E j \in DOMAIN msgQ' : j > i /\ msgQ'[j] = Report(n, "RELEASED")
    BY <1>2 DEF GrantBacked
  <1>4. msgQ'[i] \notin RequestMsgs
    <2>1. \A x \in RequestMsgs : x.msg = "RequestATL"
      BY DEF RequestMsgs, MsgRequestATL
    <2>2. msgQ'[i].msg = "Report"
      BY DEF Report
    <2> QED
      BY <2>1, <2>2
  <1>5. i + 1 \in DOMAIN msgQ /\ msgQ[i + 1] = Report(n, "GRANTED")
    BY <1>3, <1>4
  <1>6. PICK j \in DOMAIN msgQ : j > i + 1 /\ msgQ[j] = Report(n, "RELEASED")
    BY <1>5 DEF GrantBacked
  <1>7. i \in Nat /\ j \in Nat /\ i \geq 1
    <2>1. msgQ' \in Seq(Msg)
      BY MsgThreadType DEF TypeOK
    <2> QED
      BY <1>2, <2>1
  <1>8. j - 1 \in DOMAIN msgQ' /\ msgQ'[j - 1] = Report(n, "RELEASED") /\ j - 1 > i
    BY <1>3, <1>6, <1>7
  <1> QED
    BY <1>8

\* A handler keeps a machine backed: an outcome that is not handled stays
\* queued, and a machine enters PENDING, ACQUIRED or RELEASING with one due.
LEMMA HandlerBacks ==
  ASSUME TypeOK, MsgThread, NEW n \in Nif, Backed(n)
  PROVE  Backed(n)'
  <1>1. MachineStep(n) /\ conn' = conn
    BY HandlerMoves, HandlerConsumes
  <1>2. GrantBacked(n)'
    BY HandlerGrants DEF Backed
  <1>3. fwReq[n] \in Seq(Conn)
    BY DEF TypeOK
  <1>4. PendingBacked(n)'
    <2> SUFFICES ASSUME n \in FrameworkNif, mState'[n] = "PENDING"
                 PROVE  Asked(n, "REQUEST")' \/ Reported(n, {"GRANTED", "DENIED"})'
      BY DEF PendingBacked
    <2>1. CASE fwReq'[n] = Append(fwReq[n], "REQUEST")
      <3>1. Len(fwReq[n]) + 1 \in DOMAIN fwReq'[n] /\ fwReq'[n][Len(fwReq[n]) + 1] = "REQUEST"
        BY <1>3, <2>1
      <3> QED
        BY <3>1 DEF Asked
    <2>2. CASE fwReq'[n] = fwReq[n] /\ mState[n] = "PENDING" /\ ~HeadReports(n, {"GRANTED", "DENIED"})
      <3>1. Asked(n, "REQUEST") \/ Reported(n, {"GRANTED", "DENIED"})
        BY <2>2 DEF Backed, PendingBacked
      <3>2. Asked(n, "REQUEST") => Asked(n, "REQUEST")'
        BY <2>2 DEF Asked
      <3> QED
        BY <2>2, <3>1, <3>2, ReportMovesUp
    <2> QED
      BY <1>1, <2>1, <2>2 DEF MachineStep, FrameworkNif
  <1>5. AcquiredBacked(n)'
    <2> SUFFICES ASSUME mState'[n] = "ACQUIRED", ~conn[n]
                 PROVE  Reported(n, {"RELEASED"})'
      BY <1>1 DEF AcquiredBacked
    <2>1. CASE mState[n] = "ACQUIRED" /\ ~HeadReports(n, {"RELEASED"})
      BY <2>1, ReportMovesUp DEF Backed, AcquiredBacked
    <2>2. CASE Head(msgQ) = Report(n, "GRANTED")
      <3>1. 1 \in DOMAIN msgQ /\ msgQ[1] = Head(msgQ)
        BY HandlerConsumes DEF TypeOK
      <3>2. Reported(n, {"RELEASED"})
        BY <2>2, <3>1 DEF Backed, GrantBacked, Reported
      <3>3. ~HeadReports(n, {"RELEASED"})
        BY <2>2 DEF HeadReports, Report
      <3> QED
        BY <3>2, <3>3, ReportMovesUp
    <2> QED
      BY <1>1, <2>1, <2>2 DEF MachineStep
  <1>6. ReleasingBacked(n)'
    <2> SUFFICES ASSUME n \in FrameworkNif, mState'[n] = "RELEASING"
                 PROVE  Reported(n, {"RELEASED", "DENIED"})' \/ ReleaseDue(n)'
      BY DEF ReleasingBacked
    <2>1. CASE /\ mState[n] = "RELEASING" /\ fwReq'[n] = fwReq[n]
               /\ ~HeadReports(n, {"RELEASED", "DENIED"})
      <3>1. ReleaseDue(n) => ReleaseDue(n)'
        BY <1>1, <2>1 DEF ReleaseDue
      <3> QED
        BY <2>1, <3>1, ReportMovesUp DEF Backed, ReleasingBacked
    <2>2. CASE /\ mState[n] \in {"PENDING", "ACQUIRED"}
               /\ fwReq'[n] = Append(fwReq[n], "RELEASE")
               /\ Head(msgQ).msg # "Report"
      <3>1. \A E : ~HeadReports(n, E)
        BY <2>2 DEF HeadReports, Report
      <3>2. /\ Len(fwReq[n]) + 1 \in DOMAIN fwReq'[n]
            /\ fwReq'[n][Len(fwReq[n]) + 1] = "RELEASE"
            /\ \A j \in DOMAIN fwReq[n] : /\ fwReq'[n][j] = fwReq[n][j]
                                          /\ j \in 1..(Len(fwReq[n]) + 1 - 1)
        BY <1>3, <2>2
      <3>3. conn[n] \/ Asked(n, "REQUEST") => ReleaseDue(n)'
        BY <1>1, <3>2 DEF ReleaseDue, Asked
      <3>4. Reported(n, {"RELEASED"}) \/ Reported(n, {"DENIED"}) => Reported(n, {"RELEASED", "DENIED"})
        BY DEF Reported
      <3>5. Reported(n, {"GRANTED"}) => conn[n] \/ Reported(n, {"RELEASED"})
        BY DEF Reported, Backed, GrantBacked
      <3>6. Reported(n, {"GRANTED", "DENIED"}) => Reported(n, {"GRANTED"}) \/ Reported(n, {"DENIED"})
        BY DEF Reported
      <3>7. conn[n] \/ Asked(n, "REQUEST") \/ Reported(n, {"RELEASED", "DENIED"})
        BY <2>2, <3>4, <3>5, <3>6 DEF Backed, PendingBacked, AcquiredBacked
      <3> QED
        BY <3>1, <3>3, <3>7, ReportMovesUp
    <2> QED
      BY <1>1, <2>1, <2>2 DEF MachineStep
  <1> QED
    BY <1>2, <1>4, <1>5, <1>6 DEF Backed

\* The steps outside the message thread keep a machine backed: a request that
\* is served turns into a report, and so does a connection that ends.
LEMMA OutsideBacks ==
  ASSUME TypeOK, [Next]_vars, ~MsgThread, NEW n \in Nif, Backed(n)
  PROVE  Backed(n)'
  <1>1. mState' = mState /\ msgQ \in Seq(Msg) /\ fwReq[n] \in Seq(Conn) /\ conn[n] \in BOOLEAN
    BY OutsideMoves DEF TypeOK
  <1>2. CASE fwReq'[n] = fwReq[n] /\ conn'[n] = conn[n] /\ msgQ' = msgQ
    BY <1>1, <1>2 DEF Backed, GrantBacked, PendingBacked, AcquiredBacked, ReleasingBacked,
                      ReleaseDue, Asked, Reported
  <1>3. ASSUME fwReq'[n] = fwReq[n], conn'[n] = conn[n], NEW x \in Msg,
               msgQ' = Append(msgQ, x), x # Report(n, "GRANTED")
        PROVE  Backed(n)'
    <2>1. \A E : Reported(n, E) => Reported(n, E)'
      BY <1>3, ReportStays
    <2>2. /\ \A c : Asked(n, c)' <=> Asked(n, c)
          /\ ReleaseDue(n)' <=> ReleaseDue(n)
      BY <1>3 DEF Asked, ReleaseDue
    <2>3. GrantBacked(n)'
      BY <1>1, <1>3 DEF Backed, GrantBacked
    <2> QED
      BY <1>1, <1>3, <2>1, <2>2, <2>3
      DEF Backed, PendingBacked, AcquiredBacked, ReleasingBacked
  <1>4. ASSUME NEW up \in BOOLEAN, ProviderConnects(n, up)
        PROVE  Backed(n)'
    <2> DEFINE e == IF up THEN "GRANTED" ELSE IF n = "DS" THEN "RELEASED" ELSE "DENIED"
    <2>1. /\ msgQ' = Append(msgQ, Report(n, e)) /\ Report(n, e) \in Msg
          /\ conn'[n] = up /\ (conn[n] => up)
          /\ fwReq[n] # <<>> /\ fwReq[n][1] = "REQUEST" /\ fwReq'[n] = Tail(fwReq[n])
      BY <1>1, <1>4, MessageTypes DEF ProviderConnects, TypeOK
    <2>2. /\ \A E : Reported(n, E) => Reported(n, E)'
          /\ \A E : e \in E => Reported(n, E)'
      BY <2>1, ReportStays
    <2>3. GrantBacked(n)'
      <3>1. CASE up
        BY <2>1, <3>1 DEF GrantBacked
      <3>2. CASE ~up
        <4>1. Report(n, e) # Report(n, "GRANTED")
          BY <3>2 DEF Report
        <4> QED
          BY <1>1, <2>1, <3>2, <4>1 DEF Backed, GrantBacked
      <3> QED
        BY <3>1, <3>2
    <2>4. PendingBacked(n)'
      BY <2>2 DEF PendingBacked, FrameworkNif
    <2>5. AcquiredBacked(n)'
      BY <1>1, <2>1, <2>2 DEF Backed, AcquiredBacked
    <2>6. ASSUME n \in FrameworkNif, up, ReleaseDue(n)
          PROVE  ReleaseDue(n)'
      <3>1. PICK i \in DOMAIN fwReq[n] : fwReq[n][i] = "RELEASE"
        BY <2>6 DEF ReleaseDue
      <3>2. i # 1
        BY <2>1, <3>1
      <3>3. i - 1 \in DOMAIN fwReq'[n] /\ fwReq'[n][i - 1] = "RELEASE"
        BY <1>1, <2>1, <3>1, <3>2
      <3> QED
        BY <2>1, <2>6, <3>3 DEF ReleaseDue
    <2>7. ReleasingBacked(n)'
      BY <1>1, <2>2, <2>6 DEF Backed, ReleasingBacked, FrameworkNif
    <2> QED
      BY <2>3, <2>4, <2>5, <2>7 DEF Backed
  <1>5. CASE ProviderReleases(n)
    <2>1. /\ conn'[n] = FALSE
          /\ msgQ' = IF conn[n] THEN Append(msgQ, Report(n, "RELEASED")) ELSE msgQ
          /\ fwReq[n] # <<>> /\ fwReq[n][1] = "RELEASE" /\ fwReq'[n] = Tail(fwReq[n])
          /\ Report(n, "RELEASED") \in Msg
      BY <1>1, <1>5, MessageTypes DEF ProviderReleases, TypeOK
    <2>2. /\ \A E : Reported(n, E) => Reported(n, E)'
          /\ conn[n] => \A E : "RELEASED" \in E => Reported(n, E)'
      <3>1. CASE conn[n]
        BY <2>1, <3>1, ReportStays
      <3>2. CASE ~conn[n]
        BY <2>1, <3>2 DEF Reported
      <3> QED
        BY <3>1, <3>2
    <2>3. GrantBacked(n)'
      <3>1. CASE conn[n]
        <4>1. Report(n, "RELEASED") # Report(n, "GRANTED")
          BY DEF Report
        <4> QED
          BY <1>1, <2>1, <3>1, <4>1 DEF GrantBacked
      <3>2. CASE ~conn[n]
        BY <2>1, <3>2 DEF Backed, GrantBacked
      <3> QED
        BY <3>1, <3>2
    <2>4. Asked(n, "REQUEST") => Asked(n, "REQUEST")'
      <3> SUFFICES ASSUME NEW i \in DOMAIN fwReq[n], fwReq[n][i] = "REQUEST"
                   PROVE  Asked(n, "REQUEST")'
        BY DEF Asked
      <3>1. i - 1 \in DOMAIN fwReq'[n] /\ fwReq'[n][i - 1] = "REQUEST"
        BY <1>1, <2>1
      <3> QED
        BY <3>1 DEF Asked
    <2>5. ~conn[n] /\ ReleaseDue(n) => ReleaseDue(n)'
      <3> SUFFICES ASSUME ~conn[n], NEW i \in DOMAIN fwReq[n], NEW j \in 1..(i - 1),
                          fwReq[n][i] = "RELEASE", fwReq[n][j] = "REQUEST"
                   PROVE  ReleaseDue(n)'
        BY DEF ReleaseDue
      <3>1. j # 1 /\ i \in Nat /\ j \in DOMAIN fwReq[n]
        BY <1>1, <2>1
      <3>2. /\ i - 1 \in DOMAIN fwReq'[n] /\ fwReq'[n][i - 1] = "RELEASE"
            /\ j - 1 \in 1..(i - 1 - 1) /\ fwReq'[n][j - 1] = "REQUEST"
        BY <1>1, <2>1, <3>1
      <3> QED
        BY <3>2 DEF ReleaseDue
    <2> QED
      BY <1>1, <2>2, <2>3, <2>4, <2>5
      DEF Backed, PendingBacked, AcquiredBacked, ReleasingBacked
  <1>6. CASE ConnectionLost(n)
    <2>1. /\ conn[n] /\ conn'[n] = FALSE /\ fwReq' = fwReq
          /\ msgQ' = Append(msgQ, Report(n, "RELEASED")) /\ Report(n, "RELEASED") \in Msg
      BY <1>6, MessageTypes DEF ConnectionLost, TypeOK
    <2>2. /\ \A E : Reported(n, E) => Reported(n, E)'
          /\ \A E : "RELEASED" \in E => Reported(n, E)'
      BY <2>1, ReportStays
    <2>3. GrantBacked(n)'
      <3>1. Report(n, "RELEASED") # Report(n, "GRANTED")
        BY DEF Report
      <3> QED
        BY <1>1, <2>1, <3>1 DEF GrantBacked
    <2>4. Asked(n, "REQUEST")' <=> Asked(n, "REQUEST")
      BY <2>1 DEF Asked
    <2> QED
      BY <1>1, <2>2, <2>3, <2>4 DEF Backed, PendingBacked, AcquiredBacked, ReleasingBacked
  <1> QED
    BY <1>2, <1>3, <1>4, <1>5, <1>6, OutsideMoves

AllBacked == \A n \in Nif : Backed(n)

\* Every step keeps every machine backed, and every machine starts so.
LEMMA BackedStep ==
  ASSUME TypeOK, AllBacked, [Next]_vars
  PROVE  AllBacked'
  BY HandlerBacks, OutsideBacks DEF AllBacked

\* No connection is granted or pending in an initial state.
LEMMA BackedInit == Init => AllBacked
  BY DEF Init, AllBacked, Backed, GrantBacked, PendingBacked, AcquiredBacked, ReleasingBacked

\* A machine of the framework that is PENDING has its request with the
\* framework, or the outcome queued: new subscribers do not wait in vain.
THEOREM PendingHasOutcome == Spec => []FrameworkPendingHasRequest
  <1>1. AllBacked => FrameworkPendingHasRequest
    <2> SUFFICES ASSUME AllBacked, NEW n \in FrameworkNif, mState[n] = "PENDING"
                 PROVE  Asked(n, "REQUEST") \/ Reported(n, {"GRANTED", "DENIED"} \cup {})
      BY DEF FrameworkPendingHasRequest, PendingOutcomeComing, FrameworkNif
    <2>1. {"GRANTED", "DENIED"} \cup {} = {"GRANTED", "DENIED"}
      OBVIOUS
    <2> QED
      BY <2>1 DEF AllBacked, Backed, PendingBacked, FrameworkNif, Nif
  <1> QED
    BY <1>1, BackedInit, BackedStep, TypeCorrect, PTL DEF Spec

\* A machine that is ACQUIRED has its connection, or the report of its end is
\* queued: a stale grant never stands alone.
THEOREM NoStaleConnection == Spec => []AcquiredIsBacked
  <1>1. AllBacked => AcquiredIsBacked
    BY DEF AllBacked, Backed, AcquiredBacked, AcquiredIsBacked
  <1> QED
    BY <1>1, BackedInit, BackedStep, TypeCorrect, PTL DEF Spec

\* A machine of the framework never waits in RELEASING for a report that
\* nobody will send.
THEOREM ReleasingEnds == Spec => []ReleasingWillEnd
  <1>1. AllBacked => ReleasingWillEnd
    BY DEF AllBacked, Backed, ReleasingBacked, ReleaseDue, ReleasingWillEnd, FrameworkNif, Nif
  <1> QED
    BY <1>1, BackedInit, BackedStep, TypeCorrect, PTL DEF Spec

-----------------------------------------------------------------------------
(* The links of the modem and the subscriber lists, when emergency SUPL uses *)
(* the machine of SUPL (gps.conf USE_EMERGENCY_PDN_FOR_EMERGENCY_SUPL = 0).  *)
(* A handle is then listed by one machine at most, its request is queued     *)
(* once and before its release, and the modem has not given up a link whose  *)
(* release is not queued.                                                    *)

RequestAt(i, h) == msgQ[i].msg = "RequestATL" /\ msgQ[i].h = h
ReleaseAt(i, h) == msgQ[i] = MsgReleaseATL(h)

RequestQueued(h) == \E i \in DOMAIN msgQ : RequestAt(i, h)
ReleaseQueued(h) == \E i \in DOMAIN msgQ : ReleaseAt(i, h)
RequestOnce(h) == \A i, j \in DOMAIN msgQ : RequestAt(i, h) /\ RequestAt(j, h) => i = j
ReleaseFollows(h) ==
  \A i \in DOMAIN msgQ : RequestAt(i, h) => \E j \in DOMAIN msgQ : j > i /\ ReleaseAt(j, h)

Linked(h) ==
  /\ \A n, m \in Nif : subs[n][h] # "none" /\ subs[m][h] # "none" => n = m
  /\ \A n \in Nif : subs[n][h] # "none" => n \in created
  /\ RequestOnce(h)
  /\ RequestQueued(h) => /\ \A n \in Nif : subs[n][h] = "none"
                         /\ modem[h] = "opening" \/ ReleaseFollows(h)
  /\ ReleaseQueued(h) => modem[h] \in {"closing", "idle"}
  /\ \A n \in Nif : subs[n][h] \in Active =>
       modem[h] \in {"opening", "open"} \/ ReleaseQueued(h)
  /\ modem[h] = "open" => \E n \in Nif : mState[n] = "ACQUIRED" /\ subs[n][h] \in Active

\* Nobody uses the DS machine.
DsIdle == timers = 0 /\ retry = {} /\ mState["DS"] = "RELEASED" /\ subs["DS"] = NoSubs

AllLinked == DsIdle /\ \A h \in Handles : Linked(h)

\* What handling the first message does to the requests and releases queued.
LEMMA ConsumedLinks ==
  ASSUME msgQ \in Seq(Msg), msgQ # <<>>, Consume(<<>>), NEW h, RequestOnce(h)
  PROVE  /\ RequestOnce(h)'
         /\ RequestQueued(h)' => RequestQueued(h)
         /\ ReleaseQueued(h)' => ReleaseQueued(h)
         /\ ReleaseFollows(h) => ReleaseFollows(h)'
         /\ ReleaseQueued(h) /\ Head(msgQ) # MsgReleaseATL(h) => ReleaseQueued(h)'
         /\ Head(msgQ).msg = "RequestATL" /\ Head(msgQ).h = h =>
              /\ RequestQueued(h) /\ ~RequestQueued(h)'
              /\ ReleaseFollows(h) => ReleaseQueued(h) /\ ReleaseQueued(h)'
         /\ Head(msgQ) = MsgReleaseATL(h) => ReleaseQueued(h)
  <1>1. <<>> \in Seq(RequestMsgs)
    OBVIOUS
  <1>2. /\ msgQ[1] = Head(msgQ) /\ 1 \in DOMAIN msgQ
        /\ \A i \in DOMAIN msgQ : i # 1 => i - 1 \in DOMAIN msgQ' /\ msgQ'[i - 1] = msgQ[i]
    BY <1>1, ConsumedAt
  <1>3. msgQ' = Tail(msgQ)
    BY DEF Consume
  <1>4. /\ DOMAIN msgQ = 1..Len(msgQ) /\ DOMAIN msgQ' = 1..(Len(msgQ) - 1) /\ Len(msgQ) \in Nat
        /\ \A i \in DOMAIN msgQ' : i + 1 \in DOMAIN msgQ /\ msgQ'[i] = msgQ[i + 1]
    BY <1>3
  <1>5. RequestOnce(h)'
    <2> SUFFICES ASSUME NEW i \in DOMAIN msgQ', NEW j \in DOMAIN msgQ',
                        RequestAt(i + 1, h), RequestAt(j + 1, h)
                 PROVE  i = j
      BY <1>4 DEF RequestOnce, RequestAt
    <2>1. i + 1 = j + 1
      BY <1>4 DEF RequestOnce
    <2> QED
      BY <1>4, <2>1
  <1>6. /\ RequestQueued(h)' => RequestQueued(h)
        /\ ReleaseQueued(h)' => ReleaseQueued(h)
    BY <1>4 DEF RequestQueued, ReleaseQueued, RequestAt, ReleaseAt
  <1>7. ReleaseQueued(h) /\ Head(msgQ) # MsgReleaseATL(h) => ReleaseQueued(h)'
    <2> SUFFICES ASSUME NEW i \in DOMAIN msgQ, msgQ[i] = MsgReleaseATL(h), Head(msgQ) # MsgReleaseATL(h)
                 PROVE  ReleaseQueued(h)'
      BY DEF ReleaseQueued, ReleaseAt
    <2>1. i # 1
      BY <1>2
    <2>2. i - 1 \in DOMAIN msgQ' /\ msgQ'[i - 1] = MsgReleaseATL(h)
      BY <1>2, <2>1
    <2> QED
      BY <2>2 DEF ReleaseQueued, ReleaseAt
  <1>8. ReleaseFollows(h) => ReleaseFollows(h)'
    <2> SUFFICES ASSUME ReleaseFollows(h), NEW i \in DOMAIN msgQ', RequestAt(i + 1, h)
                 PROVE  \E j \in DOMAIN msgQ' : j > i /\ msgQ'[j] = MsgReleaseATL(h)
      BY <1>4 DEF ReleaseFollows, RequestAt, ReleaseAt
    <2>1. PICK j \in DOMAIN msgQ : j > i + 1 /\ msgQ[j] = MsgReleaseATL(h)
      BY <1>4 DEF ReleaseFollows, ReleaseAt
    <2>2. j - 1 \in DOMAIN msgQ' /\ j - 1 > i /\ msgQ'[j - 1] = msgQ[j]
      BY <1>2, <1>4, <2>1
    <2> QED
      BY <2>1, <2>2
  <1>9. ASSUME Head(msgQ).msg = "RequestATL", Head(msgQ).h = h
        PROVE  /\ RequestQueued(h) /\ ~RequestQueued(h)'
               /\ ReleaseFollows(h) => ReleaseQueued(h) /\ ReleaseQueued(h)'
    <2>1. RequestAt(1, h)
      BY <1>2, <1>9 DEF RequestAt
    <2>2. ASSUME NEW i \in DOMAIN msgQ', RequestAt(i + 1, h)
          PROVE  FALSE
      <3>1. i + 1 = 1
        BY <1>2, <1>4, <2>1, <2>2 DEF RequestOnce
      <3> QED
        BY <1>4, <3>1
    <2>3. ~RequestQueued(h)'
      BY <1>4, <2>2 DEF RequestQueued, RequestAt
    <2>4. ReleaseFollows(h) => \E j \in DOMAIN msgQ : j > 1 /\ msgQ[j] = MsgReleaseATL(h)
      BY <1>2, <2>1 DEF ReleaseFollows, ReleaseAt
    <2>5. ReleaseFollows(h) => \E j \in DOMAIN msgQ : j # 1 /\ msgQ[j] = MsgReleaseATL(h)
      BY <1>4, <2>4
    <2>6. ReleaseFollows(h) => ReleaseQueued(h) /\ ReleaseQueued(h)'
      BY <1>2, <2>5 DEF ReleaseQueued, ReleaseAt
    <2> QED
      BY <1>2, <2>1, <2>3, <2>6 DEF RequestQueued
  <1>10. Head(msgQ) = MsgReleaseATL(h) => ReleaseQueued(h)
    BY <1>2 DEF ReleaseQueued, ReleaseAt
  <1> QED
    BY <1>5, <1>6, <1>7, <1>8, <1>9, <1>10

\* What a new message does to them.
LEMMA AppendedLinks ==
  ASSUME msgQ \in Seq(Msg), NEW x \in Msg, msgQ' = Append(msgQ, x), NEW h, RequestOnce(h)
  PROVE  /\ ~Names(x, h) => /\ RequestOnce(h)'
                            /\ RequestQueued(h)' => RequestQueued(h)
                            /\ ReleaseQueued(h)' <=> ReleaseQueued(h)
                            /\ ReleaseFollows(h) => ReleaseFollows(h)'
         /\ x.msg = "RequestATL" /\ ~Queued(h) => RequestOnce(h)' /\ ~ReleaseQueued(h)'
         /\ x = MsgReleaseATL(h) => /\ RequestOnce(h)' /\ ReleaseFollows(h)'
                                    /\ RequestQueued(h)' => RequestQueued(h)
                                    /\ ReleaseQueued(h)'
  <1>1. /\ DOMAIN msgQ = 1..Len(msgQ) /\ Len(msgQ) \in Nat
        /\ DOMAIN msgQ' = 1..(Len(msgQ) + 1)
        /\ msgQ'[Len(msgQ) + 1] = x
        /\ \A i \in DOMAIN msgQ : i \in DOMAIN msgQ' /\ msgQ'[i] = msgQ[i]
        /\ \A i \in DOMAIN msgQ' : i \in DOMAIN msgQ \/ i = Len(msgQ) + 1
    OBVIOUS
  <1>2. ASSUME ~Names(x, h)
        PROVE  /\ RequestOnce(h)'
               /\ RequestQueued(h)' => RequestQueued(h)
               /\ ReleaseQueued(h)' <=> ReleaseQueued(h)
               /\ ReleaseFollows(h) => ReleaseFollows(h)'
    <2>1. ~(x.msg = "RequestATL" /\ x.h = h) /\ x # MsgReleaseATL(h)
      BY <1>2 DEF Names, MsgReleaseATL
    <2> QED
      BY <1>1, <2>1 DEF RequestOnce, RequestQueued, ReleaseQueued, ReleaseFollows, RequestAt, ReleaseAt
  <1>3. ASSUME x.msg = "RequestATL", ~Queued(h)
        PROVE  RequestOnce(h)' /\ ~ReleaseQueued(h)'
    <2>1. \A i \in DOMAIN msgQ : ~RequestAt(i, h) /\ ~ReleaseAt(i, h)
      BY <1>3 DEF Queued, Names, RequestAt, ReleaseAt, MsgReleaseATL
    <2>2. x # MsgReleaseATL(h)
      BY <1>3 DEF MsgReleaseATL
    <2> QED
      BY <1>1, <2>1, <2>2 DEF RequestOnce, ReleaseQueued, RequestAt, ReleaseAt
  <1>4. ASSUME x = MsgReleaseATL(h)
        PROVE  /\ RequestOnce(h)' /\ ReleaseFollows(h)'
               /\ RequestQueued(h)' => RequestQueued(h)
               /\ ReleaseQueued(h)'
    <2>1. x.msg # "RequestATL"
      BY <1>4 DEF MsgReleaseATL
    <2>2. RequestOnce(h)' /\ (RequestQueued(h)' => RequestQueued(h))
      BY <1>1, <2>1 DEF RequestOnce, RequestQueued, RequestAt
    <2>3. ReleaseFollows(h)'
      BY <1>1, <1>4, <2>1 DEF ReleaseFollows, RequestAt, ReleaseAt
    <2>4. ReleaseQueued(h)'
      BY <1>1, <1>4 DEF ReleaseQueued, ReleaseAt
    <2> QED
      BY <2>2, <2>3, <2>4
  <1> QED
    BY <1>2, <1>3, <1>4

\* A handler that leaves a link, its subscriber and its connection alone keeps
\* it linked.
LEMMA OtherLink ==
  ASSUME TypeOK, NEW g \in Handles, Linked(g), msgQ # <<>>, Consume(<<>>),
         created \subseteq created', modem'[g] = modem[g],
         \A k \in Nif : subs'[k][g] = subs[k][g],
         \A k \in Nif : mState[k] = "ACQUIRED" /\ subs[k][g] \in Active => mState'[k] = "ACQUIRED",
         Head(msgQ) # MsgReleaseATL(g)
  PROVE  Linked(g)'
  <1>1. RequestOnce(g) /\ msgQ \in Seq(Msg)
    BY DEF Linked, TypeOK
  <1>2. /\ RequestOnce(g)'
        /\ RequestQueued(g)' => RequestQueued(g)
        /\ ReleaseQueued(g)' <=> ReleaseQueued(g)
        /\ ReleaseFollows(g) => ReleaseFollows(g)'
    BY <1>1, ConsumedLinks
  <1> QED
    BY <1>2 DEF Linked

\* SUBSCRIBE keeps the links: the handle is not listed anywhere yet.
LEMMA SubscribeLinks ==
  ASSUME TypeOK, AllLinked, msgQ # <<>>, NEW n \in FrameworkNif, NEW h \in Handles, NEW kind \in Active,
         n \in created', created \subseteq created',
         Head(msgQ).msg = "RequestATL", Head(msgQ).h = h,
         processAgpsEventSubscribe(n, h, kind), NEW g \in Handles
  PROVE  Linked(g)'
  <1>1. n \in Nif /\ n # "DS"
    BY DEF FrameworkNif, Nif
  <1>2. msgQ \in Seq(Msg) /\ Linked(h) /\ Linked(g) /\ RequestOnce(h)
    BY DEF AllLinked, TypeOK, Linked
  <1>3. Consume(<<>>)
    BY <1>1 DEF processAgpsEventSubscribe, RequestDataConn
  <1>4. /\ RequestOnce(h)'
        /\ RequestQueued(h) /\ ~RequestQueued(h)'
        /\ ReleaseFollows(h) => ReleaseQueued(h) /\ ReleaseQueued(h)'
        /\ ReleaseQueued(h)' => ReleaseQueued(h)
    BY <1>2, <1>3, ConsumedLinks
  <1>5. \A k \in Nif : subs[k][h] = "none"
    BY <1>2, <1>4 DEF Linked
  <1>6. modem[h] = "opening" \/ ReleaseFollows(h)
    BY <1>2, <1>4 DEF Linked
  <1>7. /\ subs'[n] = [subs[n] EXCEPT ![h] = kind]
        /\ \A k \in Nif : k # n => subs'[k] = subs[k]
    BY <1>1, <1>5 DEF processAgpsEventSubscribe, WithSubscriber, TypeOK
  <1>8. \A k \in Nif : mState[k] = "ACQUIRED" => mState'[k] = "ACQUIRED"
    BY <1>1 DEF processAgpsEventSubscribe, transitionState, TypeOK
  <1>9. modem' = IF mState[n] = "ACQUIRED" THEN AfterOpenStatus({h}, TRUE) ELSE modem
    BY <1>1 DEF processAgpsEventSubscribe, TypeOK, AgpsState
  <1>10. CASE g # h
    <2>1. modem'[g] = modem[g]
      BY <1>9, <1>10 DEF AfterOpenStatus, TypeOK
    <2>2. \A k \in Nif : subs'[k][g] = subs[k][g]
      BY <1>7, <1>10 DEF TypeOK
    <2>3. Head(msgQ) # MsgReleaseATL(g)
      BY DEF MsgReleaseATL
    <2> QED
      BY <1>2, <1>3, <1>8, <2>1, <2>2, <2>3, OtherLink
  <1>11. CASE g = h
    <2>1. subs'[n][h] = kind /\ kind # "none" /\ \A k \in Nif : k # n => subs'[k][h] = "none"
      BY <1>1, <1>5, <1>7 DEF TypeOK, Active
    <2>2. modem'[h] = IF mState[n] = "ACQUIRED" /\ modem[h] = "opening" THEN "open" ELSE modem[h]
      BY <1>9 DEF AfterOpenStatus
    <2>3. ReleaseQueued(h) => modem[h] \in {"closing", "idle"}
      BY <1>2 DEF Linked
    <2>4. modem[h] # "open"
      BY <1>4, <1>6, <2>3
    <2>5. modem'[h] = "open" => mState'[n] = "ACQUIRED" /\ subs'[n][h] \in Active
      BY <1>1, <1>8, <2>1, <2>2, <2>4
    <2>6. ReleaseQueued(h)' => modem'[h] \in {"closing", "idle"}
      BY <1>4, <2>2, <2>3
    <2>7. modem'[h] \in {"opening", "open"} \/ ReleaseQueued(h)'
      BY <1>4, <1>6, <2>2
    <2>8. \A k \in Nif : subs'[k][h] # "none" => k = n /\ k \in created'
      BY <2>1
    <2> QED
      BY <1>1, <1>4, <1>11, <2>5, <2>6, <2>7, <2>8 DEF Linked
  <1> QED
    BY <1>10, <1>11

\* UNSUBSCRIBE keeps the links: the handle has no active subscriber left, and
\* the machine stays ACQUIRED while another has.
LEMMA UnsubscribeLinks ==
  ASSUME TypeOK, AllMatched, AllLinked, msgQ # <<>>, NEW n \in FrameworkNif, NEW h \in Handles,
         created' = created, subs[n][h] # "none", Head(msgQ) = MsgReleaseATL(h),
         processAgpsEventUnsubscribe(n, h), NEW g \in Handles
  PROVE  Linked(g)'
  <1> DEFINE s == [subs[n] EXCEPT ![h] = Unsubscribed(@)]
  <1>1. n \in Nif
    BY DEF FrameworkNif, Nif
  <1>2. msgQ \in Seq(Msg) /\ Linked(h) /\ Linked(g) /\ RequestOnce(h)
    BY DEF AllLinked, TypeOK, Linked
  <1>3. Consume(<<>>)
    BY DEF processAgpsEventUnsubscribe
  <1>4. mState[n] # "RELEASED"
    BY <1>1 DEF AllMatched, Matched, ListedIn
  <1>5. /\ subs' = [subs EXCEPT ![n] = s]
        /\ modem' = IF s[h] = "inactive" THEN modem ELSE AfterCloseStatus({h})
        /\ mState' = [mState EXCEPT ![n] = StateWithout(n, s)]
    BY <1>4 DEF processAgpsEventUnsubscribe, transitionState
  <1>6. subs'[n] = s /\ \A k \in Nif : k # n => subs'[k] = subs[k]
    BY <1>1, <1>5 DEF TypeOK
  <1>7. CASE g # h
    <2>1. modem'[g] = modem[g]
      BY <1>5, <1>7 DEF AfterCloseStatus, TypeOK
    <2>2. \A k \in Nif : subs'[k][g] = subs[k][g]
      BY <1>6, <1>7 DEF TypeOK
    <2>3. Head(msgQ) # MsgReleaseATL(g)
      BY <1>7 DEF MsgReleaseATL
    <2>4. ASSUME NEW k \in Nif, mState[k] = "ACQUIRED", subs[k][g] \in Active
          PROVE  mState'[k] = "ACQUIRED"
      <3>1. CASE k = n
        <4>1. g \in ActiveIn(s) /\ g \in ListedIn(s)
          BY <1>6, <2>2, <2>4, <3>1 DEF ActiveIn, ListedIn, Active
        <4> QED
          BY <1>1, <1>5, <2>4, <3>1, <4>1 DEF StateWithout, TypeOK
      <3>2. CASE k # n
        BY <1>5, <2>4, <3>2 DEF TypeOK
      <3> QED
        BY <3>1, <3>2
    <2> QED
      BY <1>2, <1>3, <2>1, <2>2, <2>3, <2>4, OtherLink
  <1>8. CASE g = h
    <2>1. /\ RequestOnce(h)'
          /\ RequestQueued(h)' => RequestQueued(h)
          /\ ReleaseQueued(h)' => ReleaseQueued(h)
          /\ ReleaseQueued(h)
      BY <1>2, <1>3, ConsumedLinks
    <2>2. ~RequestQueued(h)'
      BY <1>1, <1>2, <2>1 DEF Linked
    <2>3. modem[h] \in {"closing", "idle"}
      BY <1>2, <2>1 DEF Linked
    <2>4. modem'[h] \in {"closing", "idle"}
      BY <1>5, <2>3 DEF AfterCloseStatus
    <2>5. subs'[n][h] \notin Active /\ \A k \in Nif : k # n => subs'[k][h] = "none"
      <3>1. subs'[n][h] = Unsubscribed(subs[n][h])
        BY <1>1, <1>6 DEF TypeOK
      <3>2. subs'[n][h] \notin Active
        BY <3>1 DEF Unsubscribed, Active
      <3>3. \A k \in Nif : k # n => subs[k][h] = "none"
        BY <1>1, <1>2 DEF Linked
      <3> QED
        BY <1>6, <3>2, <3>3
    <2>6. n \in created
      BY <1>1, <1>2 DEF Linked
    <2>7. \A k \in Nif : subs'[k][h] \notin Active
      BY <2>5 DEF Active
    <2>8. \A k \in Nif : subs'[k][h] # "none" => k = n /\ k \in created'
      BY <2>5, <2>6
    <2> QED
      BY <1>8, <2>1, <2>2, <2>4, <2>7, <2>8 DEF Linked
  <1> QED
    BY <1>7, <1>8

\* GRANTED keeps the links: the modem is told of the active subscribers only.
LEMMA GrantedLinks ==
  ASSUME TypeOK, AllLinked, msgQ # <<>>, NEW n \in Nif, Head(msgQ).msg = "Report",
         created' = created, processAgpsEventGranted(n), NEW g \in Handles
  PROVE  Linked(g)'
  <1>1. msgQ \in Seq(Msg) /\ Linked(g) /\ RequestOnce(g)
    BY DEF AllLinked, TypeOK, Linked
  <1>2. Consume(<<>>) /\ subs' = subs /\ Head(msgQ) # MsgReleaseATL(g)
    BY DEF processAgpsEventGranted, MsgReleaseATL
  <1>3. \A k \in Nif : mState[k] = "ACQUIRED" => mState'[k] = "ACQUIRED"
    BY DEF processAgpsEventGranted, transitionState, TypeOK
  <1>4. CASE mState[n] = "PENDING" /\ subs[n][g] \in Active /\ modem[g] = "opening"
    <2>1. modem'[g] = "open" /\ mState'[n] = "ACQUIRED"
      BY <1>4 DEF processAgpsEventGranted, NotifiedOfGrant, AfterOpenStatus, ActiveIn,
                  transitionState, TypeOK
    <2>2. /\ RequestOnce(g)'
          /\ RequestQueued(g)' => RequestQueued(g)
          /\ ReleaseQueued(g)' => ReleaseQueued(g)
      BY <1>1, <1>2, ConsumedLinks
    <2>3. ~ReleaseQueued(g) /\ ~RequestQueued(g)
      BY <1>1, <1>4 DEF Linked, Active
    <2> QED
      BY <1>1, <1>2, <1>4, <2>1, <2>2, <2>3 DEF Linked
  <1>5. CASE ~(mState[n] = "PENDING" /\ subs[n][g] \in Active /\ modem[g] = "opening")
    <2>1. modem'[g] = modem[g]
      BY <1>5 DEF processAgpsEventGranted, NotifiedOfGrant, AfterOpenStatus, ActiveIn
    <2> QED
      BY <1>1, <1>2, <1>3, <2>1, OtherLink
  <1> QED
    BY <1>4, <1>5

\* A machine that is not ACQUIRED, or is left by all, drops some subscribers and
\* tells the modem so: the links stay linked.
LEMMA DroppedLinks ==
  ASSUME TypeOK, NEW g \in Handles, Linked(g), NEW n \in Nif, msgQ # <<>>, Consume(<<>>),
         Head(msgQ).msg = "Report", created' = created,
         subs[n][g] # "none", subs'[n][g] = "none",
         modem'[g] \in {modem[g], "idle"}, modem'[g] # "open",
         \A k \in Nif : k # n => subs'[k] = subs[k]
  PROVE  Linked(g)'
  <1>1. msgQ \in Seq(Msg) /\ RequestOnce(g)
    BY DEF TypeOK, Linked
  <1>2. /\ RequestOnce(g)'
        /\ RequestQueued(g)' => RequestQueued(g)
        /\ ReleaseQueued(g)' => ReleaseQueued(g)
    BY <1>1, ConsumedLinks
  <1>3. ~RequestQueued(g)'
    BY <1>2 DEF Linked
  <1>4. \A k \in Nif : subs'[k][g] = "none"
    BY DEF Linked
  <1>5. ReleaseQueued(g)' => modem'[g] \in {"closing", "idle"}
    BY <1>2 DEF Linked
  <1> QED
    BY <1>2, <1>3, <1>4, <1>5 DEF Linked, Active

\* The end of RELEASING keeps the links.
LEMMA GoneLinks ==
  ASSUME TypeOK, AllLinked, msgQ # <<>>, NEW n \in FrameworkNif, Head(msgQ).msg = "Report",
         created' = created, mState[n] = "RELEASING", ConnectionGone(n), NEW g \in Handles
  PROVE  Linked(g)'
  <1>1. n \in Nif /\ n # "DS" /\ Linked(g)
    BY DEF AllLinked, FrameworkNif, Nif
  <1>2. Consume(<<>>) /\ Head(msgQ) # MsgReleaseATL(g)
    <2>1. Head(msgQ) # MsgReleaseATL(g)
      BY DEF MsgReleaseATL
    <2>2. \A s, ok : RequestDataConn(n, s, ok) => Consume(<<>>)
      BY <1>1 DEF RequestDataConn
    <2>3. Consume(<<>>)
      BY <2>2 DEF ConnectionGone
    <2> QED
      BY <2>1, <2>3
  <1>3. /\ \A k \in Nif : k # n => subs'[k] = subs[k]
        /\ subs'[n][g] = IF subs[n][g] = "inactive" THEN "none" ELSE subs[n][g]
    BY <1>1 DEF ConnectionGone, TypeOK
  <1>4. modem'[g] = IF subs[n][g] = "inactive" /\ modem[g] \in {"open", "closing"}
                    THEN "idle" ELSE modem[g]
    BY DEF ConnectionGone, AfterCloseStatus, InactiveIn
  <1>5. \A k \in Nif : mState[k] = "ACQUIRED" => mState'[k] = "ACQUIRED"
    BY <1>1 DEF ConnectionGone, transitionState, TypeOK
  <1>6. CASE subs[n][g] = "inactive"
    <2>1. modem'[g] \in {modem[g], "idle"} /\ modem'[g] # "open"
      BY <1>4, <1>6
    <2> QED
      BY <1>1, <1>2, <1>3, <1>6, <2>1, DroppedLinks
  <1>7. CASE subs[n][g] # "inactive"
    <2>1. modem'[g] = modem[g] /\ \A k \in Nif : subs'[k][g] = subs[k][g]
      BY <1>3, <1>4, <1>7
    <2> QED
      BY <1>1, <1>2, <1>5, <2>1, OtherLink
  <1> QED
    BY <1>6, <1>7

\* RELEASED keeps the links: a lost connection is told to every subscriber.
LEMMA ReleasedLinks ==
  ASSUME TypeOK, AllLinked, msgQ # <<>>, NEW n \in Nif, Head(msgQ).msg = "Report",
         created' = created, processAgpsEventReleased(n), NEW g \in Handles
  PROVE  Linked(g)'
  <1>1. Linked(g) /\ Head(msgQ) # MsgReleaseATL(g) /\ (n = "DS" => mState[n] = "RELEASED")
    BY DEF AllLinked, DsIdle, MsgReleaseATL
  <1>2. CASE mState[n] \in {"RELEASED", "PENDING"}
    BY <1>1, <1>2, OtherLink DEF processAgpsEventReleased, ReleasedIsNoop
  <1>3. CASE mState[n] = "RELEASING"
    BY <1>1, <1>3, GoneLinks DEF processAgpsEventReleased, ReleasedIsNoop, FrameworkNif, Nif
  <1>4. CASE mState[n] = "ACQUIRED"
    <2>1. /\ Consume(<<>>) /\ mState' = [mState EXCEPT ![n] = "RELEASED"]
          /\ subs' = [subs EXCEPT ![n] =
               [h \in Handles |-> IF h \in NotifiedOfLoss(n) THEN "none" ELSE subs[n][h]]]
          /\ modem' = AfterCloseStatus(NotifiedOfLoss(n))
      BY <1>4 DEF processAgpsEventReleased, ReleasedIsNoop, transitionState
    <2>2. subs'[n][g] = "none" /\ \A k \in Nif : k # n => subs'[k] = subs[k]
      BY <2>1 DEF NotifiedOfLoss, ListedIn, TypeOK
    <2>3. modem'[g] = IF subs[n][g] # "none" /\ modem[g] \in {"open", "closing"}
                      THEN "idle" ELSE modem[g]
      BY <2>1 DEF AfterCloseStatus, NotifiedOfLoss, ListedIn
    <2>4. CASE subs[n][g] # "none"
      <3>1. modem'[g] \in {modem[g], "idle"} /\ modem'[g] # "open"
        BY <2>3, <2>4
      <3> QED
        BY <1>1, <2>1, <2>2, <2>4, <3>1, DroppedLinks
    <2>5. CASE subs[n][g] = "none"
      <3>1. modem'[g] = modem[g] /\ \A k \in Nif : subs'[k][g] = subs[k][g]
        BY <2>2, <2>3, <2>5
      <3>2. \A k \in Nif : mState[k] = "ACQUIRED" /\ subs[k][g] \in Active => mState'[k] = "ACQUIRED"
        BY <2>1, <2>5 DEF Active, TypeOK
      <3> QED
        BY <1>1, <2>1, <3>1, <3>2, OtherLink
    <2> QED
      BY <2>4, <2>5
  <1> QED
    BY <1>2, <1>3, <1>4 DEF TypeOK, AgpsState

\* DENIED keeps the links: a denied request is told to every subscriber.
LEMMA DeniedLinks ==
  ASSUME TypeOK, AllLinked, msgQ # <<>>, NEW n \in Nif, Head(msgQ).msg = "Report",
         created' = created, processAgpsEventDenied(n), NEW g \in Handles
  PROVE  Linked(g)'
  <1>1. Linked(g) /\ Head(msgQ) # MsgReleaseATL(g) /\ (n = "DS" => mState[n] = "RELEASED")
    BY DEF AllLinked, DsIdle, MsgReleaseATL
  <1>2. CASE mState[n] \in {"RELEASED", "ACQUIRED"}
    BY <1>1, <1>2, OtherLink DEF processAgpsEventDenied
  <1>3. CASE mState[n] = "RELEASING"
    BY <1>1, <1>3, GoneLinks DEF processAgpsEventDenied, FrameworkNif, Nif
  <1>4. CASE mState[n] = "PENDING"
    <2>1. /\ Consume(<<>>) /\ mState' = [mState EXCEPT ![n] = "RELEASED"]
          /\ subs' = [subs EXCEPT ![n] = NoSubs]
          /\ modem' = AfterOpenStatus(ListedIn(subs[n]), FALSE)
      BY <1>1, <1>4 DEF processAgpsEventDenied, transitionState
    <2>2. subs'[n][g] = "none" /\ \A k \in Nif : k # n => subs'[k] = subs[k]
      BY <2>1 DEF NoSubs, TypeOK
    <2>3. modem'[g] = IF subs[n][g] # "none" /\ modem[g] = "opening" THEN "idle" ELSE modem[g]
      BY <2>1 DEF AfterOpenStatus, ListedIn
    <2>4. \A k \in Nif : mState[k] = "ACQUIRED" => mState'[k] = "ACQUIRED"
      BY <1>4, <2>1 DEF TypeOK
    <2>5. CASE subs[n][g] # "none"
      <3>1. modem[g] # "open"
        <4>1. modem[g] = "open" => \E k \in Nif : mState[k] = "ACQUIRED" /\ subs[k][g] \in Active
          BY <1>1 DEF Linked
        <4>2. \A k \in Nif : subs[k][g] \in Active => k = n
          BY <1>1, <2>5 DEF Linked, Active
        <4> QED
          BY <1>4, <4>1, <4>2
      <3>2. modem'[g] \in {modem[g], "idle"} /\ modem'[g] # "open"
        BY <2>3, <3>1
      <3> QED
        BY <1>1, <2>1, <2>2, <2>5, <3>2, DroppedLinks
    <2>6. CASE subs[n][g] = "none"
      <3>1. modem'[g] = modem[g] /\ \A k \in Nif : subs'[k][g] = subs[k][g]
        BY <2>2, <2>3, <2>6
      <3> QED
        BY <1>1, <2>1, <2>4, <3>1, OtherLink
    <2> QED
      BY <2>5, <2>6
  <1> QED
    BY <1>2, <1>3, <1>4 DEF TypeOK, AgpsState

\* A release of a handle no machine lists.
LEMMA UnknownRelease ==
  ASSUME TypeOK, AllLinked, msgQ # <<>>, NEW h \in Handles, Head(msgQ) = MsgReleaseATL(h),
         \A n \in Nif : ~Holds(n, h), modem' = AfterCloseStatus({h}), Consume(<<>>),
         UNCHANGED <<created, mState, subs>>, NEW g \in Handles
  PROVE  Linked(g)'
  <1>1. msgQ \in Seq(Msg) /\ Linked(g) /\ Linked(h) /\ RequestOnce(h)
    BY DEF AllLinked, TypeOK, Linked
  <1>2. CASE g # h
    <2>1. modem'[g] = modem[g] /\ Head(msgQ) # MsgReleaseATL(g)
      BY <1>2 DEF AfterCloseStatus, MsgReleaseATL
    <2> QED
      BY <1>1, <2>1, OtherLink
  <1>3. CASE g = h
    <2>1. /\ RequestOnce(h)'
          /\ RequestQueued(h)' => RequestQueued(h)
          /\ ReleaseFollows(h) => ReleaseFollows(h)'
          /\ ReleaseQueued(h)
      BY <1>1, ConsumedLinks
    <2>2. \A n \in Nif : subs[n][h] = "none"
      BY <1>1 DEF Linked, Holds
    <2>3. modem[h] \in {"closing", "idle"} /\ modem'[h] \in {"closing", "idle"}
      BY <1>1, <2>1 DEF Linked, AfterCloseStatus
    <2>4. RequestQueued(h)' => ReleaseFollows(h)'
      BY <1>1, <2>1, <2>3 DEF Linked
    <2> QED
      BY <1>3, <2>1, <2>2, <2>3, <2>4 DEF Linked, Active
  <1> QED
    BY <1>2, <1>3

\* Every handler keeps the links when the emergency PDN is not used.
LEMMA HandlerLinks ==
  ASSUME ~UseEmergencyPdn, TypeOK, AllMatched, AllLinked, MsgThread
  PROVE  AllLinked'
  <1>1. msgQ # <<>> /\ msgQ \in Seq(Msg) /\ DsIdle
    BY DEF TypeOK, AllLinked, MsgThread, requestATL, releaseATL, report, IsNext
  <1>2. CASE requestATL
    <2> DEFINE h == Head(msgQ).h
               t == Head(msgQ).type
               kind == IF t = "SUPL_ES" THEN "wait" ELSE "plain"
    <2>1. h \in Handles /\ t \in AgpsType /\ kind \in Active /\ Head(msgQ).msg = "RequestATL"
      BY <1>2, HeadTypes DEF requestATL, Active, TypeOK, IsNext
    <2>2. NifFor(t) \in FrameworkNif
      BY <2>1 DEF NifFor, AgpsType, FrameworkNif
    <2>3. /\ processAgpsEventSubscribe(NifFor(t), h, kind)
          /\ NifFor(t) \in created' /\ created \subseteq created' /\ retry' = retry
      BY <1>2, <2>2 DEF requestATL, Creating
    <2>4. \A g \in Handles : Linked(g)'
      BY <1>1, <2>1, <2>2, <2>3, SubscribeLinks
    <2>5. DsIdle'
      <3>1. NifFor(t) # "DS"
        BY <2>2 DEF FrameworkNif
      <3>2. timers' = timers
        BY <2>3, <3>1 DEF processAgpsEventSubscribe, RequestDataConn
      <3>3. mState'["DS"] = mState["DS"] /\ subs'["DS"] = subs["DS"]
        <4>1. "DS" \in Nif
          BY DEF Nif
        <4>2. mState' = mState \/ mState' = [mState EXCEPT ![NifFor(t)] = "PENDING"]
          BY <2>3 DEF processAgpsEventSubscribe, transitionState
        <4>3. subs' = [subs EXCEPT ![NifFor(t)] = WithSubscriber(NifFor(t), h, kind)]
          BY <2>3 DEF processAgpsEventSubscribe
        <4> QED
          BY <3>1, <4>1, <4>2, <4>3 DEF TypeOK
      <3> QED
        BY <1>1, <2>3, <3>2, <3>3 DEF DsIdle
    <2> QED
      BY <2>4, <2>5 DEF AllLinked
  <1>3. CASE releaseATL
    <2> DEFINE h == Head(msgQ).h
    <2>1. h \in Handles /\ Head(msgQ) = MsgReleaseATL(h)
      <3>1. Head(msgQ) \in Msg /\ Head(msgQ).msg = "ReleaseATL"
        BY <1>1, <1>3 DEF releaseATL, IsNext
      <3> QED
        BY <3>1 DEF Msg, RequestMsgs, MsgRequestATL, MsgReleaseATL, Report
    <2>2. ~Holds("DS", h)
      BY <1>1, <2>1 DEF Holds, DsIdle, NoSubs
    <2>3. UNCHANGED <<created, retry>>
      BY <1>3 DEF releaseATL
    <2>4. ASSUME NEW n \in FrameworkNif, Holds(n, h), processAgpsEventUnsubscribe(n, h)
          PROVE  AllLinked'
      <3>1. \A g \in Handles : Linked(g)'
        BY <1>1, <2>1, <2>3, <2>4, UnsubscribeLinks DEF Holds
      <3>2. DsIdle'
        <4>1. n # "DS" /\ timers' = timers
          BY <2>4 DEF FrameworkNif, processAgpsEventUnsubscribe
        <4>2. mState'["DS"] = mState["DS"] /\ subs'["DS"] = subs["DS"]
          <5>1. "DS" \in Nif
            BY DEF Nif
          <5>2. /\ mState' = mState \/ \E st : mState' = [mState EXCEPT ![n] = st]
                /\ subs' = subs \/ \E s : subs' = [subs EXCEPT ![n] = s]
            BY <2>4 DEF processAgpsEventUnsubscribe, transitionState
          <5> QED
            BY <4>1, <5>1, <5>2 DEF TypeOK
        <4> QED
          BY <1>1, <2>3, <4>1, <4>2 DEF DsIdle
      <3> QED
        BY <3>1, <3>2 DEF AllLinked
    <2>5. CASE ~Holds("AGNSS", h) /\ ~Holds("INTERNET", h)
      <3>1. /\ modem' = AfterCloseStatus({h}) /\ Consume(<<>>)
            /\ UNCHANGED <<mState, subs, timers>>
        BY <1>3, <2>2, <2>5 DEF releaseATL
      <3>2. \A n \in Nif : ~Holds(n, h)
        BY <2>2, <2>5 DEF Nif
      <3>3. \A g \in Handles : Linked(g)'
        BY <1>1, <2>1, <2>3, <3>1, <3>2, UnknownRelease
      <3> QED
        BY <1>1, <2>3, <3>1, <3>3 DEF AllLinked, DsIdle
    <2> QED
      BY <1>3, <2>4, <2>5 DEF releaseATL, FrameworkNif
  <1>4. ASSUME NEW e \in {"GRANTED", "RELEASED", "DENIED"}, report(e)
        PROVE  AllLinked'
    <2> DEFINE n == Head(msgQ).nif
    <2>1. n \in Nif /\ Head(msgQ).msg = "Report" /\ UNCHANGED <<created, retry>>
      BY <1>4, HeadTypes DEF report, TypeOK, IsNext
    <2>2. /\ e = "GRANTED" => processAgpsEventGranted(n)
          /\ e = "RELEASED" => processAgpsEventReleased(n)
          /\ e = "DENIED" => processAgpsEventDenied(n)
      BY <1>4 DEF report
    <2>3. \A g \in Handles : Linked(g)'
      BY <1>1, <2>1, <2>2, GrantedLinks, ReleasedLinks, DeniedLinks
    <2>4. DsIdle'
      <3>1. n # "DS" => timers' = timers
        BY <2>2 DEF processAgpsEventGranted, processAgpsEventReleased, processAgpsEventDenied,
                    ConnectionGone, RequestDataConn
      <3>2. n # "DS" => mState'["DS"] = mState["DS"] /\ subs'["DS"] = subs["DS"]
        <4>1. "DS" \in Nif
          BY DEF Nif
        <4>2. /\ mState' = mState \/ \E st : mState' = [mState EXCEPT ![n] = st]
              /\ subs' = subs \/ \E s : subs' = [subs EXCEPT ![n] = s]
          BY <2>2 DEF processAgpsEventGranted, processAgpsEventReleased, processAgpsEventDenied,
                      ConnectionGone, transitionState
        <4> QED
          BY <4>1, <4>2 DEF TypeOK
      <3>3. n = "DS" => UNCHANGED <<timers, mState, subs>>
        BY <1>1, <2>2 DEF processAgpsEventGranted, processAgpsEventReleased, processAgpsEventDenied,
                          ReleasedIsNoop, DsIdle
      <3> QED
        BY <1>1, <2>1, <3>1, <3>2, <3>3 DEF DsIdle
    <2> QED
      BY <2>3, <2>4 DEF AllLinked
  <1> QED
    BY <1>2, <1>3, <1>4 DEF MsgThread

\* The modem and the providers keep the links.
LEMMA OutsideLinks ==
  ASSUME TypeOK, AllLinked, [Next]_vars, ~MsgThread
  PROVE  AllLinked'
  <1> USE DEF TypeOK
  <1>1. DsIdle /\ \A g \in Handles : Linked(g) /\ RequestOnce(g)
    BY DEF AllLinked, Linked
  <1>2. ASSUME UNCHANGED <<mState, subs, retry, timers, modem, msgQ>>, created \subseteq created'
        PROVE  AllLinked'
    BY <1>1, <1>2 DEF AllLinked, DsIdle, Linked, RequestOnce, RequestQueued, ReleaseQueued,
                      ReleaseFollows, RequestAt, ReleaseAt
  <1>3. ASSUME UNCHANGED <<mState, subs, retry, timers, modem, created>>, NEW x \in Msg,
               msgQ' = Append(msgQ, x), x.msg = "Report"
        PROVE  AllLinked'
    <2>1. ASSUME NEW g \in Handles
          PROVE  Linked(g)'
      <3>1. ~Names(x, g)
        BY <1>3 DEF Names
      <3>2. /\ RequestOnce(g)'
            /\ RequestQueued(g)' => RequestQueued(g)
            /\ ReleaseQueued(g)' <=> ReleaseQueued(g)
            /\ ReleaseFollows(g) => ReleaseFollows(g)'
        BY <1>1, <1>3, <3>1, AppendedLinks
      <3> QED
        BY <1>1, <1>3, <3>2 DEF Linked
    <2> QED
      BY <1>1, <1>3, <2>1 DEF AllLinked, DsIdle
  <1>4. CASE InitAgps \/ UNCHANGED vars
    BY <1>2, <1>4 DEF InitAgps, Creating, vars
  <1>5. ~retryRead /\ ~retryPost
    BY <1>1 DEF DsIdle, retryRead, retryPost
  <1>6. ASSUME NEW h \in Handles, NEW t \in Types[h], ModemRequest(h, t)
        PROVE  AllLinked'
    <2> DEFINE x == MsgRequestATL(h, t)
    <2>1. t \in AgpsType
      BY TypesAssumption DEF AgpsType
    <2>2. x \in Msg /\ x.msg = "RequestATL" /\ x.h = h /\ msgQ' = Append(msgQ, x)
      BY <1>6, <2>1, MessageTypes DEF MsgRequestATL, ModemRequest
    <2>3. UNCHANGED <<created, mState, subs, timers, retry>> /\ Fresh(h)
      BY <1>6 DEF ModemRequest
    <2>4. modem' = [modem EXCEPT ![h] = "opening"]
      BY <1>6 DEF ModemRequest
    <2>5. ASSUME NEW g \in Handles, g # h
          PROVE  Linked(g)'
      <3>1. ~Names(x, g) /\ modem'[g] = modem[g]
        BY <2>2, <2>4, <2>5 DEF Names
      <3>2. /\ RequestOnce(g)'
            /\ RequestQueued(g)' => RequestQueued(g)
            /\ ReleaseQueued(g)' <=> ReleaseQueued(g)
            /\ ReleaseFollows(g) => ReleaseFollows(g)'
        BY <1>1, <2>2, <3>1, AppendedLinks
      <3> QED
        BY <1>1, <2>3, <3>1, <3>2 DEF Linked
    <2>6. Linked(h)'
      <3>1. RequestOnce(h)' /\ ~ReleaseQueued(h)'
        BY <1>1, <2>2, <2>3, AppendedLinks DEF Fresh
      <3>2. \A n \in Nif : subs'[n][h] = "none"
        BY <2>3 DEF Fresh
      <3>3. modem'[h] = "opening"
        BY <2>4
      <3> QED
        BY <3>1, <3>2, <3>3 DEF Linked, Active
    <2> QED
      BY <1>1, <2>3, <2>5, <2>6 DEF AllLinked, DsIdle
  <1>7. ASSUME NEW h \in Handles, ModemRelease(h)
        PROVE  AllLinked'
    <2> DEFINE x == MsgReleaseATL(h)
    <2>1. x \in Msg /\ msgQ' = Append(msgQ, x)
      BY <1>7, MessageTypes DEF ModemRelease
    <2>2. UNCHANGED <<created, mState, subs, timers, retry>>
      BY <1>7 DEF ModemRelease
    <2>3. modem' = [modem EXCEPT ![h] = "closing"]
      BY <1>7 DEF ModemRelease
    <2>4. ASSUME NEW g \in Handles, g # h
          PROVE  Linked(g)'
      <3>1. ~Names(x, g) /\ modem'[g] = modem[g]
        BY <2>3, <2>4 DEF Names, MsgReleaseATL
      <3>2. /\ RequestOnce(g)'
            /\ RequestQueued(g)' => RequestQueued(g)
            /\ ReleaseQueued(g)' <=> ReleaseQueued(g)
            /\ ReleaseFollows(g) => ReleaseFollows(g)'
        BY <1>1, <2>1, <3>1, AppendedLinks
      <3> QED
        BY <1>1, <2>2, <3>1, <3>2 DEF Linked
    <2>5. Linked(h)'
      <3>1. /\ RequestOnce(h)' /\ ReleaseFollows(h)'
            /\ RequestQueued(h)' => RequestQueued(h)
            /\ ReleaseQueued(h)'
        BY <1>1, <2>1, AppendedLinks
      <3>2. modem'[h] = "closing"
        BY <2>3
      <3> QED
        BY <1>1, <2>2, <3>1, <3>2 DEF Linked
    <2> QED
      BY <1>1, <2>2, <2>4, <2>5 DEF AllLinked, DsIdle
  <1>8. ASSUME NEW n \in Nif, Provider(n) \/ ConnectionLost(n)
        PROVE  AllLinked'
    <2>1. \A e \in {"GRANTED", "RELEASED", "DENIED"} : Report(n, e) \in Msg /\ Report(n, e).msg = "Report"
      BY MessageTypes DEF Report
    <2>2. UNCHANGED <<mState, subs, retry, timers, modem, created>>
      BY <1>8 DEF Provider, ProviderConnects, ProviderReleases, ConnectionLost
    <2>3. \/ msgQ' = msgQ
          \/ \E e \in {"GRANTED", "RELEASED", "DENIED"} : msgQ' = Append(msgQ, Report(n, e))
      BY <1>8 DEF Provider, ProviderConnects, ProviderReleases, ConnectionLost
    <2> QED
      BY <1>2, <1>3, <2>1, <2>2, <2>3
  <1> QED
    BY <1>4, <1>5, <1>6, <1>7, <1>8 DEF Next

\* Without the emergency PDN the HAL and the modem agree on the links: nobody
\* holds a connection for a link the modem has given up, and no link the modem
\* uses is without a connection.
THEOREM LinksAgree ==
  ASSUME ~UseEmergencyPdn
  PROVE  Spec => []LinkAgreement
  <1>1. Init => AllMatched /\ AllLinked
    BY DEF Init, AllMatched, Matched, NoSubs, ActiveIn, InactiveIn, ListedIn, Nif,
           AllLinked, DsIdle, Linked, RequestOnce, RequestQueued, ReleaseQueued, Active
  <1>2. TypeOK /\ AllMatched /\ AllLinked /\ [Next]_vars => AllMatched' /\ AllLinked'
    BY MatchedStep, HandlerLinks, OutsideLinks
  <1>3. AllLinked => LinkAgreement
    BY DEF AllLinked, Linked, LinkAgreement, ReleaseQueued, ReleaseAt
  <1> QED
    BY <1>1, <1>2, <1>3, TypeCorrect, PTL DEF Spec
=============================================================================
