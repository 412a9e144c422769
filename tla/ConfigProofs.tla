----------------------------- MODULE ConfigProofs -----------------------------
(***************************************************************************)
(* Theorems about GnssConfig, the configuration and the power vote, as     *)
(* MCServices instantiates it: for any items, values, gps.conf and bounds. *)
(***************************************************************************)
EXTENDS ServicesProofs

-----------------------------------------------------------------------------
(* Configuration and power vote.  What the client believes is what the        *)
(* adapter will have done once it has handled the messages that wait: the     *)
(* invariant follows the vote and every item along the queue.                 *)

\* What the framework passes for some of the items (of the server, also the empty host).
Given == {0} \union UNION {Inputs[i] : i \in Cfg!Item}
Confs == {c \in UNION {[D -> Given] : D \in SUBSET Cfg!Item} :
            \A i \in DOMAIN c \ {"SERVER"} : c[i] \in Inputs[i]}
Msg == [kind : {"readConfig", "setConfig", "capabilities"}]
         \union [kind : {"update"}, config : Confs]
         \union [kind : {"enable", "disable", "delete"}, id : Nat \ {0}]
NoItem == [i \in {} |-> Cfg!Unset]

Control == [session : Nat, requests : Seq({"enable", "disable"})]
Deletion == [session : Nat, requests : Seq({"delete"})]
ConfigTypes ==
  /\ msgQ \in Seq(Msg) /\ pending \in Confs /\ config \in Confs
  /\ hasApi \in BOOLEAN /\ enabled \in BOOLEAN
  /\ ids \in Nat /\ vote \in Nat /\ configQ \in Nat
  /\ control \in Control /\ deletion \in Deletion
  /\ conf \in [Cfg!Item -> Nat]
  /\ DOMAIN modem = Cfg!Item /\ DOMAIN wanted = Cfg!Item

IsPower(m) == m.kind \in {"enable", "disable"}
HasId(m) == IsPower(m) \/ m.kind = "delete"

\* The vote turns from v to w when m is handled.
Turn(m, v, w) ==
  IF m.kind = "enable" THEN v = 0 /\ w = m.id
  ELSE IF m.kind = "disable" THEN v = m.id /\ w = 0
  ELSE w = v

\* The vote is v now and w once the messages of q are handled.
Votes(q, v, w) ==
  \E votes \in [0 .. Len(q) -> Nat] :
    /\ votes[0] = v /\ votes[Len(q)] = w
    /\ \A k \in 1 .. Len(q) : Turn(q[k], votes[k - 1], votes[k])
    /\ \A j \in 0 .. Len(q) : (\A k \in j + 1 .. Len(q) : ~IsPower(q[k])) => votes[j] = w

\* The ids of the messages are those the counter n gave out; a power message and a deletion
\* do not share one, and two power messages that do are an enable and its disable.
Apart(q, n) ==
  /\ \A k \in 1 .. Len(q) : HasId(q[k]) => q[k].id <= n
  /\ \A j, k \in 1 .. Len(q) : IsPower(q[j]) /\ q[k].kind = "delete" => q[j].id # q[k].id
  /\ \A j, k \in 1 .. Len(q) :
       j < k /\ IsPower(q[j]) /\ IsPower(q[k]) /\ q[j].id = q[k].id =>
         q[j].kind = "enable" /\ q[k].kind = "disable"

\* The requests of the power queue c are the messages of its session; d is the queue of the
\* deletions.
Queued(q, kind, s) == \E k \in 1 .. Len(q) : q[k].kind = kind /\ q[k].id = s
Requests(q, c, d) ==
  /\ c.requests = IF Queued(q, "enable", c.session)
                  THEN IF Queued(q, "disable", c.session) THEN <<"enable", "disable">> ELSE <<"enable">>
                  ELSE IF Queued(q, "disable", c.session) THEN <<"disable">> ELSE <<>>
  /\ c.session > 0 => c.session # d.session
  /\ \A k \in 1 .. Len(q) : IsPower(q[k]) => q[k].id # d.session
  /\ ~Queued(q, "delete", c.session)

\* All of this, for the vote v and the client's belief on.
PowerOn(q, v, on, c, d, n) ==
  /\ Votes(q, v, IF on THEN c.session ELSE 0)
  /\ Apart(q, n)
  /\ Requests(q, c, d)
  /\ c.session <= n /\ d.session <= n
  /\ on => c.session > 0 /\ ~Queued(q, "disable", c.session)

PowerInv == PowerOn(msgQ, vote, enabled, control, deletion, ids) /\ ~wrong

Updates(q) == {k \in 1 .. Len(q) : q[k].kind = "update"}
CountInv == configQ = Cardinality(Updates(msgQ))

\* gps.conf is read before anything else is done.
Reads(q) == \E k \in 1 .. Len(q) : q[k].kind = "readConfig"
Early(q) == \A k \in 1 .. Len(q) :
  q[k].kind = "readConfig" => k = 1 /\ Len(q) >= 2 /\ q[2].kind = "setConfig"

NoSet(q) == \A k \in 1 .. Len(q) : q[k].kind # "setConfig"

EngineInv ==
  /\ Early(msgQ)
  /\ Reads(msgQ) => modem["GPS_LOCK"] = Cfg!Unset
  /\ modem["GPS_LOCK"] # Cfg!Unset =>
       "GPS_LOCK" \in refused \/ modem["GPS_LOCK"] = IF vote > 0 THEN 0 ELSE conf["GPS_LOCK"]
  /\ NoSet(msgQ) => \A i \in Cfg!Sent : modem[i] = Cfg!FromConf(i, conf[i]) \/ i \in refused

\* Once the messages of q are handled the item i, which is now stored as n, is v.
Updating(m, i) == m.kind = "update" /\ i \in DOMAIN m.config
Ends(q, i, n, v) ==
  /\ \A k \in 1 .. Len(q) :
       Updating(q[k], i) /\ (\A j \in k + 1 .. Len(q) : ~Updating(q[j], i)) => q[k].config[i] = v
  /\ (\A k \in 1 .. Len(q) : ~Updating(q[k], i)) => n = Cfg!ToConf(i, v) /\ ~Reads(q)

Kept(i) == i \in Cfg!Item \ {"SERVER"} /\ (i \in Cfg!Injected => INJECT)

\* Every item that is kept ends as wanted in w, when it is stored as in n.
ItemsEnd(q, n, w) ==
  \A i \in Cfg!Item : Kept(i) /\ w[i] # Cfg!Unset => Ends(q, i, n[i], w[i])

NoUpdate(q) == \A k \in 1 .. Len(q) : q[k].kind # "update"
NoAsk(q) == \A k \in 1 .. Len(q) : q[k].kind # "capabilities"

\* Before there is a client all that was wanted is kept for it.
AllPending ==
  /\ \A i \in DOMAIN pending \ {"SERVER"} : pending[i] = wanted[i]
  /\ \A i \in Cfg!Item \ {"SERVER"} : wanted[i] # Cfg!Unset => i \in DOMAIN pending

\* The last report is cached and told, unless an older mask has taken its place or is about
\* to be passed on.
ModesTold ==
  /\ ~Reads(msgQ)
  /\ ~stale => cached = {conf["SUPL_MODE"]}
  /\ ~stale /\ passing = {} => toldModes = {conf["SUPL_MODE"]}

WantedInv ==
  /\ \A i \in DOMAIN config \ {"SERVER"} : config[i] = wanted[i]
  /\ hasApi => ItemsEnd(msgQ, conf, wanted)
  /\ ~hasApi => config = NoItem /\ NoUpdate(msgQ) /\ AllPending
  /\ hasApi /\ NoAsk(msgQ) => ModesTold

ConfigInv ==
  /\ ConfigTypes
  /\ PowerInv
  /\ CountInv
  /\ EngineInv
  /\ WantedInv

-----------------------------------------------------------------------------
(* Posting a message and handling the first one *)

\* The queue after a message was posted.
LEMMA Posted ==
  ASSUME NEW q \in Seq(Msg), NEW m \in Msg
  PROVE  /\ Append(q, m) \in Seq(Msg) /\ Len(q) \in Nat /\ Len(Append(q, m)) = Len(q) + 1
         /\ \A k \in 1 .. Len(q) : Append(q, m)[k] = q[k] /\ q[k] \in Msg
         /\ Append(q, m)[Len(q) + 1] = m
  OBVIOUS

\* The queue after its first message was taken.
LEMMA Taken ==
  ASSUME NEW q \in Seq(Msg), q # <<>>
  PROVE  /\ Tail(q) \in Seq(Msg) /\ Len(q) \in Nat \ {0} /\ Len(Tail(q)) = Len(q) - 1
         /\ Head(q) = q[1] /\ Head(q) \in Msg
         /\ \A k \in 1 .. Len(q) - 1 : Tail(q)[k] = q[k + 1]
  OBVIOUS

\* Posting a message continues the turns of the vote.
LEMMA VotesPosted ==
  ASSUME NEW q \in Seq(Msg), NEW m \in Msg, NEW v, NEW w \in Nat, NEW u \in Nat,
         Votes(q, v, w), Turn(m, w, u)
  PROVE  Votes(Append(q, m), v, u)
  <1> DEFINE r == Append(q, m)
  <1>1. /\ Len(q) \in Nat /\ Len(r) = Len(q) + 1
        /\ \A k \in 1 .. Len(q) : r[k] = q[k]
        /\ r[Len(q) + 1] = m
    BY Posted
  <1> HIDE DEF r
  <1>2. PICK votes \in [0 .. Len(q) -> Nat] :
          /\ votes[0] = v /\ votes[Len(q)] = w
          /\ \A k \in 1 .. Len(q) : Turn(q[k], votes[k - 1], votes[k])
          /\ \A j \in 0 .. Len(q) : (\A k \in j + 1 .. Len(q) : ~IsPower(q[k])) => votes[j] = w
    BY DEF Votes
  <1> DEFINE next == [k \in 0 .. Len(r) |-> IF k = Len(r) THEN u ELSE votes[k]]
  <1>3. /\ next \in [0 .. Len(r) -> Nat] /\ next[Len(r)] = u
        /\ \A k \in 0 .. Len(q) : next[k] = votes[k]
    BY <1>1
  <1> HIDE DEF next
  <1>4. next[0] = v /\ next[Len(q)] = w
    BY <1>1, <1>2, <1>3
  <1>5. ASSUME NEW k \in 1 .. Len(r)
        PROVE  Turn(r[k], next[k - 1], next[k])
    <2>1. CASE k = Len(r)
      BY <1>1, <1>3, <1>4, <2>1
    <2>2. CASE k \in 1 .. Len(q)
      <3>1. Turn(q[k], votes[k - 1], votes[k])
        BY <1>2, <2>2
      <3>2. r[k] = q[k] /\ k \in 0 .. Len(q) /\ k - 1 \in 0 .. Len(q)
        <4>1. k \in 1 .. Len(q) /\ Len(q) \in Nat
          BY <1>1, <2>2
        <4>2. k \in 0 .. Len(q) /\ k - 1 \in 0 .. Len(q)
          BY <4>1, SMT
        <4> QED
          BY <1>1, <4>1, <4>2
      <3>3. next[k - 1] = votes[k - 1] /\ next[k] = votes[k]
        BY <1>3, <3>2
      <3> QED
        BY <3>1, <3>2, <3>3
    <2> QED
      BY <1>1, <2>1, <2>2
  <1>6. ASSUME NEW j \in 0 .. Len(r), \A k \in j + 1 .. Len(r) : ~IsPower(r[k])
        PROVE  next[j] = u
    <2>1. CASE j = Len(r)
      BY <1>3, <2>1
    <2>2. CASE j \in 0 .. Len(q)
      <3>1. ~IsPower(m) /\ \A k \in j + 1 .. Len(q) : ~IsPower(q[k])
        BY <1>1, <1>6, <2>2
      <3>2. u = w
        BY <3>1 DEF Turn, IsPower
      <3> QED
        BY <1>2, <1>3, <2>2, <3>1, <3>2
    <2> QED
      BY <1>1, <2>1, <2>2
  <1> QED
    BY <1>3, <1>4, <1>5, <1>6 DEF Votes, r

\* Handling the first message takes the vote to its second turn.
LEMMA VotesTaken ==
  ASSUME NEW q \in Seq(Msg), q # <<>>, NEW v, NEW w, Votes(q, v, w)
  PROVE  \E u \in Nat : Turn(Head(q), v, u) /\ Votes(Tail(q), u, w)
  <1> DEFINE r == Tail(q)
  <1>1. /\ Len(q) \in Nat \ {0} /\ Len(r) = Len(q) - 1 /\ Head(q) = q[1]
        /\ \A k \in 1 .. Len(q) - 1 : r[k] = q[k + 1]
    BY Taken
  <1> HIDE DEF r
  <1>2. PICK votes \in [0 .. Len(q) -> Nat] :
          /\ votes[0] = v /\ votes[Len(q)] = w
          /\ \A k \in 1 .. Len(q) : Turn(q[k], votes[k - 1], votes[k])
          /\ \A j \in 0 .. Len(q) : (\A k \in j + 1 .. Len(q) : ~IsPower(q[k])) => votes[j] = w
    BY DEF Votes
  <1> DEFINE next == [k \in 0 .. Len(r) |-> votes[k + 1]]
  <1>3. next \in [0 .. Len(r) -> Nat] /\ \A k \in 0 .. Len(r) : next[k] = votes[k + 1]
    BY <1>1
  <1> HIDE DEF next
  <1>4. next[0] = votes[1] /\ next[Len(r)] = w
    BY <1>1, <1>2, <1>3
  <1>5. ASSUME NEW k \in 1 .. Len(r)
        PROVE  Turn(r[k], next[k - 1], next[k])
    <2>1. Turn(q[k + 1], votes[(k + 1) - 1], votes[k + 1])
      BY <1>1, <1>2
    <2>2. r[k] = q[k + 1] /\ next[k - 1] = votes[(k + 1) - 1] /\ next[k] = votes[k + 1]
      BY <1>1, <1>3
    <2> QED
      BY <2>1, <2>2
  <1>6. ASSUME NEW j \in 0 .. Len(r), \A k \in j + 1 .. Len(r) : ~IsPower(r[k])
        PROVE  next[j] = w
    <2>1. ASSUME NEW k \in (j + 1) + 1 .. Len(q)
          PROVE  ~IsPower(q[k])
      <3>1. k - 1 \in j + 1 .. Len(r) /\ r[k - 1] = q[k]
        BY <1>1, <2>1
      <3> QED
        BY <1>6, <3>1
    <2>2. j + 1 \in 0 .. Len(q)
      BY <1>1
    <2> QED
      BY <1>2, <1>3, <2>1, <2>2
  <1>7. Votes(r, votes[1], w)
    BY <1>3, <1>4, <1>5, <1>6 DEF Votes
  <1>8. Turn(q[1], votes[0], votes[1]) /\ votes[1] \in Nat
    <2>1. 1 \in 1 .. Len(q) /\ 1 - 1 = 0
      BY <1>1
    <2> QED
      BY <1>2, <2>1
  <1>9. Turn(Head(q), v, votes[1])
    BY <1>1, <1>2, <1>8
  <1> QED
    BY <1>7, <1>8, <1>9 DEF r

\* No turn is left when no power message waits.
LEMMA VotesOver ==
  ASSUME NEW q \in Seq(Msg), NEW v, NEW w, Votes(q, v, w),
         \A k \in 1 .. Len(q) : ~IsPower(q[k])
  PROVE  v = w
  <1>1. PICK votes \in [0 .. Len(q) -> Nat] :
          /\ votes[0] = v
          /\ \A j \in 0 .. Len(q) : (\A k \in j + 1 .. Len(q) : ~IsPower(q[k])) => votes[j] = w
    BY DEF Votes
  <1>2. Len(q) \in Nat
    OBVIOUS
  <1> QED
    BY <1>1, <1>2

\* A message with a new id keeps the ids apart, the disable of a session too.
LEMMA ApartPosted ==
  ASSUME NEW q \in Seq(Msg), NEW m \in Msg, NEW n \in Nat, NEW o \in Nat, Apart(q, n), n <= o,
         HasId(m) => m.id <= o,
         HasId(m) =>
           \/ m.id > n
           \/ /\ m.kind = "disable"
              /\ \A k \in 1 .. Len(q) : HasId(q[k]) /\ q[k].id = m.id => q[k].kind = "enable"
  PROVE  Apart(Append(q, m), o)
  <1> DEFINE r == Append(q, m)
  <1>1. /\ Len(q) \in Nat /\ Len(r) = Len(q) + 1
        /\ \A k \in 1 .. Len(q) : r[k] = q[k] /\ q[k] \in Msg
        /\ r[Len(q) + 1] = m
    BY Posted
  <1> HIDE DEF r
  <1>2. \A k \in 1 .. Len(q) : HasId(q[k]) => q[k].id <= n /\ q[k].id \in Nat
    BY <1>1 DEF Apart, Msg, HasId, IsPower
  <1>3. HasId(m) => m.id \in Nat
    BY DEF Msg, HasId, IsPower
  <1>4. \A k \in 1 .. Len(r) : HasId(r[k]) => r[k].id <= o
    BY <1>1, <1>2
  <1>5. \A k \in 1 .. Len(q) : HasId(q[k]) /\ HasId(m) /\ q[k].id = m.id =>
          m.kind = "disable" /\ q[k].kind = "enable"
    BY <1>2, <1>3
  <1>6. ASSUME NEW j \in 1 .. Len(r), NEW k \in 1 .. Len(r), IsPower(r[j]), r[k].kind = "delete",
               r[j].id = r[k].id
        PROVE  FALSE
    <2>1. CASE j \in 1 .. Len(q) /\ k \in 1 .. Len(q)
      BY <1>1, <1>6, <2>1 DEF Apart
    <2>2. CASE j = Len(q) + 1 /\ k \in 1 .. Len(q)
      BY <1>1, <1>5, <1>6, <2>2 DEF HasId
    <2>3. CASE j \in 1 .. Len(q) /\ k = Len(q) + 1
      BY <1>1, <1>5, <1>6, <2>3 DEF HasId
    <2>4. CASE j = Len(q) + 1 /\ k = Len(q) + 1
      BY <1>1, <1>6, <2>4 DEF IsPower
    <2> QED
      BY <1>1, <2>1, <2>2, <2>3, <2>4
  <1>7. ASSUME NEW j \in 1 .. Len(r), NEW k \in 1 .. Len(r), j < k, IsPower(r[j]), IsPower(r[k]),
               r[j].id = r[k].id
        PROVE  r[j].kind = "enable" /\ r[k].kind = "disable"
    <2>1. CASE k \in 1 .. Len(q)
      BY <1>1, <1>7, <2>1 DEF Apart
    <2>2. CASE k = Len(q) + 1
      BY <1>1, <1>5, <1>7, <2>2 DEF HasId
    <2> QED
      BY <1>1, <2>1, <2>2
  <1> QED
    BY <1>4, <1>6, <1>7 DEF Apart, r

\* Taking a message keeps the others apart.
LEMMA ApartTaken ==
  ASSUME NEW q \in Seq(Msg), q # <<>>, NEW n, Apart(q, n)
  PROVE  Apart(Tail(q), n)
  <1> DEFINE r == Tail(q)
  <1>1. /\ Len(q) \in Nat \ {0} /\ Len(r) = Len(q) - 1
        /\ \A k \in 1 .. Len(q) - 1 : r[k] = q[k + 1]
    BY Taken
  <1> HIDE DEF r
  <1>2. \A k \in 1 .. Len(r) : k + 1 \in 1 .. Len(q) /\ r[k] = q[k + 1]
    BY <1>1
  <1>3. \A j, k \in 1 .. Len(r) : j < k => j + 1 < k + 1
    BY <1>1
  <1> QED
    BY <1>2, <1>3 DEF Apart, r

\* The requests of the power queue after a message that is none of them, an enable of a new
\* session, or the disable of the session.
LEMMA RequestsPosted ==
  ASSUME NEW q \in Seq(Msg), NEW m \in Msg, NEW c, NEW d, Requests(q, c, d),
         IsPower(m) => m.id # d.session /\ m.id # c.session,
         m.kind = "delete" => m.id # c.session
  PROVE  Requests(Append(q, m), c, d)
  <1> DEFINE r == Append(q, m)
  <1>1. /\ Len(q) \in Nat /\ Len(r) = Len(q) + 1
        /\ \A k \in 1 .. Len(q) : r[k] = q[k]
        /\ r[Len(q) + 1] = m
    BY Posted
  <1> HIDE DEF r
  <1>2. \A kind \in {"enable", "disable", "delete"} :
          Queued(r, kind, c.session) <=> Queued(q, kind, c.session)
    BY <1>1 DEF Queued, IsPower
  <1>3. \A k \in 1 .. Len(r) : IsPower(r[k]) => r[k].id # d.session
    BY <1>1 DEF Requests
  <1> QED
    BY <1>2, <1>3 DEF Requests, r

\* A message of another session is handled: the power queue stays.
LEMMA RequestsTaken ==
  ASSUME NEW q \in Seq(Msg), q # <<>>, NEW c, NEW d, Requests(q, c, d),
         ~(IsPower(Head(q)) /\ Head(q).id = c.session)
  PROVE  Requests(Tail(q), c, d)
  <1> DEFINE r == Tail(q)
  <1>1. /\ Len(q) \in Nat \ {0} /\ Len(r) = Len(q) - 1 /\ Head(q) = q[1]
        /\ \A k \in 1 .. Len(q) - 1 : r[k] = q[k + 1]
    BY Taken
  <1> HIDE DEF r
  <1>2. \A k \in 1 .. Len(r) : k + 1 \in 1 .. Len(q) /\ r[k] = q[k + 1]
    BY <1>1
  <1>3. \A k \in 1 .. Len(q) : k = 1 \/ (k - 1 \in 1 .. Len(r) /\ r[k - 1] = q[k])
    BY <1>1
  <1>4. \A kind \in {"enable", "disable"} : Queued(r, kind, c.session) <=> Queued(q, kind, c.session)
    BY <1>1, <1>2, <1>3 DEF Queued, IsPower
  <1>5. ~Queued(r, "delete", c.session)
    BY <1>2 DEF Requests, Queued
  <1>6. \A k \in 1 .. Len(r) : IsPower(r[k]) => r[k].id # d.session
    BY <1>2 DEF Requests
  <1> QED
    BY <1>4, <1>5, <1>6 DEF Requests, r

\* The configurations that wait.
LEMMA UpdatesFinite ==
  ASSUME NEW q \in Seq(Msg)
  PROVE  IsFiniteSet(Updates(q)) /\ Cardinality(Updates(q)) \in Nat
  <1>1. IsFiniteSet(1 .. Len(q))
    BY FS_Interval
  <1>2. Updates(q) \in SUBSET (1 .. Len(q))
    BY DEF Updates
  <1> QED
    BY <1>1, <1>2, FS_Subset, FS_CardinalityType

\* The number of the configurations that wait, after a message was posted and after the first
\* one was taken.
LEMMA UpdatesPosted ==
  ASSUME NEW q \in Seq(Msg), NEW m \in Msg
  PROVE  Cardinality(Updates(Append(q, m))) =
           IF m.kind = "update" THEN Cardinality(Updates(q)) + 1 ELSE Cardinality(Updates(q))
  <1> DEFINE r == Append(q, m)
  <1>1. /\ Len(q) \in Nat /\ Len(r) = Len(q) + 1
        /\ \A k \in 1 .. Len(q) : r[k] = q[k]
        /\ r[Len(q) + 1] = m
    BY Posted
  <1> HIDE DEF r
  <1>2. IsFiniteSet(Updates(q)) /\ Cardinality(Updates(q)) \in Nat
    BY UpdatesFinite
  <1>3. Updates(r) = IF m.kind = "update" THEN Updates(q) \union {Len(q) + 1} ELSE Updates(q)
    BY <1>1 DEF Updates
  <1>4. Len(q) + 1 \notin Updates(q)
    BY <1>1 DEF Updates
  <1> QED
    BY <1>2, <1>3, <1>4, FS_AddElement DEF r

\* Handling the first message takes it from the configurations that wait, if it is one.
LEMMA UpdatesTaken ==
  ASSUME NEW q \in Seq(Msg), q # <<>>
  PROVE  /\ Cardinality(Updates(q)) \in Nat
         /\ Head(q).kind = "update" => Cardinality(Updates(q)) > 0
         /\ Cardinality(Updates(Tail(q))) =
              IF Head(q).kind = "update" THEN Cardinality(Updates(q)) - 1 ELSE Cardinality(Updates(q))
  <1> DEFINE r == Tail(q)
             later == Updates(q) \ {1}
             f == [k \in Updates(r) |-> k + 1]
  <1>1. /\ r \in Seq(Msg) /\ Len(q) \in Nat \ {0} /\ Len(r) = Len(q) - 1 /\ Head(q) = q[1]
        /\ \A k \in 1 .. Len(q) - 1 : r[k] = q[k + 1]
    BY Taken
  <1> HIDE DEF r
  <1>2. IsFiniteSet(Updates(q)) /\ IsFiniteSet(Updates(r)) /\ Cardinality(Updates(q)) \in Nat
    BY <1>1, UpdatesFinite
  <1>3. Cardinality(later) =
          IF 1 \in Updates(q) THEN Cardinality(Updates(q)) - 1 ELSE Cardinality(Updates(q))
    BY <1>2, FS_RemoveElement
  <1>4. 1 \in Updates(q) <=> Head(q).kind = "update"
    BY <1>1 DEF Updates
  <1>5. Cardinality(Updates(r)) = Cardinality(later)
    <2>1. \A k \in Updates(r) : k \in Nat /\ k + 1 \in later
      BY <1>1 DEF Updates
    <2>2. \A k \in later : k \in Nat /\ k - 1 \in Updates(r)
      BY <1>1 DEF Updates
    <2>3. f \in [Updates(r) -> later] /\ \A k \in Updates(r) : f[k] = k + 1
      BY <2>1
    <2> HIDE DEF f, later
    <2>4. f \in Injection(Updates(r), later)
      BY <2>1, <2>3 DEF Injection, IsInjective
    <2>5. f \in Surjection(Updates(r), later)
      <3>1. \A k \in later : f[k - 1] = k
        BY <2>2, <2>3
      <3> QED
        BY <2>2, <2>3, <3>1 DEF Surjection
    <2>6. ExistsBijection(Updates(r), later)
      BY <2>4, <2>5 DEF Bijection, ExistsBijection
    <2> QED
      BY <1>2, <2>6, FS_Bijection
  <1>6. 1 \in Updates(q) => Cardinality(Updates(q)) > 0
    BY <1>2, FS_EmptySet
  <1> QED
    BY <1>2, <1>3, <1>4, <1>5, <1>6 DEF r

\* No message is posted before gps.conf is read; once it is, it is not read again.
LEMMA EarlyPosted ==
  ASSUME NEW q \in Seq(Msg), NEW m \in Msg, Early(q), m.kind # "readConfig"
  PROVE  Early(Append(q, m)) /\ (Reads(Append(q, m)) <=> Reads(q))
  <1> DEFINE r == Append(q, m)
  <1>1. /\ Len(q) \in Nat /\ Len(r) = Len(q) + 1
        /\ \A k \in 1 .. Len(q) : r[k] = q[k]
        /\ r[Len(q) + 1] = m
    BY Posted
  <1> HIDE DEF r
  <1>2. Early(r)
    BY <1>1 DEF Early
  <1>3. Reads(r) <=> Reads(q)
    BY <1>1 DEF Reads
  <1> QED
    BY <1>2, <1>3 DEF r

\* Once the first message is handled gps.conf has been read.
LEMMA EarlyTaken ==
  ASSUME NEW q \in Seq(Msg), q # <<>>, Early(q)
  PROVE  Early(Tail(q)) /\ ~Reads(Tail(q))
  <1> DEFINE r == Tail(q)
  <1>1. /\ Len(q) \in Nat \ {0} /\ Len(r) = Len(q) - 1
        /\ \A k \in 1 .. Len(q) - 1 : r[k] = q[k + 1]
    BY Taken
  <1> HIDE DEF r
  <1>2. \A k \in 1 .. Len(r) : r[k].kind # "readConfig"
    BY <1>1 DEF Early
  <1> QED
    BY <1>2 DEF Early, Reads, r

\* What an item ends as, after a message that has it, after one that has it not, and after
\* the first message was taken.
LEMMA EndsUpdated ==
  ASSUME NEW q \in Seq(Msg), NEW m \in Msg, NEW i, NEW n, NEW v, Updating(m, i), m.config[i] = v
  PROVE  Ends(Append(q, m), i, n, v)
  <1> DEFINE r == Append(q, m)
  <1>1. /\ Len(q) \in Nat /\ Len(r) = Len(q) + 1
        /\ r[Len(q) + 1] = m
    BY Posted
  <1> HIDE DEF r
  <1>2. Len(r) \in 1 .. Len(r) /\ Updating(r[Len(r)], i) /\ r[Len(r)].config[i] = v
    BY <1>1
  <1>3. \A k \in 1 .. Len(r) : k = Len(r) \/ Len(r) \in k + 1 .. Len(r)
    BY <1>1
  <1> QED
    BY <1>2, <1>3 DEF Ends, r

\* A message without the item leaves what it ends as.
LEMMA EndsPosted ==
  ASSUME NEW q \in Seq(Msg), NEW m \in Msg, NEW i, NEW n, NEW v, ~Updating(m, i),
         m.kind # "readConfig", Ends(q, i, n, v)
  PROVE  Ends(Append(q, m), i, n, v)
  <1> DEFINE r == Append(q, m)
  <1>1. /\ Len(q) \in Nat /\ Len(r) = Len(q) + 1
        /\ \A k \in 1 .. Len(q) : r[k] = q[k]
        /\ r[Len(q) + 1] = m
    BY Posted
  <1> HIDE DEF r
  <1>2. ASSUME NEW k \in 1 .. Len(r), Updating(r[k], i), \A j \in k + 1 .. Len(r) : ~Updating(r[j], i)
        PROVE  r[k].config[i] = v
    <2>1. k \in 1 .. Len(q) /\ r[k] = q[k]
      BY <1>1, <1>2
    <2>2. \A j \in k + 1 .. Len(q) : ~Updating(q[j], i)
      BY <1>1, <1>2, <2>1
    <2> QED
      BY <1>2, <2>1, <2>2 DEF Ends
  <1>3. ASSUME \A k \in 1 .. Len(r) : ~Updating(r[k], i)
        PROVE  n = Cfg!ToConf(i, v) /\ ~Reads(r)
    <2>1. \A k \in 1 .. Len(q) : ~Updating(q[k], i)
      BY <1>1, <1>3
    <2>2. ~Reads(r) <=> ~Reads(q)
      BY <1>1 DEF Reads
    <2> QED
      BY <2>1, <2>2 DEF Ends
  <1> QED
    BY <1>2, <1>3 DEF Ends, r

\* Handling a message that stores the item as it has it, or leaves it, too.
LEMMA EndsTaken ==
  ASSUME NEW q \in Seq(Msg), q # <<>>, NEW i, NEW n, NEW v, Early(q), Ends(q, i, n, v),
         NEW o,
         Updating(Head(q), i) => o = Cfg!ToConf(i, Head(q).config[i]),
         ~Updating(Head(q), i) /\ Head(q).kind # "readConfig" => o = n
  PROVE  Ends(Tail(q), i, o, v)
  <1> DEFINE r == Tail(q)
  <1>1. /\ Len(q) \in Nat \ {0} /\ Len(r) = Len(q) - 1 /\ Head(q) = q[1]
        /\ \A k \in 1 .. Len(q) - 1 : r[k] = q[k + 1]
    BY Taken
  <1>2. ~Reads(r)
    BY EarlyTaken
  <1> HIDE DEF r
  <1>3. ASSUME NEW k \in 1 .. Len(r), Updating(r[k], i), \A j \in k + 1 .. Len(r) : ~Updating(r[j], i)
        PROVE  r[k].config[i] = v
    <2>1. k + 1 \in 1 .. Len(q) /\ r[k] = q[k + 1]
      BY <1>1
    <2>2. ASSUME NEW j \in (k + 1) + 1 .. Len(q)
          PROVE  ~Updating(q[j], i)
      <3>1. j - 1 \in k + 1 .. Len(r) /\ r[j - 1] = q[j]
        BY <1>1, <2>2
      <3> QED
        BY <1>3, <3>1
    <2> QED
      BY <1>3, <2>1, <2>2 DEF Ends
  <1>4. ASSUME \A k \in 1 .. Len(r) : ~Updating(r[k], i)
        PROVE  o = Cfg!ToConf(i, v)
    <2>1. \A k \in 2 .. Len(q) : ~Updating(q[k], i)
      <3> SUFFICES ASSUME NEW k \in 2 .. Len(q)
                   PROVE  ~Updating(q[k], i)
        OBVIOUS
      <3>1. k - 1 \in 1 .. Len(r) /\ r[k - 1] = q[k]
        BY <1>1
      <3> QED
        BY <1>4, <3>1
    <2>2. CASE Updating(Head(q), i)
      <3>1. 1 \in 1 .. Len(q) /\ \A k \in 1 + 1 .. Len(q) : ~Updating(q[k], i)
        BY <1>1, <2>1
      <3>2. q[1].config[i] = v
        BY <1>1, <2>2, <3>1 DEF Ends
      <3> QED
        BY <1>1, <2>2, <3>2
    <2>3. CASE ~Updating(Head(q), i)
      <3>1. \A k \in 1 .. Len(q) : ~Updating(q[k], i)
        BY <1>1, <2>1, <2>3
      <3>2. n = Cfg!ToConf(i, v) /\ ~Reads(q)
        BY <3>1 DEF Ends
      <3>3. Head(q).kind # "readConfig"
        BY <1>1, <3>2 DEF Reads
      <3> QED
        BY <2>3, <3>2, <3>3
    <2> QED
      BY <2>2, <2>3
  <1> QED
    BY <1>2, <1>3, <1>4 DEF Ends, r

\* A second request in the queue of a client.
LEMMA TwoRequests ==
  ASSUME NEW S, NEW x \in S, NEW y \in S
  PROVE  Append(<<x>>, y) = <<x, y>>
  <1> DEFINE one == <<x>>
             two == <<x, y>>
             app == Append(one, y)
  <1>1. one \in Seq(S) /\ two \in Seq(S)
    OBVIOUS
  <1>2. Len(one) = 1 /\ Len(two) = 2 /\ one[1] = x /\ two[1] = x /\ two[2] = y
    OBVIOUS
  <1> HIDE DEF one, two
  <1>3. /\ app \in Seq(S) /\ Len(app) = Len(one) + 1
        /\ \A i \in 1 .. Len(one) : app[i] = one[i]
        /\ app[Len(one) + 1] = y
    BY <1>1, AppendProperties
  <1> HIDE DEF app
  <1>4. Len(app) = 2 /\ app[1] = x /\ app[2] = y
    BY <1>2, <1>3
  <1>5. \A i \in 1 .. Len(app) : app[i] = two[i]
    BY <1>2, <1>4
  <1> QED
    BY <1>1, <1>2, <1>3, <1>4, <1>5, SeqEqual DEF app, one, two

\* The agreement on the vote after a message that is not about it, and after the client posts
\* an enable, a disable or a deletion.
LEMMA PowerPlain ==
  ASSUME NEW q \in Seq(Msg), NEW m \in Msg, ~HasId(m), NEW v \in Nat, NEW on \in BOOLEAN,
         NEW c \in Control, NEW d \in Deletion, NEW n \in Nat, NEW o \in Nat, n <= o,
         PowerOn(q, v, on, c, d, n)
  PROVE  PowerOn(Append(q, m), v, on, c, d, o)
  <1> DEFINE w == IF on THEN c.session ELSE 0
  <1>1. w \in Nat /\ c.session \in Nat /\ d.session \in Nat
    BY DEF Control, Deletion
  <1>2. Turn(m, w, w)
    BY DEF Turn, HasId, IsPower
  <1>3. Votes(q, v, w)
    BY DEF PowerOn
  <1> HIDE DEF w
  <1>4. Votes(Append(q, m), v, w)
    BY <1>1, <1>2, <1>3, VotesPosted
  <1>5. Apart(Append(q, m), o)
    BY ApartPosted DEF PowerOn
  <1>6. Requests(Append(q, m), c, d)
    BY RequestsPosted DEF PowerOn, HasId
  <1>7. ~Queued(q, "disable", c.session) => ~Queued(Append(q, m), "disable", c.session)
    BY Posted DEF Queued, HasId, IsPower
  <1> QED
    BY <1>1, <1>4, <1>5, <1>6, <1>7 DEF PowerOn, w

\* An enable of a new session starts the power queue again and turns the belief on.
LEMMA PowerEnabled ==
  ASSUME NEW q \in Seq(Msg), NEW v \in Nat, NEW c \in Control, NEW d \in Deletion, NEW n \in Nat,
         PowerOn(q, v, FALSE, c, d, n), NEW s \in Nat, s > n
  PROVE  PowerOn(Append(q, [kind |-> "enable", id |-> s]), v, TRUE,
                 [session |-> s, requests |-> <<"enable">>], d, s)
  <1> DEFINE m == [kind |-> "enable", id |-> s]
             r == Append(q, m)
             e == [session |-> s, requests |-> <<"enable">>]
  <1>1. m \in Msg /\ m.kind = "enable" /\ m.id = s /\ e.session = s /\ e.requests = <<"enable">>
    BY DEF Msg
  <1>2. d.session \in Nat /\ d.session < s /\ Votes(q, v, 0) /\ Apart(q, n) /\ Requests(q, c, d)
    BY DEF PowerOn, Deletion
  <1> HIDE DEF m, e
  <1>3. Turn(m, 0, s)
    BY <1>1 DEF Turn
  <1>4. Votes(r, v, s)
    BY <1>1, <1>2, <1>3, VotesPosted
  <1>5. Apart(r, s)
    BY <1>1, <1>2, ApartPosted
  <1>6. /\ Len(q) \in Nat /\ Len(r) = Len(q) + 1
        /\ \A k \in 1 .. Len(q) : r[k] = q[k] /\ q[k] \in Msg
        /\ r[Len(q) + 1] = m
    BY <1>1, Posted
  <1> HIDE DEF r
  <1>7. \A k \in 1 .. Len(q) : q[k].kind \in {"enable", "disable", "delete"} => q[k].id # s
    <2>1. \A k \in 1 .. Len(q) : HasId(q[k]) => q[k].id <= n /\ q[k].id \in Nat
      BY <1>2, <1>6 DEF Apart, Msg, HasId, IsPower
    <2> QED
      BY <2>1 DEF HasId, IsPower
  <1>8. Queued(r, "enable", s)
    BY <1>1, <1>6 DEF Queued
  <1>9. ~Queued(r, "disable", s) /\ ~Queued(r, "delete", s)
    BY <1>1, <1>6, <1>7 DEF Queued
  <1>10. \A k \in 1 .. Len(r) : IsPower(r[k]) => r[k].id # d.session
    BY <1>1, <1>2, <1>6 DEF Requests
  <1>11. Requests(r, e, d)
    BY <1>1, <1>2, <1>8, <1>9, <1>10 DEF Requests
  <1>12. s > 0 /\ d.session <= s /\ s <= s
    BY <1>2
  <1> QED
    BY <1>1, <1>4, <1>5, <1>9, <1>11, <1>12 DEF PowerOn, m, r, e

\* A disable goes to the session that is on, and turns the belief off.
LEMMA PowerDisabled ==
  ASSUME NEW q \in Seq(Msg), NEW v \in Nat, NEW c \in Control, NEW d \in Deletion, NEW n \in Nat,
         PowerOn(q, v, TRUE, c, d, n)
  PROVE  PowerOn(Append(q, [kind |-> "disable", id |-> c.session]), v, FALSE,
                 [c EXCEPT !.requests = Append(@, "disable")], d, n)
  <1> DEFINE s == c.session
             m == [kind |-> "disable", id |-> s]
             r == Append(q, m)
             e == [c EXCEPT !.requests = Append(@, "disable")]
  <1>1. /\ s \in Nat /\ s > 0 /\ s <= n /\ d.session <= n
        /\ Votes(q, v, s) /\ Apart(q, n) /\ Requests(q, c, d)
        /\ ~Queued(q, "disable", s) /\ ~Queued(q, "delete", s)
    BY DEF PowerOn, Control, Requests
  <1>2. /\ m \in Msg /\ m.kind = "disable" /\ m.id = s
        /\ e.session = s /\ e.requests = Append(c.requests, "disable")
    BY <1>1 DEF Msg, Control
  <1> HIDE DEF m, e
  <1>3. Turn(m, s, 0)
    BY <1>2 DEF Turn
  <1>4. Votes(r, v, 0)
    BY <1>1, <1>2, <1>3, VotesPosted
  <1>5. \A k \in 1 .. Len(q) : HasId(q[k]) /\ q[k].id = s => q[k].kind = "enable"
    BY <1>1 DEF HasId, IsPower, Queued
  <1>6. Apart(r, n)
    BY <1>1, <1>2, <1>5, ApartPosted
  <1>7. /\ Len(q) \in Nat /\ Len(r) = Len(q) + 1
        /\ \A k \in 1 .. Len(q) : r[k] = q[k]
        /\ r[Len(q) + 1] = m
    BY <1>2, Posted
  <1> HIDE DEF r
  <1>8. Queued(r, "disable", s)
    BY <1>2, <1>7 DEF Queued
  <1>9. ~Queued(r, "delete", s) /\ (Queued(r, "enable", s) <=> Queued(q, "enable", s))
    <2>1. \A k \in 1 .. Len(r) : k \in 1 .. Len(q) \/ r[k].kind = "disable"
      BY <1>2, <1>7
    <2>2. \A k \in 1 .. Len(q) : k \in 1 .. Len(r) /\ r[k] = q[k]
      BY <1>7
    <2>3. ~Queued(r, "delete", s)
      BY <1>1, <2>1, <2>2 DEF Queued
    <2>4. Queued(r, "enable", s) <=> Queued(q, "enable", s)
      BY <2>1, <2>2 DEF Queued
    <2> QED
      BY <2>3, <2>4
  <1>10. s # d.session
    BY <1>1 DEF Requests
  <1>11. \A k \in 1 .. Len(r) : IsPower(r[k]) => r[k].id # d.session
    <2>1. \A k \in 1 .. Len(q) : IsPower(q[k]) => q[k].id # d.session
      BY <1>1 DEF Requests
    <2>2. \A k \in 1 .. Len(r) : k \in 1 .. Len(q) \/ k = Len(q) + 1
      BY <1>7
    <2>3. r[Len(q) + 1].id # d.session
      BY <1>2, <1>7, <1>10
    <2> QED
      BY <1>7, <2>1, <2>2, <2>3
  <1>12. e.requests = IF Queued(r, "enable", s) THEN <<"enable", "disable">> ELSE <<"disable">>
    <2>1. c.requests = IF Queued(q, "enable", s) THEN <<"enable">> ELSE <<>>
      BY <1>1 DEF Requests
    <2>2. Append(<<"enable">>, "disable") = <<"enable", "disable">>
      <3>1. "enable" \in {"enable", "disable"} /\ "disable" \in {"enable", "disable"}
        OBVIOUS
      <3> QED
        BY <3>1, TwoRequests
    <2>3. Append(<<>>, "disable") = <<"disable">>
      OBVIOUS
    <2> QED
      BY <1>2, <1>9, <2>1, <2>2, <2>3
  <1>13. Requests(r, e, d)
    BY <1>2, <1>8, <1>9, <1>10, <1>11, <1>12 DEF Requests
  <1> QED
    BY <1>1, <1>2, <1>4, <1>6, <1>13 DEF PowerOn, m, r, e

\* A deletion starts its own queue with a session that no other message has.
LEMMA PowerDeletion ==
  ASSUME NEW q \in Seq(Msg), NEW v \in Nat, NEW on \in BOOLEAN, NEW c \in Control,
         NEW d \in Deletion, NEW n \in Nat, PowerOn(q, v, on, c, d, n)
  PROVE  PowerOn(Append(q, [kind |-> "delete", id |-> n + 1]), v, on, c,
                 [session |-> n + 1, requests |-> <<"delete">>], n + 1)
  <1> DEFINE s == n + 1
             m == [kind |-> "delete", id |-> s]
             r == Append(q, m)
             e == [session |-> s, requests |-> <<"delete">>]
             w == IF on THEN c.session ELSE 0
  <1>1. /\ s \in Nat /\ s > n /\ c.session \in Nat /\ c.session <= n /\ w \in Nat
        /\ Votes(q, v, w) /\ Apart(q, n) /\ Requests(q, c, d)
    BY DEF PowerOn, Control, w
  <1>2. m \in Msg /\ m.kind = "delete" /\ m.id = s /\ e.session = s
    BY <1>1 DEF Msg
  <1> HIDE DEF m, e, s, w
  <1>3. Turn(m, w, w)
    BY <1>2 DEF Turn
  <1>4. Votes(r, v, w)
    BY <1>1, <1>2, <1>3, VotesPosted
  <1>5. Apart(r, s)
    BY <1>1, <1>2, ApartPosted
  <1>6. /\ Len(q) \in Nat /\ Len(r) = Len(q) + 1
        /\ \A k \in 1 .. Len(q) : r[k] = q[k] /\ q[k] \in Msg
        /\ r[Len(q) + 1] = m
    BY <1>2, Posted
  <1> HIDE DEF r
  <1>7. \A k \in 1 .. Len(r) : IsPower(r[k]) => r[k].id # s
    <2>1. \A k \in 1 .. Len(q) : IsPower(q[k]) => q[k].id <= n /\ q[k].id \in Nat
      BY <1>1, <1>6 DEF Apart, Msg, HasId, IsPower
    <2>2. \A k \in 1 .. Len(q) : IsPower(q[k]) => q[k].id # s
      BY <1>1, <2>1
    <2> QED
      BY <1>2, <1>6, <2>2 DEF IsPower
  <1>8. \A kind \in {"enable", "disable", "delete"} :
          Queued(r, kind, c.session) <=> Queued(q, kind, c.session)
    <2>1. \A k \in 1 .. Len(q) : k \in 1 .. Len(r) /\ r[k] = q[k]
      BY <1>6
    <2>2. \A k \in 1 .. Len(r) : k \in 1 .. Len(q) \/ r[k].id # c.session
      <3>1. m.id # c.session
        BY <1>1, <1>2
      <3> QED
        BY <1>6, <3>1
    <2> QED
      BY <2>1, <2>2 DEF Queued
  <1>9. Requests(r, c, e)
    BY <1>1, <1>2, <1>7, <1>8 DEF Requests
  <1>10. c.session <= s /\ s <= s
    BY <1>1
  <1> QED
    BY <1>1, <1>2, <1>4, <1>5, <1>8, <1>9, <1>10 DEF PowerOn, m, r, e, s, w

\* The power queue c once m is responded to.
Answered(m, c) == IF IsPower(m) /\ m.id = c.session THEN [c EXCEPT !.requests = Tail(@)] ELSE c

\* The agreement after the first message was handled: the vote has turned, and the response
\* to an enable or a disable is for the first request of its session or for none.
LEMMA PowerTaken ==
  ASSUME NEW q \in Seq(Msg), q # <<>>, NEW v \in Nat, NEW on \in BOOLEAN, NEW c \in Control,
         NEW d \in Deletion, NEW n \in Nat, PowerOn(q, v, on, c, d, n),
         NEW e, e = Answered(Head(q), c)
  PROVE  /\ \E u \in Nat : Turn(Head(q), v, u) /\ PowerOn(Tail(q), u, on, e, d, n)
         /\ IsPower(Head(q)) => Head(q).id # d.session
         /\ Head(q).kind = "delete" => Head(q).id # c.session
         /\ IsPower(Head(q)) /\ Head(q).id = c.session =>
              c.requests # <<>> /\ Head(c.requests) = Head(q).kind
  <1> DEFINE r == Tail(q)
             w == IF on THEN c.session ELSE 0
             s == c.session
  <1>1. /\ Len(q) \in Nat \ {0} /\ Len(r) = Len(q) - 1 /\ Head(q) = q[1]
        /\ \A k \in 1 .. Len(q) - 1 : r[k] = q[k + 1]
    BY Taken
  <1>2. Votes(q, v, w) /\ Apart(q, n) /\ Requests(q, c, d)
    BY DEF PowerOn
  <1>3. PICK u \in Nat : Turn(Head(q), v, u) /\ Votes(r, u, w)
    BY <1>2, VotesTaken
  <1>4. Apart(r, n)
    BY <1>2, ApartTaken
  <1> HIDE DEF r
  <1>5. 1 \in 1 .. Len(q) /\ \A k \in 1 .. Len(r) : k + 1 \in 1 .. Len(q) /\ r[k] = q[k + 1]
    BY <1>1
  <1>6. \A k \in 1 .. Len(q) : k = 1 \/ (k - 1 \in 1 .. Len(r) /\ r[k - 1] = q[k])
    BY <1>1
  <1>7. /\ IsPower(Head(q)) => Head(q).id # d.session
        /\ Head(q).kind = "delete" => Head(q).id # s
    BY <1>1, <1>2, <1>5 DEF Requests, Queued
  <1>8. \A kind : Queued(r, kind, s) => Queued(q, kind, s)
    BY <1>5 DEF Queued
  <1>9. CASE ~(IsPower(Head(q)) /\ Head(q).id = s)
    <2>1. e = c /\ Requests(r, c, d)
      BY <1>2, <1>9, RequestsTaken DEF r, Answered
    <2>2. PowerOn(r, u, on, e, d, n)
      BY <1>3, <1>4, <1>8, <2>1 DEF PowerOn
    <2> QED
      BY <1>3, <1>7, <1>9, <2>2 DEF r
  <1>10. CASE IsPower(Head(q)) /\ Head(q).id = s
    <2>1. e.session = s /\ e.requests = Tail(c.requests)
      BY <1>10 DEF Control, Answered
    <2>2. ~Queued(r, "delete", s) /\ \A k \in 1 .. Len(r) : IsPower(r[k]) => r[k].id # d.session
      BY <1>2, <1>5, <1>8 DEF Requests
    <2>3. \A k \in 1 .. Len(r) : IsPower(r[k]) /\ r[k].id = s =>
            Head(q).kind = "enable" /\ r[k].kind = "disable"
      <3> SUFFICES ASSUME NEW k \in 1 .. Len(r), IsPower(r[k]), r[k].id = s
                   PROVE  Head(q).kind = "enable" /\ r[k].kind = "disable"
        OBVIOUS
      <3>1. 1 < k + 1 /\ k + 1 \in 1 .. Len(q) /\ r[k] = q[k + 1] /\ 1 \in 1 .. Len(q)
        BY <1>1, <1>5
      <3>2. IsPower(q[1]) /\ IsPower(q[k + 1]) /\ q[1].id = q[k + 1].id
        BY <1>1, <1>10, <3>1
      <3>3. q[1].kind = "enable" /\ q[k + 1].kind = "disable"
        BY <1>2, <3>1, <3>2 DEF Apart
      <3> QED
        BY <1>1, <3>1, <3>3
    <2>4. ~Queued(r, "enable", s)
      BY <2>3 DEF Queued, IsPower
    <2>5. CASE Head(q).kind = "enable"
      <3>1. Queued(q, "enable", s)
        BY <1>1, <1>5, <1>10, <2>5 DEF Queued
      <3>2. Queued(q, "disable", s) <=> Queued(r, "disable", s)
        <4>1. ASSUME NEW k \in 1 .. Len(q), q[k].kind = "disable", q[k].id = s
              PROVE  Queued(r, "disable", s)
          <5>1. k # 1
            BY <1>1, <2>5, <4>1
          <5>2. k - 1 \in 1 .. Len(r) /\ r[k - 1] = q[k]
            BY <1>6, <5>1
          <5> QED
            BY <4>1, <5>2 DEF Queued
        <4> QED
          BY <1>8, <4>1 DEF Queued
      <3>3. c.requests = IF Queued(r, "disable", s) THEN <<"enable", "disable">> ELSE <<"enable">>
        BY <1>2, <3>1, <3>2 DEF Requests
      <3>4. /\ c.requests # <<>> /\ Head(c.requests) = "enable"
            /\ Tail(c.requests) = IF Queued(r, "disable", s) THEN <<"disable">> ELSE <<>>
        BY <3>3
      <3>5. Requests(r, e, d)
        BY <1>2, <2>1, <2>2, <2>4, <3>4 DEF Requests
      <3>6. PowerOn(r, u, on, e, d, n)
        BY <1>3, <1>4, <1>8, <2>1, <3>5 DEF PowerOn
      <3> QED
        BY <1>3, <1>7, <2>5, <3>4, <3>6 DEF r
    <2>6. CASE Head(q).kind = "disable"
      <3>1. Queued(q, "disable", s)
        BY <1>1, <1>5, <1>10, <2>6 DEF Queued
      <3>2. ~Queued(r, "disable", s)
        BY <2>3, <2>6 DEF Queued, IsPower
      <3>3. ~Queued(q, "enable", s)
        BY <1>1, <1>6, <2>4, <2>6 DEF Queued
      <3>4. c.requests = <<"disable">>
        BY <1>2, <3>1, <3>3 DEF Requests
      <3>5. c.requests # <<>> /\ Head(c.requests) = "disable" /\ Tail(c.requests) = <<>>
        BY <3>4
      <3>6. Requests(r, e, d)
        BY <1>2, <2>1, <2>2, <2>4, <3>2, <3>5 DEF Requests
      <3>7. PowerOn(r, u, on, e, d, n)
        BY <1>3, <1>4, <1>8, <2>1, <3>6 DEF PowerOn
      <3> QED
        BY <1>3, <1>7, <2>6, <3>5, <3>7 DEF r
    <2> QED
      BY <1>10, <2>5, <2>6 DEF IsPower
  <1> QED
    BY <1>9, <1>10

-----------------------------------------------------------------------------
(* What the calls of the framework do to the queue *)

\* What the messages carry.
LEMMA MsgFields ==
  ASSUME NEW m \in Msg
  PROVE  /\ m.kind = "update" => m.config \in Confs
         /\ HasId(m) => m.id \in Nat /\ m.id > 0
  BY DEF Msg, HasId, IsPower

\* The values of a configuration, and that none is an item of NoItem.
LEMMA ConfFields ==
  ASSUME NEW c \in Confs
  PROVE  /\ DOMAIN c \subseteq Cfg!Item /\ IsFiniteSet(DOMAIN c)
         /\ \A i \in DOMAIN c \ {"SERVER"} : c[i] \in Inputs[i]
  <1>1. PICK D \in SUBSET Cfg!Item : c \in [D -> Given]
    BY DEF Confs
  <1>2. IsFiniteSet(Cfg!Item)
    BY ServicesAssumption DEF ServicesAssumption, Cfg!Item
  <1>3. DOMAIN c = D /\ IsFiniteSet(D)
    BY <1>1, <1>2, FS_Subset
  <1> QED
    BY <1>1, <1>3 DEF Confs

\* A configuration may be empty.
LEMMA ConfNone == NoItem \in Confs
  <1>1. NoItem \in [{} -> Given] /\ {} \in SUBSET Cfg!Item
    BY DEF NoItem
  <1> QED
    BY <1>1 DEF Confs, NoItem

\* A configuration of one item, and the message with it.
LEMMA ConfOf ==
  ASSUME NEW i \in Cfg!Item, NEW v \in Inputs[i]
  PROVE  /\ [j \in {i} |-> v] \in Confs
         /\ [kind |-> "update", config |-> [j \in {i} |-> v]] \in Msg
  <1>1. v \in Given
    BY DEF Given, Cfg!Item
  <1>2. [j \in {i} |-> v] \in [{i} -> Given] /\ {i} \in SUBSET Cfg!Item
    BY <1>1
  <1>3. [j \in {i} |-> v] \in Confs
    BY <1>2 DEF Confs
  <1> QED
    BY <1>3 DEF Msg

\* A setter sends a configuration of one item, or keeps it until there is a client.
LEMMA Configured ==
  ASSUME ConfigTypes, NEW i \in Cfg!Item, NEW v \in Inputs[i], Cfg!updateConfiguration(i, v),
         NEW one, one = [j \in {i} |-> v]
  PROVE  \/ /\ hasApi /\ config' = one /\ pending' = pending
            /\ msgQ' = Append(msgQ, [kind |-> "update", config |-> one])
            /\ configQ' = configQ + 1 /\ ids' = ids + 1
         \/ /\ hasApi /\ config = one /\ i # "SERVER" /\ pending' = pending
            /\ UNCHANGED <<config, msgQ, configQ, ids>>
         \/ /\ ~hasApi /\ UNCHANGED <<config, msgQ, configQ, ids>>
            /\ pending' = Cfg!PendingWith(i, v)
  <1>1. one \in Confs /\ DOMAIN one = {i} /\ [kind |-> "update", config |-> one] \in Msg
    BY ConfOf
  <1>2. CASE ~hasApi
    BY <1>2 DEF Cfg!updateConfiguration
  <1>3. CASE hasApi /\ one = config /\ i # "SERVER"
    <2>1. Cfg!gnssUpdateConfig(one) = <<>>
      BY <1>1, <1>3 DEF Cfg!gnssUpdateConfig
    <2>2. /\ config' = one /\ pending' = pending /\ msgQ' = msgQ \o <<>>
          /\ configQ' = configQ + Len(<<>>) /\ ids' = ids + Len(<<>>)
      BY <1>3, <2>1 DEF Cfg!updateConfiguration
    <2>3. msgQ \o <<>> = msgQ /\ Len(<<>>) = 0
      BY DEF ConfigTypes
    <2> QED
      BY <1>3, <2>2, <2>3 DEF ConfigTypes
  <1>4. CASE hasApi /\ ~(one = config /\ i # "SERVER")
    <2> DEFINE m == [kind |-> "update", config |-> one]
    <2>1. Cfg!gnssUpdateConfig(one) = <<m>>
      BY <1>1, <1>4 DEF Cfg!gnssUpdateConfig
    <2> HIDE DEF m
    <2>2. /\ config' = one /\ pending' = pending /\ msgQ' = msgQ \o <<m>>
          /\ configQ' = configQ + Len(<<m>>) /\ ids' = ids + Len(<<m>>)
      BY <1>4, <2>1 DEF Cfg!updateConfiguration
    <2>3. m \in Msg /\ msgQ \in Seq(Msg)
      BY <1>1 DEF m, ConfigTypes
    <2>4. msgQ \o <<m>> = Append(msgQ, m) /\ Len(<<m>>) = 1
      BY <2>3, AppendIsConcat
    <2> QED
      BY <1>4, <2>2, <2>4 DEF m
  <1> QED
    BY <1>2, <1>3, <1>4

\* The callback creates the client if there is none, which asks for the capabilities and gets
\* what was kept for it; then GNSS is enabled if it is not.
Hands == ~hasApi /\ pending # NoItem
FirstQ == IF hasApi THEN msgQ ELSE Append(msgQ, [kind |-> "capabilities"])
SecondQ == IF Hands THEN Append(FirstQ, [kind |-> "update", config |-> pending]) ELSE FirstQ

\* The queue stays a queue of messages.
LEMMA CallbackMsgs ==
  ASSUME ConfigTypes
  PROVE  /\ [kind |-> "capabilities"] \in Msg /\ [kind |-> "update", config |-> pending] \in Msg
         /\ FirstQ \in Seq(Msg) /\ SecondQ \in Seq(Msg)
  <1>1. [kind |-> "capabilities"] \in Msg /\ [kind |-> "update", config |-> pending] \in Msg
    BY DEF Msg, ConfigTypes
  <1>2. FirstQ \in Seq(Msg)
    BY <1>1, Posted DEF FirstQ, ConfigTypes
  <1> QED
    BY <1>1, <1>2, Posted DEF SecondQ

\* The instance has a Cardinality of its own.
LEMMA SameCardinality ==
  ASSUME NEW S
  PROVE  Cfg!Cardinality(S) = Cardinality(S)
  BY DEF Cfg!Cardinality, Cardinality

\* What setCallback does, with and without a client, enabled or not.
LEMMA Callback ==
  ASSUME ConfigTypes, ~hasApi => config = NoItem, Cfg!setCallback
  PROVE  /\ msgQ' = IF enabled THEN SecondQ ELSE Append(SecondQ, [kind |-> "enable", id |-> ids'])
         /\ ids' \in Nat /\ ids <= ids' /\ (~enabled => ids < ids')
         /\ config' = IF Hands THEN pending ELSE config
         /\ configQ' = IF Hands THEN configQ + 1 ELSE configQ
         /\ control' = IF enabled THEN control ELSE [session |-> ids', requests |-> <<"enable">>]
         /\ enabled' = TRUE /\ hasApi' = TRUE /\ pending' = NoItem /\ toldModes' = {} /\ passing' = cached
         /\ UNCHANGED <<deletion, vote, conf, serverUrl, modem, refused, cached, stale, wrong, wanted, restarts>>
  <1> DEFINE cap == [kind |-> "capabilities"]
             upd == [kind |-> "update", config |-> pending]
             first == IF hasApi THEN <<>> ELSE <<cap>>
             update == IF hasApi \/ pending = NoItem THEN <<>> ELSE Cfg!gnssUpdateConfig(pending)
             session == ids + 1 + (IF update = <<>> THEN 0 ELSE Cfg!Cardinality(DOMAIN pending))
             power == IF enabled THEN <<>> ELSE <<[kind |-> "enable", id |-> session]>>
  <1>1. /\ cap \in Msg /\ upd \in Msg /\ FirstQ \in Seq(Msg) /\ SecondQ \in Seq(Msg)
        /\ msgQ \in Seq(Msg) /\ ids \in Nat /\ configQ \in Nat
    BY CallbackMsgs DEF ConfigTypes
  <1>2. /\ config' = IF update = <<>> THEN config ELSE pending
        /\ configQ' = configQ + Len(update)
        /\ enabled' = TRUE /\ hasApi' = TRUE /\ pending' = NoItem /\ toldModes' = {} /\ passing' = cached
        /\ control' = IF enabled THEN control ELSE [session |-> session, requests |-> <<"enable">>]
        /\ ids' = IF enabled THEN session - 1 ELSE session
        /\ msgQ' = msgQ \o first \o update \o power
        /\ UNCHANGED <<deletion, vote, conf, serverUrl, modem, refused, cached, stale, wrong, wanted, restarts>>
    BY DEF Cfg!setCallback, Cfg!locAPIEnable, NoItem, Cfg!adapter
  <1>3. update = IF Hands THEN <<upd>> ELSE <<>>
    BY DEF Cfg!gnssUpdateConfig, Hands, NoItem
  <1>4. session \in Nat /\ session > ids
    <2>1. Cardinality(DOMAIN pending) \in Nat
      BY ConfFields, FS_CardinalityType DEF ConfigTypes
    <2>2. Cfg!Cardinality(DOMAIN pending) \in Nat
      BY <2>1, SameCardinality
    <2> HIDE DEF update
    <2> QED
      BY <1>1, <2>2
  <1> HIDE DEF cap, upd, session, update
  <1>5. msgQ \o first = FirstQ
    BY <1>1, AppendIsConcat, ConcatEmptySeq DEF FirstQ, cap
  <1>6. FirstQ \o update = SecondQ
    BY <1>1, <1>3, AppendIsConcat, ConcatEmptySeq DEF SecondQ, upd
  <1>7. SecondQ \o power = IF enabled THEN SecondQ ELSE Append(SecondQ, [kind |-> "enable", id |-> session])
    <2>1. [kind |-> "enable", id |-> session] \in Msg
      BY <1>1, <1>4 DEF Msg
    <2> QED
      BY <1>1, <2>1, AppendIsConcat, ConcatEmptySeq
  <1>8. /\ ids' \in Nat /\ ids <= ids' /\ (~enabled => ids < ids' /\ ids' = session)
    BY <1>1, <1>2, <1>4
  <1>9. Len(update) = (IF Hands THEN 1 ELSE 0) /\ (update = <<>> <=> ~Hands)
    BY <1>3
  <1>10. msgQ' = IF enabled THEN SecondQ ELSE Append(SecondQ, [kind |-> "enable", id |-> ids'])
    BY <1>2, <1>5, <1>6, <1>7, <1>8
  <1>11. /\ config' = IF Hands THEN pending ELSE config
         /\ configQ' = IF Hands THEN configQ + 1 ELSE configQ
         /\ control' = IF enabled THEN control ELSE [session |-> ids', requests |-> <<"enable">>]
    BY <1>1, <1>2, <1>8, <1>9
  <1> QED
    BY <1>2, <1>8, <1>10, <1>11

\* The items: what is compared has other names than the lock, the mode and the server, and the
\* numbers of an item in mGps_conf and in the interface are as many.
LEMMA Items ==
  /\ Cfg!Sent \subseteq Cfg!Item /\ "SERVER" \notin Cfg!Sent /\ "GPS_LOCK" \notin Cfg!Sent
  /\ {"GPS_LOCK", "SUPL_MODE", "SERVER"} \subseteq Cfg!Item
  /\ \A i : Kept(i) => i \in Cfg!Item /\ i # "SERVER" /\ (i \in Cfg!Compared => i \in Cfg!Sent)
  /\ Kept("SUPL_MODE") /\ Kept("GPS_LOCK")
  BY ServicesAssumption DEF ServicesAssumption, Cfg!Sent, Cfg!Item, Cfg!Compared, Cfg!Injected, Kept

\* The conversion to the numbers of mGps_conf is one to one on what the framework passes.
LEMMA Numbers ==
  ASSUME NEW i \in Cfg!Item, NEW v \in Inputs[i]
  PROVE  Cfg!ToConf(i, v) \in Nat /\ Cfg!FromConf(i, Cfg!ToConf(i, v)) = v
  <1>1. CASE i = "SUPL_VER"
    <2>1. v \in 1 .. 3
      BY <1>1, ServicesAssumption DEF ServicesAssumption, Cfg!Item
    <2>2. /\ Cfg!SuplVersion[1] = 65536 /\ Cfg!SuplVersion[2] = 131072 /\ Cfg!SuplVersion[3] = 131074
      BY DEF Cfg!SuplVersion
    <2>3. \A e \in 1 .. 3 : Cfg!SuplVersion[e] = Cfg!SuplVersion[v] <=> e = v
      BY <2>1, <2>2
    <2>4. (CHOOSE e \in 1 .. 3 : Cfg!SuplVersion[e] = Cfg!SuplVersion[v]) = v
      BY <2>1, <2>3
    <2>5. Cfg!SuplVersion[v] \in Nat
      BY <2>1, <2>2
    <2> QED
      BY <1>1, <2>1, <2>4, <2>5 DEF Cfg!ToConf, Cfg!FromConf
  <1>2. CASE i # "SUPL_VER"
    <2>1. v \in Nat
      BY <1>2, ServicesAssumption DEF ServicesAssumption, Cfg!Item
    <2> QED
      BY <1>2, <2>1 DEF Cfg!ToConf, Cfg!FromConf
  <1> QED
    BY <1>1, <1>2

\* What a configuration stores: each of its items that is kept.
LEMMA Stores ==
  ASSUME ConfigTypes, NEW cfg \in Confs, NEW next,
         next = [i \in Cfg!Item |-> IF i \in Cfg!Stored(cfg) THEN Cfg!ToConf(i, cfg[i]) ELSE conf[i]]
  PROVE  /\ next \in [Cfg!Item -> Nat]
         /\ \A i \in Cfg!Item : i \notin DOMAIN cfg => next[i] = conf[i]
         /\ \A i \in DOMAIN cfg : Kept(i) => next[i] = Cfg!ToConf(i, cfg[i])
  <1>1. DOMAIN cfg \subseteq Cfg!Item /\ \A i \in DOMAIN cfg \ {"SERVER"} : cfg[i] \in Inputs[i]
    BY ConfFields
  <1>2. Cfg!Stored(cfg) \subseteq DOMAIN cfg \ {"SERVER"}
    BY Items DEF Cfg!Stored, Cfg!Changed
  <1>3. \A i \in Cfg!Stored(cfg) : Cfg!ToConf(i, cfg[i]) \in Nat
    BY <1>1, <1>2, Numbers
  <1>4. conf \in [Cfg!Item -> Nat]
    BY DEF ConfigTypes
  <1>5. next \in [Cfg!Item -> Nat]
    BY <1>3, <1>4
  <1>6. \A i \in Cfg!Item : i \notin DOMAIN cfg => next[i] = conf[i]
    BY <1>2
  <1>7. ASSUME NEW i \in DOMAIN cfg, Kept(i)
        PROVE  next[i] = Cfg!ToConf(i, cfg[i])
    <2>1. i \in Cfg!Item /\ i # "SERVER" /\ (i \in Cfg!Compared => i \in Cfg!Sent)
      BY <1>7, Items
    <2>2. CASE i \in Cfg!Stored(cfg)
      BY <2>1, <2>2
    <2>3. CASE i \notin Cfg!Stored(cfg)
      BY <2>1, <2>3 DEF Cfg!Stored, Cfg!Changed
    <2> QED
      BY <2>2, <2>3
  <1> QED
    BY <1>5, <1>6, <1>7

-----------------------------------------------------------------------------
(* The steps *)

\* What handling a message has in common.
LEMMA Handled ==
  ASSUME ConfigTypes, NEW kind, Cfg!Handle(kind)
  PROVE  /\ msgQ \in Seq(Msg) /\ msgQ # <<>> /\ Head(msgQ) \in Msg /\ Head(msgQ).kind = kind
         /\ msgQ' = Tail(msgQ) /\ Tail(msgQ) \in Seq(Msg)
         /\ UNCHANGED <<pending, hasApi, ids, wanted>>
  BY Taken DEF ConfigTypes, Cfg!Handle

\* What a call to the engine leaves: it has the value, or has refused it.
LEMMA Called ==
  ASSUME NEW vals, NEW no \in SUBSET DOMAIN vals, Cfg!ToEngine(vals, no)
  PROVE  /\ DOMAIN modem' = Cfg!Item
         /\ \A i \in Cfg!Item : /\ i \in DOMAIN vals => modem'[i] = vals[i] \/ i \in refused'
                                /\ i \notin DOMAIN vals => modem'[i] = modem[i]
         /\ \A i : i \notin DOMAIN vals => (i \in refused' <=> i \in refused)
  BY DEF Cfg!ToEngine

\* A response takes at most one request from a queue.
LEMMA Responded ==
  ASSUME ConfigTypes, NEW kind, NEW id, Cfg!Respond(kind, id)
  PROVE  control' \in Control /\ deletion' \in Deletion /\ UNCHANGED <<enabled, config, configQ>>
  <1>1. control.requests # <<>> => Tail(control.requests) \in Seq({"enable", "disable"})
    BY DEF ConfigTypes, Control
  <1>2. deletion.requests # <<>> => Tail(deletion.requests) \in Seq({"delete"})
    BY DEF ConfigTypes, Deletion
  <1>3. /\ control.requests # <<>> => [control EXCEPT !.requests = Tail(@)] \in Control
        /\ deletion.requests # <<>> => [deletion EXCEPT !.requests = Tail(@)] \in Deletion
    BY <1>1, <1>2 DEF ConfigTypes, Control, Deletion
  <1> QED
    BY <1>3 DEF Cfg!Respond, ConfigTypes

\* Every step keeps the types.
LEMMA TypesStep ==
  ASSUME ConfigTypes, ~hasApi => config = NoItem, [Cfg!Next]_configVars
  PROVE  ConfigTypes'
  <1>1. ASSUME NEW i \in Cfg!Item, NEW v \in Inputs[i], Cfg!updateConfiguration(i, v)
        PROVE  ConfigTypes'
    <2> DEFINE one == [j \in {i} |-> v]
    <2>1. one \in Confs /\ [kind |-> "update", config |-> one] \in Msg
      BY ConfOf
    <2>2. DOMAIN wanted' = Cfg!Item /\ UNCHANGED <<hasApi, enabled, vote, control, deletion, conf, modem>>
      BY <1>1 DEF Cfg!updateConfiguration, Cfg!adapter, ConfigTypes
    <2>3. Cfg!PendingWith(i, v) \in Confs
      <3> DEFINE p == Cfg!PendingWith(i, v)
                 D == DOMAIN pending \union {i}
      <3>1. /\ DOMAIN pending \subseteq Cfg!Item
            /\ \A j \in DOMAIN pending \ {"SERVER"} : pending[j] \in Inputs[j]
            /\ \A j \in DOMAIN pending : pending[j] \in Given
        BY ConfFields DEF ConfigTypes, Confs
      <3>2. v \in Given /\ 0 \in Given
        BY DEF Given, Cfg!Item
      <3>3. D \in SUBSET Cfg!Item
        BY <3>1
      <3>4. p = [j \in D |-> IF j # i THEN pending[j] ELSE IF i = "SERVER" THEN 0 ELSE v]
        BY DEF Cfg!PendingWith
      <3> HIDE DEF p
      <3>5. p \in [D -> Given]
        BY <3>1, <3>2, <3>4
      <3>6. \A j \in DOMAIN p \ {"SERVER"} : p[j] \in Inputs[j]
        BY <3>1, <3>4
      <3>7. p \in Confs
        BY <3>3, <3>5, <3>6 DEF Confs
      <3> QED
        BY <3>7 DEF p
    <2>4. msgQ' \in Seq(Msg) /\ pending' \in Confs /\ config' \in Confs /\ ids' \in Nat /\ configQ' \in Nat
      <3> HIDE DEF one
      <3>1. msgQ \in Seq(Msg) /\ config \in Confs /\ pending \in Confs /\ ids \in Nat /\ configQ \in Nat
        BY DEF ConfigTypes
      <3>2. Append(msgQ, [kind |-> "update", config |-> one]) \in Seq(Msg)
        BY <2>1, <3>1
      <3>3. \/ /\ hasApi /\ config' = one /\ pending' = pending
               /\ msgQ' = Append(msgQ, [kind |-> "update", config |-> one])
               /\ configQ' = configQ + 1 /\ ids' = ids + 1
            \/ pending' = pending /\ UNCHANGED <<config, msgQ, configQ, ids>>
            \/ UNCHANGED <<config, msgQ, configQ, ids>> /\ pending' = Cfg!PendingWith(i, v)
        BY <1>1, Configured DEF one
      <3> QED
        BY <2>1, <2>3, <3>1, <3>2, <3>3
    <2> QED
      BY <2>2, <2>4 DEF ConfigTypes
  <1>2. CASE Cfg!setCallback
    <2>1. /\ msgQ' = IF enabled THEN SecondQ ELSE Append(SecondQ, [kind |-> "enable", id |-> ids'])
          /\ ids' \in Nat /\ ids <= ids' /\ (~enabled => ids < ids')
          /\ config' = IF Hands THEN pending ELSE config
          /\ configQ' = IF Hands THEN configQ + 1 ELSE configQ
          /\ control' = IF enabled THEN control ELSE [session |-> ids', requests |-> <<"enable">>]
          /\ enabled' = TRUE /\ hasApi' = TRUE /\ pending' = NoItem
          /\ UNCHANGED <<deletion, vote, conf, modem, wanted>>
      BY <1>2, Callback
    <2>2. SecondQ \in Seq(Msg) /\ (~enabled => [kind |-> "enable", id |-> ids'] \in Msg)
      BY <2>1, CallbackMsgs DEF ConfigTypes, Msg
    <2>3. msgQ' \in Seq(Msg)
      BY <2>1, <2>2, Posted
    <2>4. NoItem \in Confs
      BY ConfNone
    <2>5. [session |-> ids', requests |-> <<"enable">>] \in Control
      BY <2>1 DEF Control
    <2>6. config' \in Confs /\ configQ' \in Nat /\ control' \in Control
      BY <2>1, <2>5 DEF ConfigTypes
    <2> QED
      BY <2>1, <2>3, <2>4, <2>6 DEF ConfigTypes
  <1>3. CASE Cfg!cleanup
    <2> DEFINE m == [kind |-> "disable", id |-> control.session]
    <2>1. m \in Msg /\ [control EXCEPT !.requests = Append(@, "disable")] \in Control
      <3>1. control.session > 0 /\ control.session \in Nat /\ control \in Control
        BY <1>3 DEF Cfg!cleanup, Cfg!locAPIDisable, ConfigTypes, Control
      <3>2. Append(control.requests, "disable") \in Seq({"enable", "disable"})
        BY <3>1 DEF Control
      <3>3. [control EXCEPT !.requests = Append(@, "disable")] \in Control
        BY <3>1, <3>2 DEF Control
      <3>4. m \in Msg
        BY <3>1 DEF Msg
      <3> QED
        BY <3>3, <3>4
    <2>2. msgQ' = Append(msgQ, m) /\ enabled' = FALSE
          /\ control' = [control EXCEPT !.requests = Append(@, "disable")]
          /\ UNCHANGED <<pending, hasApi, config, deletion, configQ, ids, vote, conf, modem, wanted>>
      BY <1>3 DEF Cfg!cleanup, Cfg!locAPIDisable, Cfg!adapter
    <2> HIDE DEF m
    <2>3. msgQ' \in Seq(Msg)
      BY <2>1, <2>2 DEF ConfigTypes
    <2> QED
      BY <2>1, <2>2, <2>3 DEF ConfigTypes
  <1>4. CASE Cfg!deleteAidingData
    <2> DEFINE m == [kind |-> "delete", id |-> ids + 1]
    <2>1. m \in Msg /\ [session |-> ids + 1, requests |-> <<"delete">>] \in Deletion
      BY DEF Msg, ConfigTypes, Deletion
    <2>2. /\ msgQ' = Append(msgQ, m) /\ ids' = ids + 1
          /\ deletion' = [session |-> ids + 1, requests |-> <<"delete">>]
          /\ UNCHANGED <<pending, hasApi, enabled, config, control, configQ, vote, conf, modem, wanted>>
      BY <1>4 DEF Cfg!deleteAidingData, Cfg!locAPIGnssDeleteAidingData, Cfg!adapter
    <2> HIDE DEF m
    <2>3. msgQ' \in Seq(Msg) /\ ids' \in Nat
      BY <2>1, <2>2 DEF ConfigTypes
    <2> QED
      BY <2>1, <2>2, <2>3 DEF ConfigTypes
  <1>5. CASE Cfg!handleEngineUpEvent
    <2> DEFINE m == [kind |-> "setConfig"]
    <2>1. m \in Msg
      BY DEF Msg
    <2>2. /\ msgQ' = Append(msgQ, m) /\ DOMAIN modem' = Cfg!Item
          /\ UNCHANGED <<pending, hasApi, enabled, config, control, deletion, configQ, ids, vote, conf, wanted>>
      BY <1>5 DEF Cfg!handleEngineUpEvent, Cfg!client
    <2> HIDE DEF m
    <2>3. msgQ' \in Seq(Msg)
      BY <2>1, <2>2 DEF ConfigTypes
    <2> QED
      BY <2>2, <2>3 DEF ConfigTypes
  <1>6. CASE Cfg!readConfig
    <2>1. Cfg!Handle("readConfig") /\ conf' = FileConf
          /\ UNCHANGED <<enabled, config, control, deletion, configQ, vote, modem>>
      BY <1>6 DEF Cfg!readConfig, Cfg!client
    <2>2. FileConf \in [Cfg!Item -> Nat]
      BY ServicesAssumption DEF ServicesAssumption, Cfg!Item
    <2> QED
      BY <2>1, <2>2, Handled DEF ConfigTypes
  <1>7. CASE Cfg!setConfig
    <2>1. /\ Cfg!Handle("setConfig") /\ \E vals : \E no \in SUBSET DOMAIN vals : Cfg!ToEngine(vals, no)
          /\ UNCHANGED <<enabled, config, control, deletion, configQ, vote, conf>>
      BY <1>7 DEF Cfg!setConfig, Cfg!client
    <2> QED
      BY <2>1, Handled, Called DEF ConfigTypes
  <1>8. CASE Cfg!updateConfig
    <2> DEFINE cfg == Head(msgQ).config
    <2>1. Cfg!Handle("update")
      BY <1>8 DEF Cfg!updateConfig
    <2>2. cfg \in Confs
      BY <2>1, Handled, MsgFields
    <2>3. /\ conf' = [i \in Cfg!Item |-> IF i \in Cfg!Stored(cfg) THEN Cfg!ToConf(i, cfg[i]) ELSE conf[i]]
          /\ configQ' = IF configQ = 0 THEN 0 ELSE configQ - 1
          /\ UNCHANGED <<enabled, config, control, deletion, vote>>
      BY <1>8 DEF Cfg!updateConfig
    <2>4. \E vals : \E no \in SUBSET DOMAIN vals : Cfg!ToEngine(vals, no)
      BY <1>8 DEF Cfg!updateConfig
    <2> HIDE DEF cfg
    <2>5. conf' \in [Cfg!Item -> Nat]
      BY <2>2, <2>3, Stores
    <2>6. DOMAIN modem' = Cfg!Item
      BY <2>4, Called
    <2>7. configQ' \in Nat
      BY <2>3 DEF ConfigTypes
    <2>8. /\ msgQ' \in Seq(Msg)
          /\ UNCHANGED <<pending, hasApi, ids, wanted, enabled, config, control, deletion, vote>>
      BY <2>1, <2>3, Handled
    <2> QED
      BY <2>5, <2>6, <2>7, <2>8 DEF ConfigTypes
  <1>9. CASE Cfg!requestCapabilities
    <2>1. Cfg!Handle("capabilities")
          /\ UNCHANGED <<enabled, config, control, deletion, configQ, vote, conf, modem>>
      BY <1>9 DEF Cfg!requestCapabilities, Cfg!client, Cfg!adapter
    <2> QED
      BY <2>1, Handled DEF ConfigTypes
  <1>10. CASE Cfg!enable
    <2>1. Cfg!Handle("enable") /\ Cfg!Respond("enable", Head(msgQ).id) /\ UNCHANGED conf
      BY <1>10 DEF Cfg!enable
    <2>2. \/ UNCHANGED <<vote, modem>>
          \/ /\ vote' = Head(msgQ).id
             /\ \E vals : \E no \in SUBSET DOMAIN vals : Cfg!ToEngine(vals, no)
      BY <1>10 DEF Cfg!enable
    <2>3. Head(msgQ).id \in Nat
      BY <2>1, Handled, MsgFields DEF HasId, IsPower
    <2>4. vote' \in Nat /\ DOMAIN modem' = Cfg!Item
      BY <2>2, <2>3, Called DEF ConfigTypes
    <2> QED
      BY <2>1, <2>4, Handled, Responded DEF ConfigTypes
  <1>11. CASE Cfg!disable
    <2>1. Cfg!Handle("disable") /\ Cfg!Respond("disable", Head(msgQ).id) /\ UNCHANGED conf
      BY <1>11 DEF Cfg!disable
    <2>2. \/ UNCHANGED <<vote, modem>>
          \/ /\ vote' = 0
             /\ \E vals : \E no \in SUBSET DOMAIN vals : Cfg!ToEngine(vals, no)
      BY <1>11 DEF Cfg!disable
    <2>3. vote' \in Nat /\ DOMAIN modem' = Cfg!Item
      BY <2>2, Called DEF ConfigTypes
    <2> QED
      BY <2>1, <2>3, Handled, Responded DEF ConfigTypes
  <1>12. CASE Cfg!deleteAiding
    <2>1. Cfg!Handle("delete") /\ Cfg!Respond("delete", Head(msgQ).id) /\ UNCHANGED <<vote, conf, modem>>
      BY <1>12 DEF Cfg!deleteAiding, Cfg!adapter
    <2> QED
      BY <2>1, Handled, Responded DEF ConfigTypes
  <1>13. CASE UNCHANGED configVars
    BY <1>13 DEF configVars, ConfigTypes
  <1>14. CASE Cfg!passCapabilities
    BY <1>14 DEF Cfg!passCapabilities, Cfg!client, Cfg!adapter, ConfigTypes
  <1> QED
    BY <1>1, <1>2, <1>3, <1>4, <1>5, <1>6, <1>7, <1>8, <1>9, <1>10, <1>11, <1>12, <1>13, <1>14 DEF Cfg!Next

\* The power invariant allows a counter that went on.
LEMMA PowerMore ==
  ASSUME NEW q \in Seq(Msg), NEW v, NEW on, NEW c \in Control, NEW d \in Deletion,
         NEW n \in Nat, NEW o \in Nat, n <= o, PowerOn(q, v, on, c, d, n)
  PROVE  PowerOn(q, v, on, c, d, o)
  <1>1. \A k \in 1 .. Len(q) : q[k] \in Msg
    OBVIOUS
  <1>2. Apart(q, o)
    <2>1. \A k \in 1 .. Len(q) : HasId(q[k]) => q[k].id <= n /\ q[k].id \in Nat
      BY <1>1, MsgFields DEF PowerOn, Apart
    <2>2. \A k \in 1 .. Len(q) : HasId(q[k]) => q[k].id <= o
      BY <2>1
    <2> QED
      BY <2>2 DEF PowerOn, Apart
  <1>3. c.session <= o /\ d.session <= o
    BY DEF PowerOn, Control, Deletion
  <1> QED
    BY <1>2, <1>3 DEF PowerOn

\* The response to a power message is for the first request of its queue or for none, the
\* response to a deletion for the first deletion or for none.
LEMMA RespondedPower ==
  ASSUME ConfigTypes, ~wrong, NEW kind, NEW id, IsPower([kind |-> kind]), Cfg!Respond(kind, id),
         id # deletion.session,
         id = control.session => control.requests # <<>> /\ Head(control.requests) = kind
  PROVE  /\ control' = IF id = control.session THEN [control EXCEPT !.requests = Tail(@)] ELSE control
         /\ deletion' = deletion /\ enabled' = enabled /\ ~wrong'
  BY DEF Cfg!Respond

\* The response to a deletion reaches its request, or none.
LEMMA RespondedDeletion ==
  ASSUME ConfigTypes, ~wrong, NEW id, Cfg!Respond("delete", id), id # control.session
  PROVE  /\ control' = control /\ deletion'.session = deletion.session /\ enabled' = enabled /\ ~wrong'
  <1>1. deletion.requests # <<>> => Head(deletion.requests) = "delete"
    <2>1. deletion.requests # <<>> => Head(deletion.requests) \in {"delete"}
      BY DEF ConfigTypes, Deletion
    <2> QED
      BY <2>1
  <1> QED
    BY <1>1 DEF Cfg!Respond, ConfigTypes, Deletion

\* Every step keeps the power invariant: a command posts its message, the handlers turn the
\* vote.
LEMMA PowerStep ==
  ASSUME ConfigTypes, PowerInv, ~hasApi => config = NoItem, [Cfg!Next]_configVars
  PROVE  PowerInv'
  <1> USE DEF PowerInv
  <1>1. /\ msgQ \in Seq(Msg) /\ vote \in Nat /\ enabled \in BOOLEAN /\ control \in Control
        /\ deletion \in Deletion /\ ids \in Nat
    BY DEF ConfigTypes
  \* A message about something else
  <1>2. ASSUME NEW m \in Msg, ~HasId(m), msgQ' = Append(msgQ, m), ids' \in Nat, ids <= ids',
               UNCHANGED <<vote, enabled, control, deletion, wrong>>
        PROVE  PowerInv'
    BY <1>1, <1>2, PowerPlain
  <1>3. ASSUME NEW kind, Cfg!Handle(kind), kind \notin {"enable", "disable", "delete"},
               UNCHANGED <<vote, enabled, control, deletion, wrong>>
        PROVE  PowerInv'
    <2>1. /\ msgQ # <<>> /\ Head(msgQ).kind = kind /\ msgQ' = Tail(msgQ) /\ ids' = ids
      BY <1>3, Handled
    <2>2. ~IsPower(Head(msgQ))
      BY <1>3, <2>1 DEF IsPower
    <2>3. \E u \in Nat : Turn(Head(msgQ), vote, u) /\ PowerOn(Tail(msgQ), u, enabled, control, deletion, ids)
      BY <1>1, <2>1, <2>2, PowerTaken DEF Answered
    <2>4. PowerOn(Tail(msgQ), vote, enabled, control, deletion, ids)
      BY <2>2, <2>3 DEF Turn, IsPower
    <2> QED
      BY <1>3, <2>1, <2>4
  <1>4. ASSUME NEW i \in Cfg!Item, NEW v \in Inputs[i], Cfg!updateConfiguration(i, v)
        PROVE  PowerInv'
    <2> DEFINE one == [j \in {i} |-> v]
               m == [kind |-> "update", config |-> one]
    <2>1. m \in Msg /\ ~HasId(m)
      BY ConfOf DEF HasId, IsPower
    <2>2. UNCHANGED <<vote, enabled, control, deletion, wrong>>
      BY <1>4 DEF Cfg!updateConfiguration, Cfg!adapter
    <2>3. \/ msgQ' = Append(msgQ, m) /\ ids' = ids + 1
          \/ msgQ' = msgQ /\ ids' = ids
      BY <1>4, Configured
    <2> HIDE DEF m
    <2>4. CASE msgQ' = Append(msgQ, m) /\ ids' = ids + 1
      BY <1>1, <1>2, <2>1, <2>2, <2>4
    <2>5. CASE msgQ' = msgQ /\ ids' = ids
      BY <2>2, <2>5
    <2> QED
      BY <2>3, <2>4, <2>5
  <1>5. CASE Cfg!setCallback
    <2>1. /\ msgQ' = IF enabled THEN SecondQ ELSE Append(SecondQ, [kind |-> "enable", id |-> ids'])
          /\ ids' \in Nat /\ ids <= ids' /\ (~enabled => ids < ids')
          /\ control' = IF enabled THEN control ELSE [session |-> ids', requests |-> <<"enable">>]
          /\ enabled' = TRUE /\ UNCHANGED <<deletion, vote, wrong>>
      BY <1>5, Callback
    <2>2. /\ [kind |-> "capabilities"] \in Msg /\ [kind |-> "update", config |-> pending] \in Msg
          /\ FirstQ \in Seq(Msg) /\ SecondQ \in Seq(Msg)
      BY CallbackMsgs
    <2>3. ~HasId([kind |-> "capabilities"]) /\ ~HasId([kind |-> "update", config |-> pending])
      BY DEF HasId, IsPower
    <2>4. PowerOn(FirstQ, vote, enabled, control, deletion, ids)
      <3>1. CASE hasApi
        BY <3>1 DEF FirstQ
      <3>2. CASE ~hasApi
        BY <1>1, <2>2, <2>3, <3>2, PowerPlain DEF FirstQ
      <3> QED
        BY <3>1, <3>2
    <2>5. PowerOn(SecondQ, vote, enabled, control, deletion, ids)
      <3>1. CASE ~Hands
        BY <2>4, <3>1 DEF SecondQ
      <3>2. CASE Hands
        BY <1>1, <2>2, <2>3, <2>4, <3>2, PowerPlain DEF SecondQ
      <3> QED
        BY <3>1, <3>2
    <2>6. CASE enabled
      <3>1. PowerOn(SecondQ, vote, enabled, control, deletion, ids')
        BY <1>1, <2>1, <2>2, <2>5, PowerMore
      <3> QED
        BY <2>1, <2>6, <3>1
    <2>7. CASE ~enabled
      <3>1. PowerOn(Append(SecondQ, [kind |-> "enable", id |-> ids']), vote, TRUE,
                    [session |-> ids', requests |-> <<"enable">>], deletion, ids')
        BY <1>1, <2>1, <2>2, <2>5, <2>7, PowerEnabled
      <3> QED
        BY <2>1, <2>7, <3>1
    <2> QED
      BY <2>6, <2>7
  <1>6. CASE Cfg!cleanup
    <2>1. /\ enabled /\ msgQ' = Append(msgQ, [kind |-> "disable", id |-> control.session])
          /\ enabled' = FALSE /\ control' = [control EXCEPT !.requests = Append(@, "disable")]
          /\ UNCHANGED <<deletion, ids, vote, wrong>>
      BY <1>6 DEF Cfg!cleanup, Cfg!locAPIDisable, Cfg!adapter
    <2>2. PowerOn(msgQ, vote, TRUE, control, deletion, ids)
      BY <1>1, <2>1
    <2> QED
      BY <1>1, <2>1, <2>2, PowerDisabled
  <1>7. CASE Cfg!deleteAidingData
    <2>1. /\ msgQ' = Append(msgQ, [kind |-> "delete", id |-> ids + 1]) /\ ids' = ids + 1
          /\ deletion' = [session |-> ids + 1, requests |-> <<"delete">>]
          /\ UNCHANGED <<enabled, control, vote, wrong>>
      BY <1>7 DEF Cfg!deleteAidingData, Cfg!locAPIGnssDeleteAidingData, Cfg!adapter
    <2> QED
      BY <1>1, <2>1, PowerDeletion
  <1>8. CASE Cfg!handleEngineUpEvent
    <2> DEFINE m == [kind |-> "setConfig"]
    <2>1. m \in Msg /\ ~HasId(m)
      BY DEF Msg, HasId, IsPower
    <2>2. msgQ' = Append(msgQ, m) /\ UNCHANGED <<ids, vote, enabled, control, deletion, wrong>>
      BY <1>8 DEF Cfg!handleEngineUpEvent, Cfg!client
    <2> HIDE DEF m
    <2> QED
      BY <1>1, <1>2, <2>1, <2>2
  <1>9. CASE Cfg!readConfig
    <2>1. Cfg!Handle("readConfig") /\ UNCHANGED <<vote, enabled, control, deletion, wrong>>
      BY <1>9 DEF Cfg!readConfig, Cfg!client
    <2> QED
      BY <1>3, <2>1
  <1>10. CASE Cfg!setConfig
    <2>1. Cfg!Handle("setConfig") /\ UNCHANGED <<vote, enabled, control, deletion, wrong>>
      BY <1>10 DEF Cfg!setConfig, Cfg!client
    <2> QED
      BY <1>3, <2>1
  <1>11. CASE Cfg!updateConfig
    <2>1. Cfg!Handle("update") /\ UNCHANGED <<vote, enabled, control, deletion, wrong>>
      BY <1>11 DEF Cfg!updateConfig
    <2> QED
      BY <1>3, <2>1
  <1>12. CASE Cfg!requestCapabilities
    <2>1. Cfg!Handle("capabilities") /\ UNCHANGED <<vote, enabled, control, deletion, wrong>>
      BY <1>12 DEF Cfg!requestCapabilities, Cfg!client, Cfg!adapter
    <2> QED
      BY <1>3, <2>1
  \* The response to a power message
  <1>13. ASSUME NEW kind \in {"enable", "disable"}, Cfg!Handle(kind), Cfg!Respond(kind, Head(msgQ).id),
                \A u : Turn(Head(msgQ), vote, u) => vote' = u
         PROVE  PowerInv'
    <2> DEFINE id == Head(msgQ).id
               e == Answered(Head(msgQ), control)
    <2>1. msgQ # <<>> /\ Head(msgQ).kind = kind /\ msgQ' = Tail(msgQ) /\ ids' = ids
      BY <1>13, Handled
    <2>2. IsPower(Head(msgQ)) /\ IsPower([kind |-> kind])
      BY <2>1 DEF IsPower
    <2>3. /\ \E u \in Nat : Turn(Head(msgQ), vote, u) /\ PowerOn(Tail(msgQ), u, enabled, e, deletion, ids)
          /\ id # deletion.session
          /\ id = control.session => control.requests # <<>> /\ Head(control.requests) = Head(msgQ).kind
      BY <1>1, <2>1, <2>2, PowerTaken
    <2>4. control' = e /\ deletion' = deletion /\ enabled' = enabled /\ ~wrong'
      BY <1>13, <2>1, <2>2, <2>3, RespondedPower DEF Answered
    <2> QED
      BY <1>13, <2>1, <2>3, <2>4
  <1>14. CASE Cfg!enable
    <2>1. Cfg!Handle("enable") /\ Cfg!Respond("enable", Head(msgQ).id)
      BY <1>14 DEF Cfg!enable
    <2>2. Head(msgQ).kind = "enable"
      BY <2>1, Handled
    <2>3. \A u : Turn(Head(msgQ), vote, u) => vote' = u
      BY <1>14, <2>2 DEF Cfg!enable, Turn
    <2> QED
      BY <1>13, <2>1, <2>3
  <1>15. CASE Cfg!disable
    <2>1. Cfg!Handle("disable") /\ Cfg!Respond("disable", Head(msgQ).id)
      BY <1>15 DEF Cfg!disable
    <2>2. Head(msgQ).kind = "disable"
      BY <2>1, Handled
    <2>3. \A u : Turn(Head(msgQ), vote, u) => vote' = u
      BY <1>15, <2>2 DEF Cfg!disable, Turn
    <2> QED
      BY <1>13, <2>1, <2>3
  <1>16. CASE Cfg!deleteAiding
    <2>1. Cfg!Handle("delete") /\ Cfg!Respond("delete", Head(msgQ).id) /\ UNCHANGED vote
      BY <1>16 DEF Cfg!deleteAiding, Cfg!adapter
    <2>2. msgQ # <<>> /\ Head(msgQ).kind = "delete" /\ msgQ' = Tail(msgQ) /\ ids' = ids
      BY <2>1, Handled
    <2>3. ~IsPower(Head(msgQ))
      BY <2>2 DEF IsPower
    <2>4. /\ \E u \in Nat : Turn(Head(msgQ), vote, u) /\ PowerOn(Tail(msgQ), u, enabled, control, deletion, ids)
          /\ Head(msgQ).id # control.session
      BY <1>1, <2>2, <2>3, PowerTaken DEF Answered
    <2>5. PowerOn(Tail(msgQ), vote, enabled, control, deletion, ids)
      BY <2>3, <2>4 DEF Turn, IsPower
    <2>6. control' = control /\ deletion'.session = deletion.session /\ enabled' = enabled /\ ~wrong'
      BY <2>1, <2>4, RespondedDeletion
    <2>7. PowerOn(Tail(msgQ), vote, enabled, control, deletion', ids)
      BY <2>5, <2>6 DEF PowerOn, Requests
    <2> QED
      BY <2>1, <2>2, <2>6, <2>7
  <1>17. CASE UNCHANGED configVars
    BY <1>17 DEF configVars
  <1>18. CASE Cfg!passCapabilities
    BY <1>18 DEF Cfg!passCapabilities, Cfg!client, Cfg!adapter
  <1> QED
    BY <1>4, <1>5, <1>6, <1>7, <1>8, <1>9, <1>10, <1>11, <1>12, <1>14, <1>15, <1>16, <1>17, <1>18 DEF Cfg!Next

\* Every step keeps the count of the configuration requests.
LEMMA CountStep ==
  ASSUME ConfigTypes, CountInv, ~hasApi => config = NoItem, [Cfg!Next]_configVars
  PROVE  CountInv'
  <1> USE DEF CountInv
  <1>1. msgQ \in Seq(Msg) /\ Cardinality(Updates(msgQ)) \in Nat
    BY UpdatesFinite DEF ConfigTypes
  <1>2. ASSUME NEW m \in Msg, m.kind # "update", msgQ' = Append(msgQ, m), UNCHANGED configQ
        PROVE  CountInv'
    BY <1>1, <1>2, UpdatesPosted
  <1>3. ASSUME NEW kind, Cfg!Handle(kind), kind # "update", UNCHANGED configQ
        PROVE  CountInv'
    <2>1. msgQ # <<>> /\ Head(msgQ).kind # "update" /\ msgQ' = Tail(msgQ)
      BY <1>3, Handled
    <2>2. Cardinality(Updates(Tail(msgQ))) = Cardinality(Updates(msgQ))
      BY <1>1, <2>1, UpdatesTaken
    <2> QED
      BY <1>3, <2>1, <2>2
  <1>4. ASSUME NEW i \in Cfg!Item, NEW v \in Inputs[i], Cfg!updateConfiguration(i, v)
        PROVE  CountInv'
    <2> DEFINE one == [j \in {i} |-> v]
               m == [kind |-> "update", config |-> one]
    <2>1. m \in Msg /\ m.kind = "update"
      BY ConfOf
    <2>2. \/ msgQ' = Append(msgQ, m) /\ configQ' = configQ + 1
          \/ msgQ' = msgQ /\ configQ' = configQ
      BY <1>4, Configured
    <2> HIDE DEF m
    <2> QED
      BY <1>1, <2>1, <2>2, UpdatesPosted
  <1>5. CASE Cfg!setCallback
    <2>1. /\ msgQ' = IF enabled THEN SecondQ ELSE Append(SecondQ, [kind |-> "enable", id |-> ids'])
          /\ ids' \in Nat /\ ids <= ids' /\ (~enabled => ids < ids')
          /\ configQ' = IF Hands THEN configQ + 1 ELSE configQ
      BY <1>5, Callback
    <2>2. /\ [kind |-> "capabilities"] \in Msg /\ [kind |-> "update", config |-> pending] \in Msg
          /\ FirstQ \in Seq(Msg) /\ SecondQ \in Seq(Msg)
      BY CallbackMsgs
    <2>3. Cardinality(Updates(FirstQ)) = Cardinality(Updates(msgQ))
      BY <1>1, <2>2, UpdatesPosted DEF FirstQ
    <2>4. Cardinality(Updates(SecondQ)) = configQ'
      BY <2>1, <2>2, <2>3, UpdatesPosted DEF SecondQ
    <2>5. ~enabled => [kind |-> "enable", id |-> ids'] \in Msg
      BY <2>1 DEF Msg, ConfigTypes
    <2> QED
      BY <2>1, <2>2, <2>4, <2>5, UpdatesPosted
  <1>6. CASE Cfg!cleanup
    <2> DEFINE m == [kind |-> "disable", id |-> control.session]
    <2>1. m \in Msg /\ m.kind # "update"
      BY <1>6 DEF Cfg!cleanup, Cfg!locAPIDisable, Msg, ConfigTypes, Control
    <2>2. msgQ' = Append(msgQ, m) /\ UNCHANGED configQ
      BY <1>6 DEF Cfg!cleanup
    <2> HIDE DEF m
    <2> QED
      BY <1>2, <2>1, <2>2
  <1>7. CASE Cfg!deleteAidingData
    <2> DEFINE m == [kind |-> "delete", id |-> ids + 1]
    <2>1. m \in Msg /\ m.kind # "update"
      BY DEF Msg, ConfigTypes
    <2>2. msgQ' = Append(msgQ, m) /\ UNCHANGED configQ
      BY <1>7 DEF Cfg!deleteAidingData
    <2> HIDE DEF m
    <2> QED
      BY <1>2, <2>1, <2>2
  <1>8. CASE Cfg!handleEngineUpEvent
    <2> DEFINE m == [kind |-> "setConfig"]
    <2>1. m \in Msg /\ m.kind # "update"
      BY DEF Msg
    <2>2. msgQ' = Append(msgQ, m) /\ UNCHANGED configQ
      BY <1>8 DEF Cfg!handleEngineUpEvent, Cfg!client
    <2> HIDE DEF m
    <2> QED
      BY <1>2, <2>1, <2>2
  <1>9. CASE Cfg!readConfig
    BY <1>3, <1>9 DEF Cfg!readConfig, Cfg!client
  <1>10. CASE Cfg!setConfig
    BY <1>3, <1>10 DEF Cfg!setConfig, Cfg!client
  <1>11. CASE Cfg!updateConfig
    <2>1. Cfg!Handle("update") /\ configQ' = IF configQ = 0 THEN 0 ELSE configQ - 1
      BY <1>11 DEF Cfg!updateConfig
    <2>2. msgQ # <<>> /\ Head(msgQ).kind = "update" /\ msgQ' = Tail(msgQ)
      BY <2>1, Handled
    <2>3. /\ Cardinality(Updates(Tail(msgQ))) = Cardinality(Updates(msgQ)) - 1
          /\ Cardinality(Updates(msgQ)) > 0
      BY <1>1, <2>2, UpdatesTaken
    <2> QED
      BY <1>1, <2>1, <2>2, <2>3
  <1>12. CASE Cfg!requestCapabilities
    BY <1>3, <1>12 DEF Cfg!requestCapabilities, Cfg!client
  <1>13. CASE Cfg!enable
    BY <1>3, <1>13, Responded DEF Cfg!enable
  <1>14. CASE Cfg!disable
    BY <1>3, <1>14, Responded DEF Cfg!disable
  <1>15. CASE Cfg!deleteAiding
    BY <1>3, <1>15, Responded DEF Cfg!deleteAiding
  <1>16. CASE UNCHANGED configVars
    BY <1>16 DEF configVars
  <1>17. CASE Cfg!passCapabilities
    BY <1>17 DEF Cfg!passCapabilities, Cfg!client
  <1> QED
    BY <1>4, <1>5, <1>6, <1>7, <1>8, <1>9, <1>10, <1>11, <1>12, <1>13, <1>14, <1>15, <1>16, <1>17 DEF Cfg!Next

\* Nothing changes for the engine when a message is posted.
Follows(q, r) == Early(r) /\ (Reads(r) <=> Reads(q)) /\ (NoSet(r) => NoSet(q))

\* A message that is not about gps.conf changes nothing for the engine.
LEMMA FollowsPosted ==
  ASSUME NEW q \in Seq(Msg), NEW r \in Seq(Msg), NEW m \in Msg, m.kind # "readConfig", Follows(q, r)
  PROVE  Follows(q, Append(r, m))
  <1>1. NoSet(Append(r, m)) => NoSet(r)
    BY Posted DEF NoSet
  <1> QED
    BY <1>1, EarlyPosted DEF Follows

\* Neither do the messages of the callback.
LEMMA CallbackFollows ==
  ASSUME ConfigTypes, Early(msgQ), ~hasApi => config = NoItem, Cfg!setCallback
  PROVE  Follows(msgQ, msgQ')
  <1>1. /\ msgQ' = IF enabled THEN SecondQ ELSE Append(SecondQ, [kind |-> "enable", id |-> ids'])
        /\ ids' \in Nat /\ ids <= ids' /\ (~enabled => ids < ids')
    BY Callback
  <1>2. /\ [kind |-> "capabilities"] \in Msg /\ [kind |-> "update", config |-> pending] \in Msg
        /\ FirstQ \in Seq(Msg) /\ SecondQ \in Seq(Msg) /\ msgQ \in Seq(Msg)
    BY CallbackMsgs DEF ConfigTypes
  <1>3. ~enabled => [kind |-> "enable", id |-> ids'] \in Msg
    BY <1>1 DEF Msg, ConfigTypes
  <1>4. Follows(msgQ, msgQ)
    BY DEF Follows
  <1>5. Follows(msgQ, FirstQ)
    BY <1>2, <1>4, FollowsPosted DEF FirstQ
  <1>6. Follows(msgQ, SecondQ)
    BY <1>2, <1>5, FollowsPosted DEF SecondQ
  <1>7. ~enabled => Follows(msgQ, Append(SecondQ, [kind |-> "enable", id |-> ids']))
    BY <1>2, <1>3, <1>6, FollowsPosted
  <1> QED
    BY <1>1, <1>6, <1>7

\* A message other than setConfig was handled: what waits does so as before.
LEMMA NoSetTaken ==
  ASSUME NEW q \in Seq(Msg), q # <<>>, Head(q).kind # "setConfig", NoSet(Tail(q))
  PROVE  NoSet(q)
  <1>1. /\ Len(q) \in Nat \ {0} /\ Len(Tail(q)) = Len(q) - 1 /\ Head(q) = q[1]
        /\ \A k \in 1 .. Len(q) - 1 : Tail(q)[k] = q[k + 1]
    BY Taken
  <1>2. \A k \in 1 .. Len(q) : k = 1 \/ (k - 1 \in 1 .. Len(Tail(q)) /\ Tail(q)[k - 1] = q[k])
    BY <1>1
  <1> QED
    BY <1>1, <1>2 DEF NoSet

\* Every step keeps the engine as configured, or the item refused, or a setConfig waiting.
LEMMA EngineStep ==
  ASSUME ConfigTypes, EngineInv, ~hasApi => config = NoItem, [Cfg!Next]_configVars
  PROVE  EngineInv'
  <1> USE DEF EngineInv
  <1>1. /\ msgQ \in Seq(Msg) /\ vote \in Nat /\ conf \in [Cfg!Item -> Nat] /\ DOMAIN modem = Cfg!Item
        /\ "GPS_LOCK" \in Cfg!Item /\ "GPS_LOCK" \notin Cfg!Sent /\ Cfg!Sent \subseteq Cfg!Item
        /\ "SERVER" \notin Cfg!Sent
    BY Items DEF ConfigTypes
  <1>2. ASSUME Follows(msgQ, msgQ'), UNCHANGED <<vote, conf, modem, refused>>
        PROVE  EngineInv'
    BY <1>2 DEF Follows
  <1>3. ASSUME NEW m \in Msg, m.kind # "readConfig", msgQ' = Append(msgQ, m),
               UNCHANGED <<vote, conf, modem, refused>>
        PROVE  EngineInv'
    <2>1. Follows(msgQ, msgQ')
      BY <1>1, <1>3, FollowsPosted DEF Follows
    <2> QED
      BY <1>2, <1>3, <2>1
  <1>4. ASSUME NEW kind, Cfg!Handle(kind), kind \notin {"setConfig", "readConfig"}
        PROVE  Early(msgQ') /\ ~Reads(msgQ') /\ (NoSet(msgQ') => NoSet(msgQ))
    <2>1. msgQ # <<>> /\ Head(msgQ).kind = kind /\ msgQ' = Tail(msgQ)
      BY <1>4, Handled
    <2>2. Early(Tail(msgQ)) /\ ~Reads(Tail(msgQ))
      BY <1>1, <2>1, EarlyTaken
    <2>3. NoSet(Tail(msgQ)) => NoSet(msgQ)
      BY <1>1, <1>4, <2>1, NoSetTaken
    <2> QED
      BY <2>1, <2>2, <2>3
  <1>5. ASSUME NEW i \in Cfg!Item, NEW v \in Inputs[i], Cfg!updateConfiguration(i, v)
        PROVE  EngineInv'
    <2> DEFINE one == [j \in {i} |-> v]
               m == [kind |-> "update", config |-> one]
    <2>1. m \in Msg /\ m.kind # "readConfig"
      BY ConfOf
    <2>2. UNCHANGED <<vote, conf, modem, refused>>
      BY <1>5 DEF Cfg!updateConfiguration, Cfg!adapter
    <2>3. msgQ' = Append(msgQ, m) \/ msgQ' = msgQ
      BY <1>5, Configured
    <2> HIDE DEF m
    <2>4. CASE msgQ' = Append(msgQ, m)
      BY <1>3, <2>1, <2>2, <2>4
    <2>5. CASE msgQ' = msgQ
      BY <2>2, <2>5
    <2> QED
      BY <2>3, <2>4, <2>5
  <1>6. CASE Cfg!setCallback
    <2>1. UNCHANGED <<vote, conf, modem, refused>>
      BY <1>6, Callback
    <2> QED
      BY <1>2, <1>6, <2>1, CallbackFollows
  <1>7. CASE Cfg!cleanup
    <2> DEFINE m == [kind |-> "disable", id |-> control.session]
    <2>1. m \in Msg /\ m.kind # "readConfig"
      BY <1>7 DEF Cfg!cleanup, Cfg!locAPIDisable, Msg, ConfigTypes, Control
    <2>2. msgQ' = Append(msgQ, m) /\ UNCHANGED <<vote, conf, modem, refused>>
      BY <1>7 DEF Cfg!cleanup, Cfg!adapter
    <2> HIDE DEF m
    <2> QED
      BY <1>3, <2>1, <2>2
  <1>8. CASE Cfg!deleteAidingData
    <2> DEFINE m == [kind |-> "delete", id |-> ids + 1]
    <2>1. m \in Msg /\ m.kind # "readConfig"
      BY DEF Msg, ConfigTypes
    <2>2. msgQ' = Append(msgQ, m) /\ UNCHANGED <<vote, conf, modem, refused>>
      BY <1>8 DEF Cfg!deleteAidingData, Cfg!adapter
    <2> HIDE DEF m
    <2> QED
      BY <1>3, <2>1, <2>2
  <1>9. CASE Cfg!handleEngineUpEvent
    <2> DEFINE m == [kind |-> "setConfig"]
    <2>1. m \in Msg /\ m.kind = "setConfig"
      BY DEF Msg
    <2>2. /\ msgQ' = Append(msgQ, m) /\ UNCHANGED <<vote, conf, refused>>
          /\ modem'["GPS_LOCK"] = modem["GPS_LOCK"]
      BY <1>1, <1>9 DEF Cfg!handleEngineUpEvent
    <2> HIDE DEF m
    <2>3. Early(msgQ') /\ (Reads(msgQ') <=> Reads(msgQ))
      BY <1>1, <2>1, <2>2, EarlyPosted
    <2>4. ~NoSet(msgQ')
      BY <1>1, <2>1, <2>2, Posted DEF NoSet
    <2> QED
      BY <2>2, <2>3, <2>4
  <1>10. CASE Cfg!readConfig
    <2>1. Cfg!Handle("readConfig") /\ UNCHANGED <<vote, modem, refused>>
      BY <1>10 DEF Cfg!readConfig
    <2>2. msgQ # <<>> /\ Head(msgQ).kind = "readConfig" /\ msgQ' = Tail(msgQ)
      BY <2>1, Handled
    <2>3. /\ Len(msgQ) \in Nat \ {0} /\ Len(Tail(msgQ)) = Len(msgQ) - 1 /\ Head(msgQ) = msgQ[1]
          /\ \A k \in 1 .. Len(msgQ) - 1 : Tail(msgQ)[k] = msgQ[k + 1]
      BY <1>1, <2>2, Taken
    <2>4. Len(msgQ) >= 2 /\ msgQ[2].kind = "setConfig" /\ Reads(msgQ)
      BY <2>2, <2>3 DEF Early, Reads
    <2>5. 1 \in 1 .. Len(Tail(msgQ)) /\ Tail(msgQ)[1] = msgQ[2]
      <3>1. 1 \in 1 .. Len(msgQ) - 1 /\ 1 + 1 = 2
        BY <2>3, <2>4
      <3> QED
        BY <2>3, <3>1
    <2>6. ~NoSet(Tail(msgQ))
      BY <2>4, <2>5 DEF NoSet
    <2>7. Early(Tail(msgQ)) /\ ~Reads(Tail(msgQ))
      BY <1>1, <2>2, EarlyTaken
    <2>8. modem["GPS_LOCK"] = Cfg!Unset
      BY <2>4
    <2> QED
      BY <2>1, <2>2, <2>6, <2>7, <2>8
  <1>11. CASE Cfg!setConfig
    <2> DEFINE server == Cfg!ServerChange(FileConf["SERVER"])
    <2>1. server \subseteq {"SERVER"}
      BY DEF Cfg!ServerChange
    <2>2. PICK vals : /\ vals = [i \in Cfg!Sent \union server |->
                                  IF i = "SERVER" THEN FileConf[i] ELSE Cfg!FromConf(i, conf[i])]
                      /\ \E no \in SUBSET DOMAIN vals : Cfg!ToEngine(vals, no)
      BY <1>11 DEF Cfg!setConfig
    <2>3. Cfg!Handle("setConfig") /\ UNCHANGED <<vote, conf>>
      BY <1>11 DEF Cfg!setConfig
    <2> HIDE DEF server
    <2>4. /\ "GPS_LOCK" \notin DOMAIN vals /\ Cfg!Sent \subseteq DOMAIN vals
          /\ \A i \in Cfg!Sent : vals[i] = Cfg!FromConf(i, conf[i])
      BY <1>1, <2>1, <2>2
    <2>5. /\ \A i \in Cfg!Sent : modem'[i] = Cfg!FromConf(i, conf'[i]) \/ i \in refused'
          /\ modem'["GPS_LOCK"] = modem["GPS_LOCK"] /\ ("GPS_LOCK" \in refused' <=> "GPS_LOCK" \in refused)
      <3>1. /\ \A i \in Cfg!Item : /\ i \in DOMAIN vals => modem'[i] = vals[i] \/ i \in refused'
                                   /\ i \notin DOMAIN vals => modem'[i] = modem[i]
            /\ \A i : i \notin DOMAIN vals => (i \in refused' <=> i \in refused)
        BY <2>2, Called
      <3> QED
        BY <1>1, <2>3, <2>4, <3>1
    <2>6. msgQ # <<>> /\ msgQ' = Tail(msgQ)
      BY <2>3, Handled
    <2>7. Early(Tail(msgQ)) /\ ~Reads(Tail(msgQ))
      BY <1>1, <2>6, EarlyTaken
    <2> QED
      BY <2>3, <2>5, <2>6, <2>7
  <1>12. CASE Cfg!updateConfig
    <2> DEFINE cfg == Head(msgQ).config
               server == IF "SERVER" \in DOMAIN cfg THEN Cfg!ServerChange(cfg["SERVER"]) ELSE {}
    <2>1. Cfg!Handle("update") /\ UNCHANGED vote
      BY <1>12 DEF Cfg!updateConfig
    <2>2. cfg \in Confs
      BY <2>1, Handled, MsgFields
    <2>3. server \subseteq {"SERVER"}
      BY DEF Cfg!ServerChange
    <2>4. PICK vals : /\ vals = [i \in Cfg!LockUpdates(cfg) \union Cfg!Changed(cfg) \union server |-> cfg[i]]
                      /\ \E no \in SUBSET DOMAIN vals : Cfg!ToEngine(vals, no)
      BY <1>12 DEF Cfg!updateConfig
    <2>5. conf' = [i \in Cfg!Item |-> IF i \in Cfg!Stored(cfg) THEN Cfg!ToConf(i, cfg[i]) ELSE conf[i]]
      BY <1>12 DEF Cfg!updateConfig
    <2> HIDE DEF cfg, server
    <2>6. /\ \A i \in Cfg!Item : i \notin DOMAIN cfg => conf'[i] = conf[i]
          /\ \A i \in DOMAIN cfg : Kept(i) => conf'[i] = Cfg!ToConf(i, cfg[i])
      BY <2>2, <2>5, Stores
    <2>7. /\ \A i \in Cfg!Item : /\ i \in DOMAIN vals => modem'[i] = vals[i] \/ i \in refused'
                                 /\ i \notin DOMAIN vals => modem'[i] = modem[i]
          /\ \A i : i \notin DOMAIN vals => (i \in refused' <=> i \in refused)
      BY <2>4, Called
    <2>8. Cfg!Changed(cfg) \subseteq Cfg!Sent /\ DOMAIN cfg \subseteq Cfg!Item
      BY <2>2, ConfFields DEF Cfg!Changed
    <2>9. modem'["GPS_LOCK"] # Cfg!Unset =>
            \/ "GPS_LOCK" \in refused'
            \/ modem'["GPS_LOCK"] = IF vote' > 0 THEN 0 ELSE conf'["GPS_LOCK"]
      <3>1. CASE vote = 0 /\ "GPS_LOCK" \in DOMAIN cfg
        <4>1. "GPS_LOCK" \in DOMAIN vals /\ vals["GPS_LOCK"] = cfg["GPS_LOCK"]
          BY <2>4, <3>1 DEF Cfg!LockUpdates
        <4>2. conf'["GPS_LOCK"] = cfg["GPS_LOCK"]
          BY <2>6, <3>1, Items DEF Cfg!ToConf
        <4> QED
          BY <1>1, <2>1, <2>7, <3>1, <4>1, <4>2
      <3>2. CASE ~(vote = 0 /\ "GPS_LOCK" \in DOMAIN cfg)
        <4>1. "GPS_LOCK" \notin DOMAIN vals
          BY <1>1, <2>3, <2>4, <2>8, <3>2 DEF Cfg!LockUpdates
        <4>2. "GPS_LOCK" \in DOMAIN cfg \/ conf'["GPS_LOCK"] = conf["GPS_LOCK"]
          BY <1>1, <2>6
        <4> QED
          BY <1>1, <2>1, <2>7, <3>2, <4>1, <4>2
      <3> QED
        BY <3>1, <3>2
    <2>10. ASSUME NoSet(msgQ), NEW i \in Cfg!Sent
           PROVE  modem'[i] = Cfg!FromConf(i, conf'[i]) \/ i \in refused'
      <3>1. i \in Cfg!Item /\ i # "SERVER" /\ i # "GPS_LOCK" /\ Kept(i)
        BY <1>1 DEF Cfg!Sent, Kept
      <3>2. modem[i] = Cfg!FromConf(i, conf[i]) \/ i \in refused
        BY <2>10
      <3>3. CASE i \in Cfg!Changed(cfg)
        <4>1. i \in DOMAIN vals /\ vals[i] = cfg[i] /\ i \in DOMAIN cfg
          BY <2>4, <3>3 DEF Cfg!Changed
        <4>2. cfg[i] \in Inputs[i]
          BY <2>2, <3>1, <4>1, ConfFields
        <4>3. Cfg!FromConf(i, conf'[i]) = cfg[i]
          BY <2>6, <3>1, <4>1, <4>2, Numbers
        <4> QED
          BY <2>7, <3>1, <4>1, <4>3
      <3>4. CASE i \notin Cfg!Changed(cfg)
        <4>1. i \notin DOMAIN vals
          BY <2>3, <2>4, <3>1, <3>4 DEF Cfg!LockUpdates
        <4>2. conf'[i] = conf[i]
          <5>1. CASE i \in DOMAIN cfg
            BY <2>6, <3>1, <3>4, <5>1 DEF Cfg!Changed
          <5>2. CASE i \notin DOMAIN cfg
            BY <2>6, <3>1, <5>2
          <5> QED
            BY <5>1, <5>2
        <4> QED
          BY <2>7, <3>1, <3>2, <4>1, <4>2
      <3> QED
        BY <3>3, <3>4
    <2>11. Early(msgQ') /\ ~Reads(msgQ') /\ (NoSet(msgQ') => NoSet(msgQ))
      BY <1>4, <2>1
    <2> QED
      BY <2>9, <2>10, <2>11
  <1>13. CASE Cfg!requestCapabilities
    <2>1. Cfg!Handle("capabilities") /\ UNCHANGED <<vote, conf, modem, refused>>
      BY <1>13 DEF Cfg!requestCapabilities, Cfg!adapter
    <2> QED
      BY <1>4, <2>1
  <1>14. CASE Cfg!deleteAiding
    <2>1. Cfg!Handle("delete") /\ UNCHANGED <<vote, conf, modem, refused>>
      BY <1>14 DEF Cfg!deleteAiding, Cfg!adapter
    <2> QED
      BY <1>4, <2>1
  \* The lock goes with the vote.
  <1>15. ASSUME NEW kind \in {"enable", "disable"}, Cfg!Handle(kind), UNCHANGED conf,
                NEW lock, lock = IF vote' > 0 THEN 0 ELSE conf["GPS_LOCK"],
                \E no \in SUBSET {"GPS_LOCK"} : Cfg!ToEngine([i \in {"GPS_LOCK"} |-> lock], no)
         PROVE  EngineInv'
    <2> DEFINE vals == [i \in {"GPS_LOCK"} |-> lock]
    <2>1. DOMAIN vals = {"GPS_LOCK"} /\ vals["GPS_LOCK"] = lock
      OBVIOUS
    <2>2. \E no \in SUBSET DOMAIN vals : Cfg!ToEngine(vals, no)
      BY <1>15, <2>1
    <2> HIDE DEF vals
    <2>3. /\ \A i \in Cfg!Item : /\ i \in DOMAIN vals => modem'[i] = vals[i] \/ i \in refused'
                                 /\ i \notin DOMAIN vals => modem'[i] = modem[i]
          /\ \A i : i \notin DOMAIN vals => (i \in refused' <=> i \in refused)
      BY <2>2, Called
    <2>4. modem'["GPS_LOCK"] = lock \/ "GPS_LOCK" \in refused'
      BY <1>1, <2>1, <2>3
    <2>5. \A i \in Cfg!Sent : modem'[i] = modem[i] /\ (i \in refused' <=> i \in refused)
      BY <1>1, <2>1, <2>3
    <2>6. Early(msgQ') /\ ~Reads(msgQ') /\ (NoSet(msgQ') => NoSet(msgQ))
      BY <1>4, <1>15
    <2> QED
      BY <1>15, <2>4, <2>5, <2>6
  <1>16. CASE Cfg!enable
    <2>1. Cfg!Handle("enable") /\ UNCHANGED conf
      BY <1>16 DEF Cfg!enable
    <2>2. Head(msgQ).id \in Nat /\ Head(msgQ).id > 0
      BY <2>1, Handled, MsgFields DEF HasId, IsPower
    <2>3. CASE vote > 0
      <3>1. UNCHANGED <<vote, conf, modem, refused>>
        BY <1>16, <2>3 DEF Cfg!enable
      <3> QED
        BY <1>4, <2>1, <3>1
    <2>4. CASE ~(vote > 0)
      <3>1. /\ vote' = Head(msgQ).id
            /\ \E no \in SUBSET {"GPS_LOCK"} : Cfg!ToEngine([i \in {"GPS_LOCK"} |-> 0], no)
        BY <1>16, <2>4 DEF Cfg!enable
      <3>2. 0 = IF vote' > 0 THEN 0 ELSE conf["GPS_LOCK"]
        BY <2>2, <3>1
      <3> QED
        BY <1>15, <2>1, <3>1, <3>2
    <2> QED
      BY <2>3, <2>4
  <1>17. CASE Cfg!disable
    <2>1. Cfg!Handle("disable") /\ UNCHANGED conf
      BY <1>17 DEF Cfg!disable
    <2>2. CASE vote # Head(msgQ).id
      <3>1. UNCHANGED <<vote, conf, modem, refused>>
        BY <1>17, <2>2 DEF Cfg!disable
      <3> QED
        BY <1>4, <2>1, <3>1
    <2>3. CASE ~(vote # Head(msgQ).id)
      <3>1. /\ vote' = 0
            /\ \E no \in SUBSET {"GPS_LOCK"} : Cfg!ToEngine([i \in {"GPS_LOCK"} |-> conf["GPS_LOCK"]], no)
        BY <1>17, <2>3 DEF Cfg!disable
      <3>2. conf["GPS_LOCK"] = IF vote' > 0 THEN 0 ELSE conf["GPS_LOCK"]
        BY <3>1
      <3> QED
        BY <1>15, <2>1, <3>1, <3>2
    <2> QED
      BY <2>2, <2>3
  <1>18. CASE UNCHANGED configVars
    BY <1>18 DEF configVars
  <1>19. CASE Cfg!passCapabilities
    BY <1>19 DEF Cfg!passCapabilities, Cfg!adapter
  <1> QED
    BY <1>5, <1>6, <1>7, <1>8, <1>9, <1>10, <1>11, <1>12, <1>13, <1>14, <1>16, <1>17, <1>18, <1>19 DEF Cfg!Next

\* A message that is no update leaves what the items end as.
LEMMA ItemsPosted ==
  ASSUME NEW q \in Seq(Msg), NEW m \in Msg, m.kind \notin {"update", "readConfig"}, NEW n, NEW w
  PROVE  /\ ItemsEnd(q, n, w) => ItemsEnd(Append(q, m), n, w)
         /\ NoUpdate(q) => NoUpdate(Append(q, m))
  <1>1. ASSUME ItemsEnd(q, n, w), NEW i \in Cfg!Item, Kept(i), w[i] # Cfg!Unset
        PROVE  Ends(Append(q, m), i, n[i], w[i])
    <2>1. Ends(q, i, n[i], w[i])
      BY <1>1 DEF ItemsEnd
    <2>2. ~Updating(m, i) /\ m.kind # "readConfig"
      BY DEF Updating
    <2> QED
      BY <2>1, <2>2, EndsPosted
  <1>2. /\ Len(q) \in Nat /\ Len(Append(q, m)) = Len(q) + 1 /\ Append(q, m)[Len(q) + 1] = m
        /\ \A k \in 1 .. Len(q) : Append(q, m)[k] = q[k]
    BY Posted
  <1>3. \A k \in 1 .. Len(Append(q, m)) : k \in 1 .. Len(q) \/ k = Len(q) + 1
    BY <1>2
  <1>4. NoUpdate(q) => NoUpdate(Append(q, m))
    BY <1>2, <1>3 DEF NoUpdate
  <1> QED
    BY <1>1, <1>4 DEF ItemsEnd

\* A request for the capabilities that was posted waits.
LEMMA AskPosted ==
  ASSUME NEW q \in Seq(Msg), NEW m \in Msg, NoAsk(Append(q, m))
  PROVE  NoAsk(q) /\ m.kind # "capabilities"
  <1>1. /\ Len(q) \in Nat /\ Len(Append(q, m)) = Len(q) + 1 /\ Append(q, m)[Len(q) + 1] = m
        /\ \A k \in 1 .. Len(q) : Append(q, m)[k] = q[k]
    BY Posted
  <1>2. \A k \in 1 .. Len(q) + 1 : Append(q, m)[k].kind # "capabilities"
    BY <1>1 DEF NoAsk
  <1>3. Len(q) + 1 \in 1 .. Len(q) + 1 /\ \A k \in 1 .. Len(q) : k \in 1 .. Len(q) + 1
    BY <1>1
  <1> QED
    BY <1>1, <1>2, <1>3 DEF NoAsk

\* The message m stores the items it has: they were as in n and are as in o.
Storing(m, n, o) ==
  \A i \in Cfg!Item : Kept(i) =>
    /\ Updating(m, i) => o[i] = Cfg!ToConf(i, m.config[i])
    /\ ~Updating(m, i) /\ m.kind # "readConfig" => o[i] = n[i]

\* Handling it leaves what the items end as.
LEMMA ItemsTaken ==
  ASSUME NEW q \in Seq(Msg), q # <<>>, Early(q), NEW n, NEW w, NEW o, Storing(Head(q), n, o)
  PROVE  /\ ItemsEnd(q, n, w) => ItemsEnd(Tail(q), o, w)
         /\ NoUpdate(q) => NoUpdate(Tail(q))
         /\ NoAsk(Tail(q)) /\ Head(q).kind # "capabilities" => NoAsk(q)
         /\ ~Reads(Tail(q))
  <1>1. ASSUME ItemsEnd(q, n, w), NEW i \in Cfg!Item, Kept(i), w[i] # Cfg!Unset
        PROVE  Ends(Tail(q), i, o[i], w[i])
    <2>1. Ends(q, i, n[i], w[i])
      BY <1>1 DEF ItemsEnd
    <2>2. /\ Updating(Head(q), i) => o[i] = Cfg!ToConf(i, Head(q).config[i])
          /\ ~Updating(Head(q), i) /\ Head(q).kind # "readConfig" => o[i] = n[i]
      BY <1>1 DEF Storing
    <2> QED
      BY <2>1, <2>2, EndsTaken
  <1>2. /\ Len(q) \in Nat \ {0} /\ Len(Tail(q)) = Len(q) - 1 /\ Head(q) = q[1]
        /\ \A k \in 1 .. Len(q) - 1 : Tail(q)[k] = q[k + 1]
    BY Taken
  <1>3. NoUpdate(q) => NoUpdate(Tail(q))
    <2>1. \A k \in 1 .. Len(Tail(q)) : k + 1 \in 1 .. Len(q) /\ Tail(q)[k] = q[k + 1]
      BY <1>2
    <2> QED
      BY <2>1 DEF NoUpdate
  <1>4. NoAsk(Tail(q)) /\ Head(q).kind # "capabilities" => NoAsk(q)
    <2>1. \A k \in 1 .. Len(q) : k = 1 \/ (k - 1 \in 1 .. Len(Tail(q)) /\ Tail(q)[k - 1] = q[k])
      BY <1>2
    <2> QED
      BY <1>2, <2>1 DEF NoAsk
  <1> QED
    BY <1>1, <1>3, <1>4, EarlyTaken DEF ItemsEnd

\* Every step keeps what the items end as, whatever is set before or after the callback.
LEMMA WantedStep ==
  ASSUME ConfigTypes, Early(msgQ), WantedInv, [Cfg!Next]_configVars
  PROVE  WantedInv'
  <1>1. /\ msgQ \in Seq(Msg) /\ conf \in [Cfg!Item -> Nat] /\ DOMAIN wanted = Cfg!Item
        /\ pending \in Confs /\ config \in Confs /\ hasApi \in BOOLEAN
        /\ "SUPL_MODE" \in Cfg!Item
    BY Items DEF ConfigTypes
  <1>2. ASSUME NEW m \in Msg, m.kind \notin {"update", "readConfig"}, msgQ' = Append(msgQ, m),
               UNCHANGED <<pending, hasApi, config, conf, cached, toldModes, passing, stale,
                           wanted>>
        PROVE  WantedInv'
    <2>1. /\ ItemsEnd(msgQ, conf, wanted) => ItemsEnd(Append(msgQ, m), conf, wanted)
          /\ NoUpdate(msgQ) => NoUpdate(Append(msgQ, m))
      BY <1>1, <1>2, ItemsPosted
    <2>2. NoAsk(Append(msgQ, m)) => NoAsk(msgQ)
      BY <1>1, <1>2, AskPosted
    <2>3. Reads(Append(msgQ, m)) <=> Reads(msgQ)
      BY <1>1, <1>2, EarlyPosted
    <2> QED
      BY <1>2, <2>1, <2>2, <2>3 DEF WantedInv, AllPending, ModesTold
  <1>3. ASSUME NEW kind, Cfg!Handle(kind), kind \notin {"update", "readConfig", "capabilities"},
               UNCHANGED <<config, conf, cached, toldModes, passing, stale>>
        PROVE  WantedInv'
    <2>1. /\ msgQ # <<>> /\ Head(msgQ).kind = kind /\ msgQ' = Tail(msgQ)
          /\ UNCHANGED <<pending, hasApi, wanted>>
      BY <1>3, Handled
    <2>2. Storing(Head(msgQ), conf, conf)
      BY <1>3, <2>1 DEF Storing, Updating
    <2>3. /\ ItemsEnd(msgQ, conf, wanted) => ItemsEnd(Tail(msgQ), conf, wanted)
          /\ NoUpdate(msgQ) => NoUpdate(Tail(msgQ))
          /\ NoAsk(Tail(msgQ)) => NoAsk(msgQ)
          /\ ~Reads(Tail(msgQ))
      BY <1>1, <1>3, <2>1, <2>2, ItemsTaken
    <2> QED
      BY <1>3, <2>1, <2>3 DEF WantedInv, AllPending, ModesTold
  <1>4. ASSUME NEW i \in Cfg!Item, NEW v \in Inputs[i], Cfg!updateConfiguration(i, v)
        PROVE  WantedInv'
    <2>1. PICK one : one = [j \in {i} |-> v]
      OBVIOUS
    <2>2. /\ wanted' = [wanted EXCEPT ![i] = v]
          /\ UNCHANGED <<hasApi, conf, cached, toldModes, passing, stale>>
      BY <1>4 DEF Cfg!updateConfiguration, Cfg!adapter, Cfg!caps
    <2>3. \/ /\ hasApi /\ config' = one /\ pending' = pending
             /\ msgQ' = Append(msgQ, [kind |-> "update", config |-> one])
          \/ /\ hasApi /\ config = one /\ i # "SERVER" /\ pending' = pending
             /\ UNCHANGED <<config, msgQ>>
          \/ /\ ~hasApi /\ UNCHANGED <<config, msgQ>>
             /\ pending' = Cfg!PendingWith(i, v)
      BY <1>4, <2>1, Configured
    <2>4. wanted'[i] = v /\ \A j \in Cfg!Item \ {i} : wanted'[j] = wanted[j]
      BY <1>1, <2>2
    <2>5. ASSUME hasApi, config' = one, msgQ' = Append(msgQ, [kind |-> "update", config |-> one])
          PROVE  WantedInv'
      <3>1. PICK m : m = [kind |-> "update", config |-> one]
        OBVIOUS
      <3>2. m \in Msg /\ m.kind = "update" /\ m.config = one /\ DOMAIN one = {i} /\ one[i] = v
        BY <2>1, <3>1, ConfOf
      <3>3. ASSUME NEW j \in Cfg!Item, Kept(j), wanted'[j] # Cfg!Unset
            PROVE  Ends(Append(msgQ, m), j, conf[j], wanted'[j])
        <4>1. CASE j = i
          <5>1. Updating(m, j) /\ m.config[j] = wanted'[j]
            BY <2>4, <3>2, <4>1 DEF Updating
          <5> QED
            BY <1>1, <3>2, <5>1, EndsUpdated
        <4>2. CASE j # i
          <5>1. Ends(msgQ, j, conf[j], wanted'[j])
            BY <2>4, <2>5, <3>3, <4>2 DEF WantedInv, ItemsEnd
          <5>2. ~Updating(m, j) /\ m.kind # "readConfig"
            BY <3>2, <4>2 DEF Updating
          <5> QED
            BY <1>1, <3>2, <5>1, <5>2, EndsPosted
        <4> QED
          BY <4>1, <4>2
      <3>4. NoAsk(Append(msgQ, m)) => NoAsk(msgQ)
        BY <1>1, <3>2, AskPosted
      <3>5. Reads(Append(msgQ, m)) <=> Reads(msgQ)
        BY <1>1, <3>2, EarlyPosted
      <3>6. msgQ' = Append(msgQ, m) /\ hasApi'
        BY <2>2, <2>5, <3>1
      <3>7. ItemsEnd(msgQ, conf, wanted)'
        BY <2>2, <3>3, <3>6 DEF ItemsEnd, Cfg!Item, Kept, Cfg!Injected, Cfg!Unset
      <3>8. \A j \in DOMAIN config' \ {"SERVER"} : config'[j] = wanted'[j]
        BY <2>4, <2>5, <3>2
      <3>9. NoAsk(msgQ)' => ModesTold'
        BY <2>2, <2>5, <3>4, <3>5, <3>6 DEF WantedInv, ModesTold
      <3> QED
        BY <3>6, <3>7, <3>8, <3>9 DEF WantedInv
    <2>6. ASSUME hasApi, config = one, i # "SERVER", UNCHANGED <<config, msgQ, pending>>
          PROVE  WantedInv'
      <3>1. wanted[i] = v
        BY <2>1, <2>6 DEF WantedInv
      <3>2. \A j \in Cfg!Item : wanted'[j] = wanted[j]
        BY <2>4, <3>1
      <3>3. DOMAIN config \subseteq Cfg!Item
        BY <1>1, ConfFields
      <3>4. ItemsEnd(msgQ, conf, wanted) => ItemsEnd(msgQ, conf, wanted')
        BY <3>2 DEF ItemsEnd
      <3>5. ItemsEnd(msgQ, conf, wanted)'
        BY <2>2, <2>6, <3>4 DEF WantedInv, ItemsEnd, Cfg!Item, Kept, Cfg!Injected, Cfg!Unset
      <3>6. \A j \in DOMAIN config' \ {"SERVER"} : config'[j] = wanted'[j]
        BY <2>6, <3>2, <3>3 DEF WantedInv
      <3>7. NoAsk(msgQ)' => ModesTold'
        BY <2>2, <2>6 DEF WantedInv, ModesTold
      <3> QED
        BY <2>2, <2>6, <3>5, <3>6, <3>7 DEF WantedInv
    <2>7. ASSUME ~hasApi, UNCHANGED <<config, msgQ>>, pending' = Cfg!PendingWith(i, v)
          PROVE  WantedInv'
      <3>1. /\ DOMAIN pending' = DOMAIN pending \union {i}
            /\ \A j \in DOMAIN pending' \ {"SERVER"} : pending'[j] = IF j = i THEN v ELSE pending[j]
        BY <2>7 DEF Cfg!PendingWith
      <3>2. DOMAIN pending \subseteq Cfg!Item
        BY <1>1, ConfFields
      <3>3. config = NoItem /\ NoUpdate(msgQ) /\ AllPending
        BY <2>7 DEF WantedInv
      <3>4. AllPending'
        BY <2>4, <3>1, <3>2, <3>3 DEF AllPending
      <3>5. DOMAIN config' = {} /\ config' = NoItem /\ NoUpdate(msgQ)' /\ ~hasApi'
        BY <2>2, <2>7, <3>3 DEF NoItem, NoUpdate
      <3> QED
        BY <3>4, <3>5 DEF WantedInv
    <2> QED
      BY <2>2, <2>3, <2>5, <2>6, <2>7
  <1>5. CASE Cfg!setCallback
    <2>1. /\ msgQ' = IF enabled THEN SecondQ ELSE Append(SecondQ, [kind |-> "enable", id |-> ids'])
          /\ ids' \in Nat /\ ids <= ids' /\ (~enabled => ids < ids')
          /\ config' = IF Hands THEN pending ELSE config
          /\ hasApi' = TRUE /\ pending' = NoItem /\ toldModes' = {} /\ passing' = cached
          /\ UNCHANGED <<conf, cached, stale, wanted>>
      BY <1>5, Callback DEF WantedInv
    <2>2. /\ [kind |-> "capabilities"] \in Msg /\ [kind |-> "update", config |-> pending] \in Msg
          /\ FirstQ \in Seq(Msg) /\ SecondQ \in Seq(Msg)
      BY CallbackMsgs
    <2>3. PICK m : m = [kind |-> "enable", id |-> ids']
      OBVIOUS
    <2>4. ~enabled => m \in Msg
      BY <2>1, <2>3 DEF Msg, ConfigTypes
    <2>5. ItemsEnd(SecondQ, conf, wanted)
      <3>1. CASE hasApi
        BY <3>1 DEF SecondQ, FirstQ, Hands, WantedInv
      <3>2. CASE ~hasApi
        <4> SUFFICES ASSUME NEW i \in Cfg!Item, Kept(i), wanted[i] # Cfg!Unset
                     PROVE  Ends(SecondQ, i, conf[i], wanted[i])
          BY DEF ItemsEnd
        <4>1. i # "SERVER" /\ i \in DOMAIN pending /\ pending[i] = wanted[i]
          BY <3>2 DEF Kept, WantedInv, AllPending
        <4>2. DOMAIN NoItem = {}
          BY DEF NoItem
        <4>3. Hands
          BY <3>2, <4>1, <4>2 DEF Hands
        <4>4. PICK u : u = [kind |-> "update", config |-> pending]
          OBVIOUS
        <4>5. Updating(u, i) /\ u.config[i] = wanted[i]
          BY <4>1, <4>4 DEF Updating
        <4>6. SecondQ = Append(FirstQ, u)
          BY <4>3, <4>4 DEF SecondQ
        <4>7. Ends(Append(FirstQ, u), i, conf[i], wanted[i])
          BY <2>2, <4>4, <4>5, EndsUpdated
        <4> QED
          BY <4>6, <4>7
      <3> QED
        BY <3>1, <3>2
    <2>6. ItemsEnd(msgQ', conf, wanted)
      <3>1. ~enabled => ItemsEnd(Append(SecondQ, m), conf, wanted)
        BY <2>2, <2>3, <2>4, <2>5, ItemsPosted
      <3> QED
        BY <2>1, <2>3, <2>5, <3>1
    <2>7. \A i \in DOMAIN config' \ {"SERVER"} : config'[i] = wanted'[i]
      BY <2>1 DEF Hands, WantedInv, AllPending
    <2>8. ASSUME NoAsk(msgQ)'
          PROVE  ModesTold'
      <3>1. NoAsk(SecondQ)
        <4>1. ~enabled /\ NoAsk(Append(SecondQ, m)) => NoAsk(SecondQ)
          BY <2>2, <2>4, AskPosted
        <4>2. NoAsk(msgQ')
          BY <2>8 DEF NoAsk
        <4> QED
          BY <2>1, <2>3, <4>1, <4>2
      <3>2. NoAsk(FirstQ)
        BY <2>2, <3>1, AskPosted DEF SecondQ
      <3>3. hasApi
        <4>1. CASE ~hasApi
          <5>1. PICK c : c = [kind |-> "capabilities"]
            OBVIOUS
          <5>2. FirstQ = Append(msgQ, c) /\ c \in Msg /\ c.kind = "capabilities"
            BY <2>2, <4>1, <5>1 DEF FirstQ
          <5> QED
            BY <1>1, <3>2, <5>2, AskPosted
        <4> QED
          BY <1>1, <4>1
      <3>4. FirstQ = msgQ /\ SecondQ = msgQ
        BY <3>3 DEF FirstQ, SecondQ, Hands
      <3>5. ModesTold
        BY <3>2, <3>3, <3>4 DEF WantedInv
      <3>6. ~Reads(msgQ')
        <4>1. ~enabled => (Reads(Append(SecondQ, m)) <=> Reads(SecondQ))
          <5>1. m.kind # "readConfig" /\ Early(SecondQ)
            BY <2>3, <3>4
          <5> QED
            BY <2>2, <2>4, <5>1, EarlyPosted
        <4> QED
          BY <2>1, <2>3, <3>4, <3>5, <4>1 DEF ModesTold
      <3>7. /\ ~stale' => cached' = {conf'["SUPL_MODE"]}
            /\ ~stale' /\ passing' = {} => toldModes' = {conf'["SUPL_MODE"]}
        BY <2>1, <3>5 DEF ModesTold
      <3> QED
        BY <3>6, <3>7 DEF ModesTold, Reads
    <2>9. ItemsEnd(msgQ, conf, wanted)'
      BY <2>1, <2>6 DEF ItemsEnd, Cfg!Item, Kept, Cfg!Injected, Cfg!Unset
    <2> QED
      BY <2>1, <2>7, <2>8, <2>9 DEF WantedInv
  <1>6. CASE Cfg!cleanup
    <2> DEFINE m == [kind |-> "disable", id |-> control.session]
    <2>1. m \in Msg /\ m.kind \notin {"update", "readConfig"}
      BY <1>6 DEF Cfg!cleanup, Cfg!locAPIDisable, Msg, ConfigTypes, Control
    <2>2. /\ msgQ' = Append(msgQ, m)
          /\ UNCHANGED <<pending, hasApi, config, conf, cached, toldModes, passing, stale,
                         wanted>>
      BY <1>6 DEF Cfg!cleanup, Cfg!adapter, Cfg!caps
    <2> HIDE DEF m
    <2> QED
      BY <1>2, <2>1, <2>2
  <1>7. CASE Cfg!deleteAidingData
    <2> DEFINE m == [kind |-> "delete", id |-> ids + 1]
    <2>1. m \in Msg /\ m.kind \notin {"update", "readConfig"}
      BY DEF Msg, ConfigTypes
    <2>2. /\ msgQ' = Append(msgQ, m)
          /\ UNCHANGED <<pending, hasApi, config, conf, cached, toldModes, passing, stale,
                         wanted>>
      BY <1>7 DEF Cfg!deleteAidingData, Cfg!adapter, Cfg!caps
    <2> HIDE DEF m
    <2> QED
      BY <1>2, <2>1, <2>2
  <1>8. CASE Cfg!handleEngineUpEvent
    <2> DEFINE m == [kind |-> "setConfig"]
    <2>1. m \in Msg /\ m.kind \notin {"update", "readConfig"}
      BY DEF Msg
    <2>2. /\ msgQ' = Append(msgQ, m)
          /\ UNCHANGED <<pending, hasApi, config, conf, cached, toldModes, passing, stale,
                         wanted>>
      BY <1>8 DEF Cfg!handleEngineUpEvent, Cfg!client, Cfg!caps
    <2> HIDE DEF m
    <2> QED
      BY <1>2, <2>1, <2>2
  <1>9. CASE Cfg!readConfig
    <2>1. Cfg!Handle("readConfig") /\ UNCHANGED <<config, cached, toldModes, passing, stale>>
      BY <1>9 DEF Cfg!readConfig, Cfg!client, Cfg!caps
    <2>2. /\ msgQ # <<>> /\ Head(msgQ).kind = "readConfig" /\ msgQ' = Tail(msgQ)
          /\ UNCHANGED <<pending, hasApi, wanted>>
      BY <2>1, Handled
    <2>3. PICK o : o = conf'
      OBVIOUS
    <2>4. /\ ItemsEnd(msgQ, conf, wanted) => ItemsEnd(Tail(msgQ), o, wanted)
          /\ NoUpdate(msgQ) => NoUpdate(Tail(msgQ))
          /\ NoAsk(Tail(msgQ)) => NoAsk(msgQ)
      <3>1. Storing(Head(msgQ), conf, o)
        BY <2>2 DEF Storing, Updating
      <3> QED
        BY <1>1, <2>2, <3>1, ItemsTaken
    <2>5. Reads(msgQ)
      <3>1. Len(msgQ) \in Nat \ {0} /\ Head(msgQ) = msgQ[1]
        BY <1>1, <2>2, Taken
      <3> QED
        BY <2>2, <3>1 DEF Reads
    <2>6. hasApi => ~NoAsk(msgQ)
      BY <2>5 DEF WantedInv, ModesTold
    <2> QED
      BY <2>1, <2>2, <2>3, <2>4, <2>6 DEF WantedInv, AllPending
  <1>10. CASE Cfg!setConfig
    <2>1. Cfg!Handle("setConfig") /\ UNCHANGED <<config, conf, cached, toldModes, passing, stale>>
      BY <1>10 DEF Cfg!setConfig, Cfg!client, Cfg!caps
    <2> QED
      BY <1>3, <2>1
  <1>11. CASE Cfg!updateConfig
    <2> DEFINE cfg == Head(msgQ).config
    <2>1. Cfg!Handle("update") /\ UNCHANGED config
      BY <1>11 DEF Cfg!updateConfig
    <2>2. /\ msgQ # <<>> /\ Head(msgQ).kind = "update" /\ msgQ' = Tail(msgQ)
          /\ UNCHANGED <<pending, hasApi, wanted>> /\ Head(msgQ) \in Msg
      BY <2>1, Handled
    <2>3. cfg \in Confs
      BY <2>2, MsgFields
    <2>4. PICK o : /\ conf' = o
                   /\ o = [i \in Cfg!Item |-> IF i \in Cfg!Stored(cfg) THEN Cfg!ToConf(i, cfg[i]) ELSE conf[i]]
      BY <1>11 DEF Cfg!updateConfig
    <2>5. IF Cfg!Broadcast(cfg)
          THEN /\ cached' = {cfg["SUPL_MODE"]} /\ toldModes' = {cfg["SUPL_MODE"]}
               /\ stale' = FALSE /\ passing' = passing
          ELSE UNCHANGED <<cached, toldModes, passing, stale>>
      BY <1>11 DEF Cfg!updateConfig, Cfg!onCapabilitiesCb, Cfg!caps
    <2> HIDE DEF cfg
    <2>6. /\ \A i \in Cfg!Item : i \notin DOMAIN cfg => o[i] = conf[i]
          /\ \A i \in DOMAIN cfg : Kept(i) => o[i] = Cfg!ToConf(i, cfg[i])
      BY <2>3, <2>4, Stores
    <2>7. Storing(Head(msgQ), conf, o)
      BY <2>2, <2>6 DEF Storing, Updating, cfg
    <2>8. /\ ItemsEnd(msgQ, conf, wanted) => ItemsEnd(Tail(msgQ), o, wanted)
          /\ NoAsk(Tail(msgQ)) => NoAsk(msgQ)
          /\ ~Reads(Tail(msgQ))
      BY <1>1, <2>2, <2>7, ItemsTaken
    <2>9. hasApi
      <3>1. Len(msgQ) \in Nat \ {0} /\ Head(msgQ) = msgQ[1]
        BY <1>1, <2>2, Taken
      <3> QED
        BY <1>1, <2>2, <3>1 DEF WantedInv, NoUpdate
    <2>10. ASSUME NoAsk(msgQ), ModesTold
           PROVE  /\ ~stale' => cached' = {o["SUPL_MODE"]}
                  /\ ~stale' /\ passing' = {} => toldModes' = {o["SUPL_MODE"]}
      <3>1. /\ ~stale => cached = {conf["SUPL_MODE"]}
            /\ ~stale /\ passing = {} => toldModes = {conf["SUPL_MODE"]}
        BY <2>10 DEF ModesTold
      <3>2. CASE "SUPL_MODE" \in DOMAIN cfg
        <4>1. o["SUPL_MODE"] = cfg["SUPL_MODE"]
          BY <2>6, <3>2, Items DEF Cfg!ToConf
        <4> QED
          BY <2>5, <3>1, <3>2, <4>1 DEF Cfg!Broadcast
      <3>3. CASE "SUPL_MODE" \notin DOMAIN cfg
        BY <1>1, <2>5, <2>6, <3>1, <3>3 DEF Cfg!Broadcast
      <3> QED
        BY <3>2, <3>3
    <2> QED
      BY <2>1, <2>2, <2>4, <2>8, <2>9, <2>10 DEF WantedInv, ModesTold
  <1>12. CASE Cfg!requestCapabilities
    <2>1. /\ Cfg!Handle("capabilities") /\ UNCHANGED <<config, conf>>
          /\ cached' = {conf["SUPL_MODE"]} /\ toldModes' = {conf["SUPL_MODE"]}
      BY <1>12 DEF Cfg!requestCapabilities, Cfg!onCapabilitiesCb, Cfg!client, Cfg!adapter
    <2>2. /\ msgQ # <<>> /\ Head(msgQ).kind = "capabilities" /\ msgQ' = Tail(msgQ)
          /\ UNCHANGED <<pending, hasApi, wanted>>
      BY <2>1, Handled
    <2>3. Storing(Head(msgQ), conf, conf)
      BY <2>2 DEF Storing, Updating
    <2>4. /\ ItemsEnd(msgQ, conf, wanted) => ItemsEnd(Tail(msgQ), conf, wanted)
          /\ NoUpdate(msgQ) => NoUpdate(Tail(msgQ))
          /\ ~Reads(Tail(msgQ))
      BY <1>1, <2>2, <2>3, ItemsTaken
    <2> QED
      BY <2>1, <2>2, <2>4 DEF WantedInv, AllPending, ModesTold
  <1>13. CASE Cfg!enable
    <2>1. Cfg!Handle("enable") /\ UNCHANGED <<config, conf, cached, toldModes, passing, stale>>
      BY <1>13 DEF Cfg!enable, Cfg!Respond, Cfg!caps
    <2> QED
      BY <1>3, <2>1
  <1>14. CASE Cfg!disable
    <2>1. Cfg!Handle("disable") /\ UNCHANGED <<config, conf, cached, toldModes, passing, stale>>
      BY <1>14 DEF Cfg!disable, Cfg!Respond, Cfg!caps
    <2> QED
      BY <1>3, <2>1
  <1>15. CASE Cfg!deleteAiding
    <2>1. Cfg!Handle("delete") /\ UNCHANGED <<config, conf, cached, toldModes, passing, stale>>
      BY <1>15 DEF Cfg!deleteAiding, Cfg!Respond, Cfg!caps, Cfg!adapter
    <2> QED
      BY <1>3, <2>1
  <1>16. CASE UNCHANGED configVars
    BY <1>16 DEF configVars, WantedInv, AllPending, ModesTold
  <1>17. CASE Cfg!passCapabilities
    <2>1. /\ UNCHANGED <<pending, hasApi, config, msgQ, conf, wanted>>
          /\ cached' = passing /\ toldModes' = passing /\ passing' = {}
          /\ stale' = (stale \/ passing # cached)
      BY <1>17 DEF Cfg!passCapabilities, Cfg!client, Cfg!adapter
    <2>2. ModesTold => ModesTold'
      BY <2>1 DEF ModesTold
    <2> QED
      BY <2>1, <2>2 DEF WantedInv, AllPending
  <1> QED
    BY <1>4, <1>5, <1>6, <1>7, <1>8, <1>9, <1>10, <1>11, <1>12, <1>13, <1>14, <1>15, <1>16, <1>17 DEF Cfg!Next

\* Before anything was called the adapter is about to read gps.conf.
LEMMA ConfigInit == Cfg!Init => ConfigInv
  <1> SUFFICES ASSUME Cfg!Init
               PROVE  ConfigInv
    OBVIOUS
  <1> DEFINE read == [kind |-> "readConfig"]
             set == [kind |-> "setConfig"]
  <1>1. /\ msgQ = <<read, set>> /\ read \in Msg /\ set \in Msg
        /\ ~HasId(read) /\ ~HasId(set)
    BY DEF Cfg!Init, Msg, HasId, IsPower
  <1>2. /\ msgQ \in Seq(Msg) /\ Len(msgQ) = 2 /\ msgQ[1] = read /\ msgQ[2] = set
        /\ \A k \in 1 .. 2 : k = 1 \/ k = 2
    BY <1>1
  <1>3. /\ pending = NoItem /\ config = NoItem /\ hasApi = FALSE /\ enabled = FALSE /\ ids = 1 /\ vote = 0
        /\ configQ = 0 /\ conf = [i \in Cfg!Item |-> 0] /\ modem = [i \in Cfg!Item |-> Cfg!Unset]
        /\ wrong = FALSE /\ wanted = [i \in Cfg!Item |-> Cfg!Unset]
    BY DEF Cfg!Init, NoItem
  <1>4. PICK c : c = [session |-> 0, requests |-> <<>>]
    OBVIOUS
  <1>5. control = c /\ deletion = c /\ c \in Control /\ c \in Deletion /\ c.session = 0 /\ c.requests = <<>>
    BY <1>4 DEF Cfg!Init, Control, Deletion
  <1>6. /\ \A k \in 1 .. Len(msgQ) : ~HasId(msgQ[k]) /\ ~IsPower(msgQ[k])
        /\ \A k \in 1 .. Len(msgQ) : msgQ[k].kind \notin {"update", "delete", "enable", "disable"}
        /\ \A k \in 1 .. Len(msgQ) : msgQ[k].kind = "readConfig" => k = 1
        /\ msgQ[2].kind = "setConfig"
    BY <1>1, <1>2 DEF HasId
  <1> HIDE DEF read, set
  <1>7. ConfigTypes
    BY <1>2, <1>3, <1>5, ConfNone DEF ConfigTypes
  <1>8. PowerInv
    <2>1. Votes(msgQ, 0, 0)
      <3> DEFINE votes == [k \in 0 .. Len(msgQ) |-> 0]
      <3>1. /\ votes \in [0 .. Len(msgQ) -> Nat] /\ votes[0] = 0 /\ votes[Len(msgQ)] = 0
            /\ \A k \in 1 .. Len(msgQ) : Turn(msgQ[k], votes[k - 1], votes[k])
        BY <1>2, <1>6 DEF Turn
      <3> QED
        BY <3>1 DEF Votes
    <2>2. Apart(msgQ, 1)
      BY <1>6 DEF Apart
    <2>3. Requests(msgQ, c, c)
      BY <1>5, <1>6 DEF Requests, Queued
    <2> QED
      BY <1>3, <1>5, <2>1, <2>2, <2>3 DEF PowerInv, PowerOn
  <1>9. CountInv
    <2>1. Updates(msgQ) = {}
      BY <1>6 DEF Updates
    <2> QED
      BY <1>3, <2>1, FS_EmptySet DEF CountInv
  <1>10. EngineInv
    <2>1. Early(msgQ) /\ ~NoSet(msgQ)
      BY <1>2, <1>6 DEF Early, NoSet
    <2>2. modem["GPS_LOCK"] = Cfg!Unset
      BY <1>3, Items
    <2> QED
      BY <2>1, <2>2 DEF EngineInv
  <1>11. WantedInv
    <2>1. NoUpdate(msgQ) /\ DOMAIN NoItem = {}
      BY <1>6 DEF NoUpdate, NoItem
    <2> QED
      BY <1>3, <2>1 DEF WantedInv, AllPending
  <1> QED
    BY <1>7, <1>8, <1>9, <1>10, <1>11 DEF ConfigInv

\* Every step of the framework, the engine and the adapter keeps the invariant.
LEMMA ConfigStep ==
  ASSUME ConfigInv, [Cfg!Next]_configVars
  PROVE  ConfigInv'
  <1>1. ~hasApi => config = NoItem
    BY DEF ConfigInv, WantedInv
  <1>2. Early(msgQ)
    BY DEF ConfigInv, EngineInv
  <1> QED
    BY <1>1, <1>2, TypesStep, PowerStep, CountStep, EngineStep, WantedStep DEF ConfigInv

\* It is an invariant of the services.
LEMMA ConfigInvariant == MCSpec => []ConfigInv
  <1>1. MCInit => ConfigInv
    BY ConfigInit DEF MCInit
  <1>2. ConfigInv /\ [MCNext]_mcvars => ConfigInv'
    BY PartSteps, ConfigStep
  <1> QED
    BY <1>1, <1>2, PTL DEF MCSpec

\* Whatever the order of the framework's calls and of the messages, a response reaches the
\* request of its command, each configuration request has its message, and when no enable or
\* disable waits the vote is the client's (LocationAPIClientBase.cpp 42-222, GnssAdapter.cpp
\* 1940-2028).
THEOREM ControlAgreed == MCSpec => []ControlAgrees
  <1>1. ConfigInv => ControlAgrees
    <2> SUFFICES ASSUME ConfigInv
                 PROVE  Cfg!ControlAgrees
      BY DEF ControlAgrees
    <2>1. /\ msgQ \in Seq(Msg) /\ DOMAIN msgQ = 1 .. Len(msgQ) /\ control \in Control
          /\ enabled \in BOOLEAN
      BY DEF ConfigInv, ConfigTypes
    <2>2. configQ = Cfg!Cardinality(Cfg!Waiting("update"))
      <3>1. Cfg!Waiting("update") = Updates(msgQ)
        BY <2>1 DEF Cfg!Waiting, Updates
      <3> QED
        BY <3>1, SameCardinality DEF ConfigInv, CountInv
    <2>3. ASSUME Cfg!Waiting("enable") \union Cfg!Waiting("disable") = {}
          PROVE  (enabled <=> vote > 0) /\ (enabled => vote = control.session)
      <3>1. \A k \in 1 .. Len(msgQ) : ~IsPower(msgQ[k])
        BY <2>1, <2>3 DEF Cfg!Waiting, IsPower
      <3>2. PICK w : w = IF enabled THEN control.session ELSE 0
        OBVIOUS
      <3>3. Votes(msgQ, vote, w) /\ (enabled => control.session > 0)
        BY <3>2 DEF ConfigInv, PowerInv, PowerOn
      <3>4. vote = w
        BY <2>1, <3>1, <3>3, VotesOver
      <3> QED
        BY <2>1, <3>2, <3>3, <3>4
    <2> QED
      BY <2>2, <2>3 DEF Cfg!ControlAgrees, ConfigInv, PowerInv
  <1> QED
    BY <1>1, ConfigInvariant, PTL

\* When no configuration waits the engine has the stored value of every item it gets, or has
\* refused it last, and is unlocked exactly while a vote is held, also when the lock was set
\* or the engine restarted in between (GnssAdapter.cpp 624-923 and 1940-2028).
THEOREM EngineFollows == MCSpec => []EngineFollowsConfig
  <1>1. ConfigInv => EngineFollowsConfig
    <2> SUFFICES ASSUME ConfigInv
                 PROVE  Cfg!EngineFollowsConfig
      BY DEF EngineFollowsConfig
    <2>1. msgQ \in Seq(Msg) /\ DOMAIN msgQ = 1 .. Len(msgQ)
      BY DEF ConfigInv, ConfigTypes
    <2>2. Cfg!Waiting("setConfig") = {} => NoSet(msgQ)
      BY <2>1 DEF Cfg!Waiting, NoSet
    <2> QED
      BY <2>2 DEF ConfigInv, EngineInv, Cfg!EngineFollowsConfig
  <1> QED
    BY <1>1, ConfigInvariant, PTL

\* What the framework asked for last, before its callback or after, is what is stored once
\* the messages are handled, and its callback was told the mode unless setCallback passed on an
\* older mask behind the report (Gnss.cpp 62-203, GnssAPIClient.cpp 278-291, GnssAdapter.cpp
\* 700-923).
THEOREM WantedConfigured == MCSpec => []WantedIsConfigured
  <1>1. ConfigInv => WantedIsConfigured
    <2> SUFFICES ASSUME ConfigInv, hasApi, msgQ = <<>>
                 PROVE  /\ \A i \in Cfg!Item \ {"SERVER"} :
                             wanted[i] # Cfg!Unset /\ (i \in Cfg!Injected => INJECT) =>
                               conf[i] = Cfg!ToConf(i, wanted[i])
                        /\ passing = {} /\ ~stale => toldModes = {conf["SUPL_MODE"]}
      BY DEF WantedIsConfigured, Cfg!WantedIsConfigured
    <2>1. 1 .. Len(msgQ) = {}
      OBVIOUS
    <2>2. ASSUME NEW i \in Cfg!Item \ {"SERVER"}, wanted[i] # Cfg!Unset, i \in Cfg!Injected => INJECT
          PROVE  conf[i] = Cfg!ToConf(i, wanted[i])
      <3>1. Ends(msgQ, i, conf[i], wanted[i])
        BY <2>2 DEF ConfigInv, WantedInv, ItemsEnd, Kept
      <3> QED
        BY <2>1, <3>1 DEF Ends
    <2>3. NoAsk(msgQ)
      BY <2>1 DEF NoAsk
    <2> QED
      BY <2>2, <2>3 DEF ConfigInv, WantedInv, ModesTold
  <1> QED
    BY <1>1, ConfigInvariant, PTL

===============================================================================
