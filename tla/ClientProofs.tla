---------------------------- MODULE ClientProofs -----------------------------
(***************************************************************************)
(* Theorems about the clients of LocationAPI, as MCServices puts them next *)
(* to the other services: the instances Geo and Ses, for any ids and any   *)
(* bounds on the calls.                                                    *)
(***************************************************************************)
EXTENDS ServicesProofs

-----------------------------------------------------------------------------
(* The geofences.  A session the interface watches, or will, or has just      *)
(* refused, is the current one of an id the framework knows, as long as the   *)
(* dictionary has it; and it has it until a removal is on its way.  Requests  *)
(* wait in the order of the commands, each with the ids its command named.    *)

\* A value is a sequence.
IsSeq(q) == q \in Seq({q[k] : k \in 1 .. Len(q)})

\* What a command says of its sessions agrees with a dictionary.
AskedFrom(asked, d, next) ==
  \A s \in DOMAIN asked :
    s \in 1 .. next - 1 /\ asked[s] \in FenceIds /\ (s \in DOMAIN d.bwd => d.bwd[s] = asked[s])

\* The request that waits for the answer to a command
FenceRequest(request, cmd) ==
  request.kind = cmd.kind /\ (cmd.kind = "remove" => request.removed.bwd = cmd.asked)

FenceDict ==
  /\ DOMAIN geofences = {"fwd", "bwd", "ext"} /\ DOMAIN geofences.ext = DOMAIN geofences.bwd
  /\ DOMAIN geofences.fwd \subseteq FenceIds /\ known \subseteq DOMAIN geofences.fwd
  /\ \A i \in DOMAIN geofences.fwd :
       geofences.fwd[i] \in DOMAIN geofences.bwd /\ geofences.bwd[geofences.fwd[i]] = i
  /\ \A s \in DOMAIN geofences.bwd : s \in 1 .. nextFence - 1 /\ geofences.bwd[s] \in FenceIds

FenceOrder ==
  /\ IsSeq(geofenceQueue) /\ IsSeq(geofenceCommands)
  /\ Len(geofenceQueue) = Len(geofenceCommands)
  /\ geofenceCommands # <<>> => started
  /\ \A k \in 1 .. Len(geofenceCommands) :
       /\ FenceRequest(geofenceQueue[k], geofenceCommands[k])
       /\ AskedFrom(geofenceCommands[k].asked, geofences, nextFence)
  /\ collective # Geo!Idle =>
       FenceRequest(collective, collective.cmd) /\ AskedFrom(collective.cmd.asked, geofences, nextFence)

\* The session will be added by the command at k, or was not added; a removal of it waits.
Adding(s, k) ==
  /\ k \in 1 .. Len(geofenceCommands) /\ geofenceCommands[k].kind = "add"
  /\ s \in DOMAIN geofenceCommands[k].asked
NotAdded(s) == collective # Geo!Idle /\ collective.kind = "add" /\ s \in collective.failed
Removing(s, k) ==
  /\ k \in 1 .. Len(geofenceCommands) /\ geofenceCommands[k].kind = "remove"
  /\ s \in DOMAIN geofenceCommands[k].asked

Live(s) == s \in DOMAIN monitored \/ NotAdded(s) \/ \E k \in 1 .. Len(geofenceCommands) : Adding(s, k)

Current(s) ==
  s \in DOMAIN geofences.bwd =>
    /\ geofences.bwd[s] \in known /\ geofences.fwd[geofences.bwd[s]] = s

FenceSessions ==
  \A s \in 1 .. nextFence - 1 :
    /\ Live(s) => Current(s)
    /\ s \in DOMAIN monitored =>
         s \in DOMAIN geofences.bwd \/ \E k \in 1 .. Len(geofenceCommands) : Removing(s, k)
    /\ ~(s \in DOMAIN monitored /\ NotAdded(s))
    /\ \A k \in 1 .. Len(geofenceCommands) : Adding(s, k) =>
         /\ s \notin DOMAIN monitored /\ ~NotAdded(s)
         /\ \A j \in 1 .. Len(geofenceCommands) : Adding(s, j) => j = k
         /\ s \in DOMAIN geofences.bwd
              \/ \E j \in 1 .. Len(geofenceCommands) : j > k /\ Removing(s, j)

FencesInv ==
  /\ nextFence \in Nat \ {0}
  /\ DOMAIN monitored \subseteq 1 .. nextFence - 1
  /\ collective # Geo!Idle => collective.failed \subseteq 1 .. nextFence - 1
  /\ FenceDict /\ FenceOrder /\ FenceSessions

LEMMA OwnSeq ==
  ASSUME NEW S, NEW q \in Seq(S)
  PROVE  IsSeq(q)
  BY DEF IsSeq

LEMMA SeqGrown ==
  ASSUME NEW q, IsSeq(q), NEW x
  PROVE  /\ IsSeq(Append(q, x)) /\ Len(Append(q, x)) = Len(q) + 1 /\ Len(q) \in Nat
         /\ \A k \in 1 .. Len(q) : Append(q, x)[k] = q[k]
         /\ Append(q, x)[Len(q) + 1] = x
  <1> DEFINE S == {q[k] : k \in 1 .. Len(q)} \union {x}
  <1>1. q \in Seq(S) /\ x \in S
    BY DEF IsSeq
  <1> HIDE DEF S
  <1>2. /\ Append(q, x) \in Seq(S) /\ Len(Append(q, x)) = Len(q) + 1 /\ Len(q) \in Nat
        /\ \A k \in 1 .. Len(q) : Append(q, x)[k] = q[k]
        /\ Append(q, x)[Len(q) + 1] = x
    BY <1>1
  <1> QED
    BY <1>2, OwnSeq

LEMMA SeqShrunk ==
  ASSUME NEW q, IsSeq(q), q # <<>>
  PROVE  /\ IsSeq(Tail(q)) /\ Len(Tail(q)) = Len(q) - 1 /\ Len(q) \in Nat /\ Len(q) >= 1
         /\ Head(q) = q[1] /\ \A k \in 1 .. Len(q) - 1 : Tail(q)[k] = q[k + 1]
  <1> DEFINE S == {q[k] : k \in 1 .. Len(q)}
  <1>1. q \in Seq(S)
    BY DEF IsSeq
  <1> HIDE DEF S
  <1>2. /\ Tail(q) \in Seq(S) /\ Len(Tail(q)) = Len(q) - 1 /\ Len(q) \in Nat /\ Len(q) >= 1
        /\ Head(q) = q[1] /\ \A k \in 1 .. Len(q) - 1 : Tail(q)[k] = q[k + 1]
    BY <1>1
  <1> QED
    BY <1>2, OwnSeq

\* The interface gives every id a session of its own.
LEMMA FenceNumbering ==
  ASSUME nextFence \in Nat \ {0}, NEW fences \in SUBSET FenceIds, NEW new, new = Geo!Numbering(fences)
  PROVE  /\ Cardinality(fences) \in Nat
         /\ new \in [nextFence .. nextFence + Cardinality(fences) - 1 -> fences]
         /\ \A i \in fences : \E s \in DOMAIN new : new[s] = i
         /\ \A s, t \in DOMAIN new : new[s] = new[t] => s = t
  <1>1. IsFiniteSet(fences) /\ Cardinality(fences) \in Nat
    BY ServicesAssumption, FS_Subset, FS_CardinalityType DEF ServicesAssumption
  <1> DEFINE n == Cardinality(fences)
             D == nextFence .. nextFence + n - 1
  <1>2. IsFiniteSet(D) /\ Cardinality(D) = n
    <2>1. nextFence \in Int /\ nextFence + n - 1 \in Int
      BY <1>1
    <2>2. /\ IsFiniteSet(D)
          /\ Cardinality(D) = IF nextFence > nextFence + n - 1 THEN 0 ELSE (nextFence + n - 1) - nextFence + 1
      BY <2>1, FS_Interval
    <2> QED
      BY <1>1, <2>2
  <1> HIDE DEF D
  <1>3. ExistsBijection(D, fences)
    BY <1>1, <1>2, FS_SameCardinalityBij DEF n
  <1>4. PICK f \in Bijection(D, fences) : TRUE
    BY <1>3 DEF ExistsBijection
  <1>5. f \in [D -> fences] /\ \A i \in fences : \E s \in DOMAIN f : f[s] = i
    BY <1>4 DEF Bijection, Surjection
  <1>6. new = CHOOSE g \in [D -> fences] : \A i \in fences : \E s \in DOMAIN g : g[s] = i
    BY DEF Geo!Numbering, D, n, Cardinality, Geo!Cardinality
  <1>7. new \in [D -> fences] /\ \A i \in fences : \E s \in DOMAIN new : new[s] = i
    BY <1>5, <1>6
  <1>8. new \in Surjection(D, fences)
    BY <1>7 DEF Surjection
  <1>9. new \in Injection(D, fences)
    BY <1>1, <1>2, <1>8, FS_SurjSameCardinalityImpliesInj DEF n
  <1> QED
    BY <1>1, <1>7, <1>9 DEF Injection, IsInjective, D, n

\* The sessions of some ids are those of the ids that have one.
LEMMA FenceSessionsOf ==
  ASSUME FencesInv, NEW fences
  PROVE  /\ \A s : s \in Geo!SessionsOf(fences) <=>
               \E i \in fences : i \in DOMAIN geofences.fwd /\ geofences.fwd[i] = s
         /\ Geo!SessionsOf(fences) \subseteq DOMAIN geofences.bwd
  <1>1. \A i : i \in DOMAIN geofences.fwd => Geo!GetSession(geofences, i) = geofences.fwd[i] /\ geofences.fwd[i] > 0
    BY DEF FencesInv, FenceDict, Geo!GetSession, Geo!HasId
  <1>2. \A i : i \notin DOMAIN geofences.fwd => Geo!GetSession(geofences, i) = 0
    BY DEF Geo!GetSession, Geo!HasId
  <1>3. \A s : s \in Geo!SessionsOf(fences) <=>
              \E i \in fences : i \in DOMAIN geofences.fwd /\ geofences.fwd[i] = s
    BY <1>1, <1>2 DEF Geo!SessionsOf
  <1> QED
    BY <1>3 DEF FencesInv, FenceDict

\* A command and its request are put behind the others.
LEMMA FenceAppended ==
  ASSUME FencesInv, NEW cmd, NEW request,
         geofenceCommands' = Append(geofenceCommands, cmd),
         geofenceQueue' = Append(geofenceQueue, request),
         collective' = collective, started', FenceRequest(request, cmd),
         AskedFrom(cmd.asked, geofences', nextFence'),
         \A asked : AskedFrom(asked, geofences, nextFence) => AskedFrom(asked, geofences', nextFence')
  PROVE  /\ FenceOrder'
         /\ Len(geofenceCommands) \in Nat /\ Len(geofenceCommands') = Len(geofenceCommands) + 1
         /\ \A s, k : Adding(s, k)' <=>
              \/ Adding(s, k)
              \/ k = Len(geofenceCommands) + 1 /\ cmd.kind = "add" /\ s \in DOMAIN cmd.asked
         /\ \A s, k : Removing(s, k)' <=>
              \/ Removing(s, k)
              \/ k = Len(geofenceCommands) + 1 /\ cmd.kind = "remove" /\ s \in DOMAIN cmd.asked
  <1> DEFINE n == Len(geofenceCommands)
  <1>1. /\ IsSeq(geofenceCommands') /\ Len(geofenceCommands') = n + 1 /\ n \in Nat
        /\ \A k \in 1 .. n : geofenceCommands'[k] = geofenceCommands[k]
        /\ geofenceCommands'[n + 1] = cmd
    BY SeqGrown DEF FencesInv, FenceOrder
  <1>2. /\ IsSeq(geofenceQueue') /\ Len(geofenceQueue') = n + 1
        /\ \A k \in 1 .. n : geofenceQueue'[k] = geofenceQueue[k]
        /\ geofenceQueue'[n + 1] = request
    BY SeqGrown DEF FencesInv, FenceOrder
  <1> HIDE DEF n
  <1>3. \A k \in 1 .. n : FenceRequest(geofenceQueue[k], geofenceCommands[k]) /\
          AskedFrom(geofenceCommands[k].asked, geofences, nextFence)
    BY DEF FencesInv, FenceOrder, n
  <1>4. \A k \in 1 .. n + 1 :
          FenceRequest(geofenceQueue'[k], geofenceCommands'[k]) /\
          AskedFrom(geofenceCommands'[k].asked, geofences', nextFence')
    <2>1. \A k \in 1 .. n + 1 : k \in 1 .. n \/ k = n + 1
      BY <1>1
    <2> QED
      BY <1>1, <1>2, <1>3, <2>1
  <1>5. collective' # Geo!Idle =>
          FenceRequest(collective', collective'.cmd) /\
          AskedFrom(collective'.cmd.asked, geofences', nextFence')
    BY DEF FencesInv, FenceOrder, Geo!Idle
  <1>6. FenceOrder'
    BY <1>1, <1>2, <1>4, <1>5 DEF FenceOrder, Geo!Idle, FenceRequest
  <1>7. \A k : k \in 1 .. n + 1 <=> k \in 1 .. n \/ k = n + 1
    BY <1>1
  <1>8. n + 1 \notin 1 .. n
    BY <1>1
  <1>9. \A s, k : Adding(s, k)' <=> Adding(s, k) \/ (k = n + 1 /\ cmd.kind = "add" /\ s \in DOMAIN cmd.asked)
    BY <1>1, <1>7, <1>8 DEF Adding, n
  <1>10. \A s, k : Removing(s, k)' <=> Removing(s, k) \/ (k = n + 1 /\ cmd.kind = "remove" /\ s \in DOMAIN cmd.asked)
    BY <1>1, <1>7, <1>8 DEF Removing, n
  <1> QED
    BY <1>1, <1>6, <1>9, <1>10 DEF n

\* Geofences are added: the sessions are new.
LEMMA FenceAdded ==
  ASSUME FencesInv, NEW fences \in SUBSET FenceIds, NEW mask, Geo!locAPIAddGeofences(fences, mask)
  PROVE  FencesInv'
  <1> DEFINE N == Cardinality(fences)
             n == Len(geofenceCommands)
  <1>1. PICK new : new = Geo!Numbering(fences)
    OBVIOUS
  <1>2. PICK cmd : cmd = Geo!Command("add", new, mask)
    OBVIOUS
  <1>3. PICK request : request = [kind |-> "add", removed |-> Geo!EmptyDict]
    OBVIOUS
  <1>4. /\ fences \intersect known = {} /\ started' = TRUE
        /\ geofenceQueue' = Append(geofenceQueue, request)
        /\ geofences' = Geo!Added(new, mask)
        /\ geofenceCommands' = Append(geofenceCommands, cmd)
        /\ nextFence' = nextFence + N
        /\ known' = known \union fences
        /\ UNCHANGED <<monitored, collective>>
    BY <1>1, <1>2, <1>3 DEF Geo!locAPIAddGeofences, Cardinality, Geo!Cardinality
  <1>5. /\ N \in Nat /\ new \in [nextFence .. nextFence + N - 1 -> fences]
        /\ \A i \in fences : \E s \in DOMAIN new : new[s] = i
        /\ \A s, t \in DOMAIN new : new[s] = new[t] => s = t
    BY <1>1, FenceNumbering DEF FencesInv
  <1> HIDE DEF N, n
  <1>6. /\ DOMAIN new = nextFence .. nextFence + N - 1 /\ \A s \in DOMAIN new : new[s] \in fences
        /\ nextFence \in Nat /\ nextFence >= 1 /\ nextFence' \in Nat \ {0}
        /\ \A s \in 1 .. nextFence - 1 : s \notin DOMAIN new /\ s \in 1 .. nextFence' - 1
        /\ \A s \in 1 .. nextFence' - 1 : s \in 1 .. nextFence - 1 \/ s \in DOMAIN new
        /\ \A s \in DOMAIN new : s \in 1 .. nextFence' - 1 /\ s \notin 1 .. nextFence - 1
    BY <1>4, <1>5 DEF FencesInv
  <1>7. \A i \in fences : (CHOOSE s \in DOMAIN new : new[s] = i) \in DOMAIN new
                         /\ new[CHOOSE s \in DOMAIN new : new[s] = i] = i
    BY <1>5
  <1>8. {new[s] : s \in DOMAIN new} = fences
    BY <1>5, <1>6
  <1>9. PICK d : d = geofences'
    OBVIOUS
  <1>10. /\ DOMAIN d = {"fwd", "bwd", "ext"}
         /\ d.fwd = [i \in DOMAIN geofences.fwd \union fences |->
                       IF i \in fences THEN CHOOSE s \in DOMAIN new : new[s] = i ELSE geofences.fwd[i]]
         /\ d.bwd = [s \in DOMAIN new \union DOMAIN geofences.bwd |->
                       IF s \in DOMAIN new THEN new[s] ELSE geofences.bwd[s]]
         /\ DOMAIN d.ext = DOMAIN new \union DOMAIN geofences.ext
    <2>1. d = [fwd |-> [i \in DOMAIN geofences.fwd \union {new[s] : s \in DOMAIN new} |->
                         IF i \in {new[s] : s \in DOMAIN new}
                         THEN CHOOSE s \in DOMAIN new : new[s] = i ELSE geofences.fwd[i]],
               bwd |-> [s \in DOMAIN new \union DOMAIN geofences.bwd |->
                         IF s \in DOMAIN new THEN new[s] ELSE geofences.bwd[s]],
               ext |-> [s \in DOMAIN new \union DOMAIN geofences.ext |->
                         IF s \in DOMAIN new THEN mask ELSE geofences.ext[s]]]
      BY <1>4, <1>9 DEF Geo!Added
    <2> QED
      BY <1>8, <2>1
  <1>11. /\ DOMAIN d.fwd = DOMAIN geofences.fwd \union fences
         /\ \A i \in fences : d.fwd[i] \in DOMAIN new /\ new[d.fwd[i]] = i
         /\ \A i \in DOMAIN geofences.fwd \ fences : d.fwd[i] = geofences.fwd[i]
         /\ DOMAIN d.bwd = DOMAIN new \union DOMAIN geofences.bwd /\ DOMAIN d.ext = DOMAIN d.bwd
         /\ \A s \in DOMAIN new : d.bwd[s] = new[s]
         /\ \A s \in DOMAIN geofences.bwd : s \notin DOMAIN new => d.bwd[s] = geofences.bwd[s]
    BY <1>7, <1>10 DEF FencesInv, FenceDict
  <1>12. \A s \in DOMAIN geofences.bwd : s \in 1 .. nextFence - 1 /\ geofences.bwd[s] \in FenceIds
    BY DEF FencesInv, FenceDict
  <1>13. FenceDict'
    <2>1. /\ DOMAIN d.fwd \subseteq FenceIds /\ known' \subseteq DOMAIN d.fwd
      BY <1>4, <1>11 DEF FencesInv, FenceDict
    <2>2. \A i \in DOMAIN d.fwd : d.fwd[i] \in DOMAIN d.bwd /\ d.bwd[d.fwd[i]] = i
      <3>1. \A i \in DOMAIN geofences.fwd \ fences :
              /\ geofences.fwd[i] \in DOMAIN geofences.bwd /\ geofences.fwd[i] \notin DOMAIN new
              /\ geofences.bwd[geofences.fwd[i]] = i
        BY <1>6, <1>12 DEF FencesInv, FenceDict
      <3> QED
        BY <1>11, <3>1
    <2>3. \A s \in DOMAIN d.bwd : s \in 1 .. nextFence' - 1 /\ d.bwd[s] \in FenceIds
      <3>1. \A s \in DOMAIN d.bwd : s \in DOMAIN new \/ (s \in DOMAIN geofences.bwd /\ s \notin DOMAIN new)
        BY <1>11
      <3> QED
        BY <1>6, <1>11, <1>12, <3>1
    <2> QED
      BY <1>9, <1>10, <1>11, <2>1, <2>2, <2>3 DEF FenceDict
  <1>14. \A asked : AskedFrom(asked, geofences, nextFence) => AskedFrom(asked, geofences', nextFence')
    <2>1. nextFence <= nextFence'
      BY <1>4, <1>5, <1>6
    <2>2. \A s \in 1 .. nextFence - 1 :
            s \in DOMAIN d.bwd => s \in DOMAIN geofences.bwd /\ d.bwd[s] = geofences.bwd[s]
      BY <1>6, <1>11
    <2>3. PICK next : next = nextFence'
      OBVIOUS
    <2>4. \A asked : AskedFrom(asked, geofences, nextFence) => AskedFrom(asked, d, next)
      BY <1>6, <2>1, <2>2, <2>3 DEF AskedFrom
    <2> QED
      BY <1>9, <2>3, <2>4
  <1>15. cmd.kind = "add" /\ cmd.asked = new /\ request.kind = "add"
    BY <1>2, <1>3 DEF Geo!Command
  <1>16. AskedFrom(cmd.asked, geofences', nextFence') /\ FenceRequest(request, cmd)
    BY <1>6, <1>9, <1>11, <1>15 DEF AskedFrom, FenceRequest
  <1>17. /\ FenceOrder' /\ n \in Nat
         /\ \A s, k : Adding(s, k)' <=> Adding(s, k) \/ (k = n + 1 /\ s \in DOMAIN new)
         /\ \A s, k : Removing(s, k)' <=> Removing(s, k)
         /\ Len(geofenceCommands') = n + 1
    BY <1>4, <1>14, <1>15, <1>16, FenceAppended DEF n
  <1>18. \A s, k : Adding(s, k) => k \in 1 .. n /\ s \in 1 .. nextFence - 1
    BY DEF FencesInv, FenceOrder, Adding, AskedFrom, n
  <1>19. \A s : NotAdded(s)' <=> NotAdded(s)
    BY <1>4 DEF NotAdded, Geo!Idle
  <1>20. \A s \in 1 .. nextFence - 1 : Current(s) => Current(s)'
    <2> SUFFICES ASSUME NEW s \in 1 .. nextFence - 1, Current(s), s \in DOMAIN d.bwd
                 PROVE  d.bwd[s] \in known' /\ d.fwd[d.bwd[s]] = s
      BY <1>9 DEF Current
    <2>1. s \in DOMAIN geofences.bwd /\ d.bwd[s] = geofences.bwd[s]
      BY <1>6, <1>11
    <2>2. geofences.bwd[s] \in known /\ geofences.fwd[geofences.bwd[s]] = s
      BY <2>1 DEF Current
    <2>3. geofences.bwd[s] \in DOMAIN geofences.fwd \ fences
      BY <1>4, <2>2 DEF FencesInv, FenceDict
    <2> QED
      BY <1>4, <1>11, <2>1, <2>2, <2>3
  <1>21. FenceSessions'
    <2> SUFFICES ASSUME NEW s \in 1 .. nextFence' - 1
                 PROVE  /\ Live(s)' => Current(s)'
                        /\ s \in DOMAIN monitored' =>
                             s \in DOMAIN geofences'.bwd \/ \E k \in 1 .. Len(geofenceCommands') : Removing(s, k)'
                        /\ ~(s \in DOMAIN monitored' /\ NotAdded(s)')
                        /\ \A k \in 1 .. Len(geofenceCommands') : Adding(s, k)' =>
                             /\ s \notin DOMAIN monitored' /\ ~NotAdded(s)'
                             /\ \A j \in 1 .. Len(geofenceCommands') : Adding(s, j)' => j = k
                             /\ s \in DOMAIN geofences'.bwd
                                  \/ \E j \in 1 .. Len(geofenceCommands') : j > k /\ Removing(s, j)'
      BY DEF FenceSessions
    <2>1. CASE s \in 1 .. nextFence - 1
      <3>1. \A k : Adding(s, k)' <=> Adding(s, k)
        BY <1>6, <1>17, <2>1
      <3>2. /\ Live(s)' => Live(s)
            /\ s \in DOMAIN geofences'.bwd <=> s \in DOMAIN geofences.bwd
        BY <1>4, <1>6, <1>9, <1>11, <1>17, <1>18, <1>19, <2>1, <3>1 DEF Live, n
      <3>3. \A k \in 1 .. n : k \in 1 .. n + 1
        BY <1>17
      <3> QED
        BY <1>4, <1>17, <1>18, <1>19, <1>20, <2>1, <3>1, <3>2, <3>3 DEF FencesInv, FenceSessions, n
    <2>2. CASE s \in DOMAIN new
      <3>1. s \notin DOMAIN monitored' /\ ~NotAdded(s)'
        BY <1>4, <1>6, <1>19, <2>2 DEF FencesInv, NotAdded
      <3>2. \A k : Adding(s, k)' <=> k = n + 1
        BY <1>6, <1>17, <1>18, <2>2
      <3>3. s \in DOMAIN geofences'.bwd
        BY <1>9, <1>11, <2>2
      <3>4. Current(s)'
        <4>1. d.bwd[s] = new[s] /\ new[s] \in fences
          BY <1>6, <1>11, <2>2
        <4>2. d.fwd[new[s]] = s
          BY <1>5, <1>11, <2>2, <4>1
        <4> QED
          BY <1>4, <1>9, <4>1, <4>2 DEF Current
      <3> QED
        BY <3>1, <3>2, <3>3, <3>4
    <2> QED
      BY <1>6, <2>1, <2>2
  <1>22. /\ DOMAIN monitored' \subseteq 1 .. nextFence' - 1
         /\ collective' # Geo!Idle => collective'.failed \subseteq 1 .. nextFence' - 1
    BY <1>4, <1>6 DEF FencesInv
  <1> QED
    BY <1>6, <1>13, <1>17, <1>21, <1>22 DEF FencesInv, Geo!Idle

\* A command for geofences that stay is put behind the others.
LEMMA FenceRequested ==
  ASSUME FencesInv, NEW kind, kind \notin {"add", "remove"}, NEW fences, NEW mask,
         Geo!Request(kind, fences, mask),
         \/ geofences' = geofences
         \/ geofences' = Geo!Remasked(fences, mask)
  PROVE  FencesInv'
  <1> DEFINE n == Len(geofenceCommands)
  <1>1. PICK cmd : cmd = Geo!Command(kind, Geo!Asked(Geo!SessionsOf(fences)), mask)
    OBVIOUS
  <1>2. PICK request : request = [kind |-> kind, removed |-> Geo!EmptyDict]
    OBVIOUS
  <1>3. /\ started' = TRUE /\ geofenceQueue' = Append(geofenceQueue, request)
        /\ geofenceCommands' = Append(geofenceCommands, cmd)
        /\ UNCHANGED <<monitored, collective, nextFence, known>>
    BY <1>1, <1>2 DEF Geo!Request
  <1>4. PICK d : d = geofences'
    OBVIOUS
  <1>5. /\ DOMAIN d = {"fwd", "bwd", "ext"} /\ d.fwd = geofences.fwd /\ d.bwd = geofences.bwd
        /\ DOMAIN d.ext = DOMAIN geofences.ext
    <2>1. CASE d = geofences
      BY <2>1 DEF FencesInv, FenceDict
    <2>2. CASE d = Geo!Remasked(fences, mask)
      <3>1. d = [geofences EXCEPT !.ext = [s \in DOMAIN geofences.ext |->
                   IF s \in Geo!SessionsOf(fences) THEN mask ELSE geofences.ext[s]]]
        BY <2>2 DEF Geo!Remasked
      <3> QED
        BY <3>1 DEF FencesInv, FenceDict
    <2> QED
      BY <1>4, <2>1, <2>2
  <1>6. /\ cmd.kind = kind /\ request.kind = kind
        /\ cmd.asked = [s \in Geo!SessionsOf(fences) |-> geofences.bwd[s]]
    BY <1>1, <1>2 DEF Geo!Command, Geo!Asked
  <1>7. \A asked : AskedFrom(asked, geofences, nextFence) => AskedFrom(asked, geofences', nextFence')
    BY <1>3, <1>4, <1>5 DEF AskedFrom
  <1>8. AskedFrom(cmd.asked, geofences', nextFence')
    <2>1. AskedFrom(cmd.asked, geofences, nextFence)
      BY <1>6, FenceSessionsOf DEF FencesInv, FenceDict, AskedFrom
    <2> QED
      BY <1>7, <2>1
  <1>9. FenceRequest(request, cmd)
    BY <1>6 DEF FenceRequest
  <1>10. /\ FenceOrder' /\ n \in Nat
         /\ \A s, k : Adding(s, k)' <=> Adding(s, k)
         /\ \A s, k : Removing(s, k)' <=> Removing(s, k)
         /\ Len(geofenceCommands') = n + 1
    BY <1>3, <1>6, <1>7, <1>8, <1>9, FenceAppended DEF n
  <1>11. FenceDict'
    BY <1>3, <1>4, <1>5 DEF FencesInv, FenceDict
  <1>12. /\ \A s : NotAdded(s)' <=> NotAdded(s)
         /\ \A s : Current(s)' <=> Current(s)
         /\ DOMAIN geofences'.bwd = DOMAIN geofences.bwd
    BY <1>3, <1>4, <1>5 DEF NotAdded, Current, Geo!Idle
  <1>13. \A s, k : (Adding(s, k) => k \in 1 .. n) /\ (Removing(s, k) => k \in 1 .. n)
    BY DEF Adding, Removing, n
  <1> HIDE DEF n
  <1>14. \A k \in 1 .. n : k \in 1 .. n + 1
    BY <1>10
  <1>15. \A s : Live(s)' <=> Live(s)
    BY <1>3, <1>10, <1>12, <1>13, <1>14 DEF Live, n
  <1>16. FenceSessions'
    BY <1>3, <1>10, <1>12, <1>13, <1>14, <1>15 DEF FencesInv, FenceSessions, n
  <1> QED
    BY <1>3, <1>10, <1>11, <1>16 DEF FencesInv, Geo!Idle

\* The ids that are removed leave the dictionary with their sessions.
LEMMA FenceRemoved ==
  ASSUME FencesInv, NEW fences \in SUBSET FenceIds, Geo!locAPIRemoveGeofences(fences)
  PROVE  FencesInv'
  <1> DEFINE n == Len(geofenceCommands)
  <1>1. PICK gone : gone = Geo!SessionsOf(fences)
    OBVIOUS
  <1>2. PICK cmd : cmd = Geo!Command("remove", Geo!Asked(gone), {})
    OBVIOUS
  <1>3. PICK request : request = [kind |-> "remove", removed |-> Geo!Removed(fences).removed]
    OBVIOUS
  <1>4. PICK d : d = Geo!Removed(fences).kept
    OBVIOUS
  <1>5. /\ started' /\ geofenceQueue' = Append(geofenceQueue, request)
        /\ geofenceCommands' = Append(geofenceCommands, cmd)
        /\ geofences' = d /\ known' = known \ fences
        /\ UNCHANGED <<monitored, collective, nextFence>>
    BY <1>1, <1>2, <1>3, <1>4 DEF Geo!locAPIRemoveGeofences
  <1>6. /\ \A s : s \in gone <=> \E i \in fences : i \in DOMAIN geofences.fwd /\ geofences.fwd[i] = s
        /\ gone \subseteq DOMAIN geofences.bwd
    BY <1>1, FenceSessionsOf
  <1>7. /\ DOMAIN d = {"fwd", "bwd", "ext"}
        /\ DOMAIN d.fwd = DOMAIN geofences.fwd \ {geofences.bwd[s] : s \in gone}
        /\ \A i \in DOMAIN d.fwd : d.fwd[i] = geofences.fwd[i]
        /\ DOMAIN d.bwd = DOMAIN geofences.bwd \ gone
        /\ \A s \in DOMAIN d.bwd : d.bwd[s] = geofences.bwd[s]
        /\ DOMAIN d.ext = DOMAIN geofences.ext \ gone
    BY <1>1, <1>4 DEF Geo!Removed
  <1>8. {geofences.bwd[s] : s \in gone} = fences \intersect DOMAIN geofences.fwd
    BY <1>6 DEF FencesInv, FenceDict
  <1>9. FenceDict'
    <2>1. \A i \in DOMAIN d.fwd : d.fwd[i] \in DOMAIN d.bwd /\ d.bwd[d.fwd[i]] = i
      <3> SUFFICES ASSUME NEW i \in DOMAIN d.fwd
                   PROVE  d.fwd[i] \in DOMAIN d.bwd /\ d.bwd[d.fwd[i]] = i
        OBVIOUS
      <3>1. i \in DOMAIN geofences.fwd /\ i \notin fences /\ d.fwd[i] = geofences.fwd[i]
        BY <1>7, <1>8
      <3>2. geofences.fwd[i] \in DOMAIN geofences.bwd /\ geofences.bwd[geofences.fwd[i]] = i
        BY <3>1 DEF FencesInv, FenceDict
      <3>3. geofences.fwd[i] \notin gone
        BY <1>6, <3>1, <3>2 DEF FencesInv, FenceDict
      <3> QED
        BY <1>7, <3>1, <3>2, <3>3
    <2>2. known' \subseteq DOMAIN d.fwd
      BY <1>5, <1>7, <1>8 DEF FencesInv, FenceDict
    <2> QED
      BY <1>5, <1>7, <2>1, <2>2 DEF FencesInv, FenceDict
  <1>10. \A asked : AskedFrom(asked, geofences, nextFence) => AskedFrom(asked, geofences', nextFence')
    BY <1>5, <1>7 DEF AskedFrom
  <1>11. /\ cmd.kind = "remove" /\ request.kind = "remove"
         /\ cmd.asked = [s \in gone |-> geofences.bwd[s]] /\ request.removed.bwd = cmd.asked
    BY <1>1, <1>2, <1>3 DEF Geo!Command, Geo!Asked, Geo!Removed
  <1>12. AskedFrom(cmd.asked, geofences', nextFence') /\ FenceRequest(request, cmd)
    BY <1>5, <1>6, <1>7, <1>11 DEF FencesInv, FenceDict, AskedFrom, FenceRequest
  <1>13. /\ FenceOrder' /\ n \in Nat
         /\ \A s, k : Adding(s, k)' <=> Adding(s, k)
         /\ \A s, k : Removing(s, k)' <=> Removing(s, k) \/ (k = n + 1 /\ s \in gone)
         /\ Len(geofenceCommands') = n + 1
    BY <1>5, <1>10, <1>11, <1>12, FenceAppended DEF n
  <1>14. \A s : NotAdded(s)' <=> NotAdded(s)
    BY <1>5 DEF NotAdded, Geo!Idle
  <1>15. \A s, k : (Adding(s, k) => k \in 1 .. n) /\ (Removing(s, k) => k \in 1 .. n)
    BY DEF Adding, Removing, n
  <1> HIDE DEF n
  <1>16. /\ \A k \in 1 .. n : k \in 1 .. n + 1 /\ n + 1 > k
         /\ n + 1 \in 1 .. n + 1
    BY <1>13
  <1>17. \A s : Live(s)' <=> Live(s)
    BY <1>5, <1>13, <1>14, <1>15, <1>16 DEF Live, n
  <1>18. \A s : Current(s) => Current(s)'
    <2> SUFFICES ASSUME NEW s, Current(s), s \in DOMAIN d.bwd
                 PROVE  d.bwd[s] \in known' /\ d.fwd[d.bwd[s]] = s
      BY <1>5 DEF Current
    <2>1. /\ s \in DOMAIN geofences.bwd /\ s \notin gone /\ d.bwd[s] = geofences.bwd[s]
          /\ geofences.bwd[s] \in known /\ geofences.fwd[geofences.bwd[s]] = s
      BY <1>7 DEF Current
    <2>2. geofences.bwd[s] \in DOMAIN geofences.fwd /\ geofences.bwd[s] \notin fences
      BY <1>6, <2>1 DEF FencesInv, FenceDict
    <2>3. geofences.bwd[s] \in DOMAIN d.fwd
      BY <1>7, <1>8, <2>2
    <2> QED
      BY <1>5, <1>7, <2>1, <2>2, <2>3
  <1>19. FenceSessions'
    <2> SUFFICES ASSUME NEW s \in 1 .. nextFence - 1
                 PROVE  /\ Live(s)' => Current(s)'
                        /\ s \in DOMAIN monitored' =>
                             s \in DOMAIN geofences'.bwd \/ \E k \in 1 .. Len(geofenceCommands') : Removing(s, k)'
                        /\ ~(s \in DOMAIN monitored' /\ NotAdded(s)')
                        /\ \A k \in 1 .. Len(geofenceCommands') : Adding(s, k)' =>
                             /\ s \notin DOMAIN monitored' /\ ~NotAdded(s)'
                             /\ \A j \in 1 .. Len(geofenceCommands') : Adding(s, j)' => j = k
                             /\ s \in DOMAIN geofences'.bwd
                                  \/ \E j \in 1 .. Len(geofenceCommands') : j > k /\ Removing(s, j)'
      BY <1>5 DEF FenceSessions
    <2>1. s \in DOMAIN geofences.bwd => s \in DOMAIN geofences'.bwd \/ \E k : k = n + 1 /\ Removing(s, k)'
      BY <1>5, <1>7, <1>13
    <2>2. /\ Live(s) => Current(s)
          /\ s \in DOMAIN monitored => s \in DOMAIN geofences.bwd \/ \E k \in 1 .. n : Removing(s, k)
          /\ ~(s \in DOMAIN monitored /\ NotAdded(s))
          /\ \A k \in 1 .. n : Adding(s, k) =>
               /\ s \notin DOMAIN monitored /\ ~NotAdded(s)
               /\ \A j \in 1 .. n : Adding(s, j) => j = k
               /\ s \in DOMAIN geofences.bwd \/ \E j \in 1 .. n : j > k /\ Removing(s, j)
      BY DEF FencesInv, FenceSessions, n
    <2>3. \A k : Removing(s, k) => Removing(s, k)'
      BY <1>13
    <2>4. \A k \in 1 .. n + 1 : Adding(s, k)' => k \in 1 .. n /\ Adding(s, k)
      BY <1>13, <1>15
    <2>5. ASSUME NEW k \in 1 .. n + 1, Adding(s, k)'
          PROVE  s \in DOMAIN geofences'.bwd \/ \E j \in 1 .. n + 1 : j > k /\ Removing(s, j)'
      BY <1>16, <2>1, <2>2, <2>3, <2>4, <2>5
    <2>6. s \in DOMAIN monitored' => s \in DOMAIN geofences'.bwd \/ \E k \in 1 .. n + 1 : Removing(s, k)'
      BY <1>5, <1>16, <2>1, <2>2, <2>3
    <2> QED
      BY <1>5, <1>13, <1>14, <1>17, <1>18, <2>2, <2>4, <2>5, <2>6
  <1> QED
    BY <1>5, <1>9, <1>13, <1>19 DEF FencesInv, Geo!Idle

\* The interface serves its first command, and the first request is taken out for the answer.
LEMMA FenceServed ==
  ASSUME FencesInv, NEW failed, Geo!onCollectiveResponseCb(failed)
  PROVE  FencesInv'
  <1>1. PICK n : n = Len(geofenceCommands)
    OBVIOUS
  <1>2. PICK cmd : cmd = Head(geofenceCommands)
    OBVIOUS
  <1>3. PICK request : request = Head(geofenceQueue)
    OBVIOUS
  <1>4. /\ geofenceCommands # <<>> /\ collective = Geo!Idle
        /\ failed \subseteq DOMAIN cmd.asked /\ (cmd.kind # "add" => failed = {})
        /\ geofenceCommands' = Tail(geofenceCommands) /\ monitored' = Geo!Served(cmd, failed)
        /\ UNCHANGED <<started, geofences, nextFence, known>>
    BY <1>2 DEF Geo!onCollectiveResponseCb
  <1>5. /\ IsSeq(geofenceCommands') /\ Len(geofenceCommands') = n - 1 /\ n \in Nat /\ n >= 1
        /\ cmd = geofenceCommands[1] /\ \A k \in 1 .. n - 1 : geofenceCommands'[k] = geofenceCommands[k + 1]
    BY <1>1, <1>2, <1>4, SeqShrunk DEF FencesInv, FenceOrder
  <1>6. started /\ geofenceQueue # <<>>
    BY <1>1, <1>4, <1>5 DEF FencesInv, FenceOrder
  <1>7. PICK p : p = collective'
    OBVIOUS
  <1>8. /\ p = [kind |-> request.kind, removed |-> request.removed, cmd |-> cmd,
                failed |-> Geo!Failing(cmd, failed)]
        /\ geofenceQueue' = Tail(geofenceQueue)
    BY <1>2, <1>3, <1>6, <1>7 DEF Geo!onCollectiveResponseCb
  <1>9. /\ p.kind = request.kind /\ p.removed = request.removed /\ p.cmd = cmd
        /\ p.failed = Geo!Failing(cmd, failed)
    BY <1>8
  <1>10. /\ IsSeq(geofenceQueue') /\ Len(geofenceQueue') = n - 1
         /\ request = geofenceQueue[1] /\ \A k \in 1 .. n - 1 : geofenceQueue'[k] = geofenceQueue[k + 1]
    BY <1>1, <1>3, <1>6, <1>8, SeqShrunk DEF FencesInv, FenceOrder
  <1>11. \A k \in 1 .. n : FenceRequest(geofenceQueue[k], geofenceCommands[k])
                           /\ AskedFrom(geofenceCommands[k].asked, geofences, nextFence)
    BY <1>1 DEF FencesInv, FenceOrder
  <1>12. 1 \in 1 .. n /\ \A k \in 1 .. n - 1 : k + 1 \in 1 .. n /\ k + 1 # 1
    BY <1>5
  <1>13. FenceRequest(request, cmd) /\ AskedFrom(cmd.asked, geofences, nextFence)
    BY <1>5, <1>10, <1>11, <1>12
  <1>14. FenceRequest(p, p.cmd) /\ AskedFrom(p.cmd.asked, geofences', nextFence')
    BY <1>4, <1>9, <1>13 DEF FenceRequest
  <1>15. FenceOrder'
    <2>1. \A k \in 1 .. n - 1 : FenceRequest(geofenceQueue'[k], geofenceCommands'[k])
                                /\ AskedFrom(geofenceCommands'[k].asked, geofences', nextFence')
      BY <1>4, <1>5, <1>10, <1>11, <1>12
    <2> QED
      BY <1>4, <1>5, <1>6, <1>7, <1>10, <1>14, <2>1 DEF FenceOrder, Geo!Idle
  <1>16. \A s, k : Adding(s, k)' => k \in 1 .. n - 1 /\ Adding(s, k + 1)
    BY <1>1, <1>5, <1>12 DEF Adding
  <1>17. \A s, k : k \in 1 .. n /\ k > 1 /\ Removing(s, k) => k - 1 \in 1 .. n - 1 /\ Removing(s, k - 1)'
    BY <1>1, <1>5, <1>12 DEF Removing
  <1>18. \A s : s \in DOMAIN cmd.asked => s \in 1 .. nextFence - 1
    BY <1>13 DEF AskedFrom
  <1>19. \A s : NotAdded(s)' => cmd.kind = "add" /\ s \in failed /\ s \in DOMAIN cmd.asked
    BY <1>4, <1>7, <1>9, <1>13 DEF NotAdded, FenceRequest, Geo!Failing
  <1>20. \A s : ~NotAdded(s)
    BY <1>4 DEF NotAdded
  <1>21. /\ cmd.kind = "add" => DOMAIN monitored' = DOMAIN monitored \union (DOMAIN cmd.asked \ failed)
         /\ cmd.kind = "remove" => DOMAIN monitored' = DOMAIN monitored \ DOMAIN cmd.asked
         /\ cmd.kind \notin {"add", "remove"} => DOMAIN monitored' = DOMAIN monitored
    BY <1>4 DEF Geo!Served
  <1>22. \A s : cmd.kind = "add" /\ s \in DOMAIN cmd.asked => Adding(s, 1)
    BY <1>1, <1>5, <1>12 DEF Adding
  <1>23. \A s : Removing(s, 1) => cmd.kind = "remove" /\ s \in DOMAIN cmd.asked
    BY <1>5 DEF Removing
  <1>24. \A s : Live(s)' => Live(s)
    <2>1. \A s, k : Adding(s, k)' => \E j \in 1 .. Len(geofenceCommands) : Adding(s, j)
      BY <1>1, <1>12, <1>16
    <2>2. \A s : Adding(s, 1) => Live(s)
      BY <1>1, <1>12 DEF Live
    <2> QED
      BY <1>19, <1>21, <1>22, <2>1, <2>2 DEF Live
  <1>25. FenceSessions'
    <2> SUFFICES ASSUME NEW s \in 1 .. nextFence - 1
                 PROVE  /\ Live(s)' => Current(s)'
                        /\ s \in DOMAIN monitored' =>
                             s \in DOMAIN geofences'.bwd \/ \E k \in 1 .. Len(geofenceCommands') : Removing(s, k)'
                        /\ ~(s \in DOMAIN monitored' /\ NotAdded(s)')
                        /\ \A k \in 1 .. Len(geofenceCommands') : Adding(s, k)' =>
                             /\ s \notin DOMAIN monitored' /\ ~NotAdded(s)'
                             /\ \A j \in 1 .. Len(geofenceCommands') : Adding(s, j)' => j = k
                             /\ s \in DOMAIN geofences'.bwd
                                  \/ \E j \in 1 .. Len(geofenceCommands') : j > k /\ Removing(s, j)'
      BY <1>4 DEF FenceSessions
    <2>1. /\ Live(s) => Current(s)
          /\ s \in DOMAIN monitored => s \in DOMAIN geofences.bwd \/ \E k \in 1 .. n : Removing(s, k)
          /\ \A k \in 1 .. n : Adding(s, k) =>
               /\ s \notin DOMAIN monitored
               /\ \A j \in 1 .. n : Adding(s, j) => j = k
               /\ s \in DOMAIN geofences.bwd \/ \E j \in 1 .. n : j > k /\ Removing(s, j)
      BY <1>1 DEF FencesInv, FenceSessions
    <2>2. Live(s)' => Current(s)'
      BY <1>4, <1>24, <2>1 DEF Current
    <2>3. ~(s \in DOMAIN monitored' /\ NotAdded(s)')
      BY <1>12, <1>19, <1>21, <1>22, <2>1
    <2>4. s \in DOMAIN monitored' => s \in DOMAIN geofences.bwd \/ \E k \in 1 .. n - 1 : Removing(s, k)'
      <3>1. CASE s \in DOMAIN monitored
        <4>1. s \in DOMAIN monitored' => ~Removing(s, 1)
          BY <1>21, <1>23
        <4>2. \A k \in 1 .. n : k > 1 \/ k = 1
          OBVIOUS
        <4> QED
          BY <1>17, <2>1, <3>1, <4>1, <4>2
      <3>2. CASE s \notin DOMAIN monitored /\ s \in DOMAIN monitored'
        <4>1. Adding(s, 1)
          BY <1>21, <1>22, <3>2
        <4>2. s \in DOMAIN geofences.bwd \/ \E j \in 1 .. n : j > 1 /\ Removing(s, j)
          BY <1>12, <2>1, <4>1
        <4> QED
          BY <1>17, <4>2
      <3> QED
        BY <3>1, <3>2
    <2>5. ASSUME NEW k \in 1 .. n - 1, Adding(s, k)'
          PROVE  /\ s \notin DOMAIN monitored' /\ ~NotAdded(s)'
                 /\ \A j \in 1 .. n - 1 : Adding(s, j)' => j = k
                 /\ s \in DOMAIN geofences.bwd \/ \E j \in 1 .. n - 1 : j > k /\ Removing(s, j)'
      <3>1. Adding(s, k + 1) /\ k + 1 \in 1 .. n /\ ~Adding(s, 1)
        BY <1>12, <1>16, <2>1, <2>5
      <3>2. ~(cmd.kind = "add" /\ s \in DOMAIN cmd.asked) /\ s \notin DOMAIN monitored
        BY <1>22, <2>1, <3>1
      <3>3. s \notin DOMAIN monitored' /\ ~NotAdded(s)'
        BY <1>19, <1>21, <3>2
      <3>4. \A j \in 1 .. n - 1 : Adding(s, j)' => j + 1 = k + 1
        BY <1>12, <1>16, <2>1, <3>1
      <3>5. s \in DOMAIN geofences.bwd \/ \E j \in 1 .. n : j > k + 1 /\ Removing(s, j)
        BY <2>1, <3>1
      <3>6. \A j \in 1 .. n : j > k + 1 /\ Removing(s, j) => j - 1 \in 1 .. n - 1 /\ j - 1 > k /\ Removing(s, j - 1)'
        BY <1>17
      <3> QED
        BY <3>3, <3>4, <3>5, <3>6
    <2> QED
      BY <1>4, <1>5, <2>2, <2>3, <2>4, <2>5
  <1>26. DOMAIN monitored' \subseteq 1 .. nextFence - 1 /\ p.failed \subseteq 1 .. nextFence - 1
    BY <1>4, <1>9, <1>18, <1>21 DEF FencesInv, Geo!Failing
  <1>27. FenceDict'
    BY <1>4 DEF FencesInv, FenceDict
  <1> QED
    BY <1>4, <1>7, <1>15, <1>25, <1>26, <1>27 DEF FencesInv, Geo!Idle

\* The framework is told which geofences were not added and forgets their ids.
LEMMA FenceAnswered ==
  ASSUME FencesInv, Geo!onCollectiveResponse
  PROVE  FencesInv'
  <1>1. /\ collective # Geo!Idle /\ collective' = Geo!Idle
        /\ UNCHANGED <<started, geofenceQueue, geofences, geofenceCommands, monitored, nextFence>>
        /\ known' = IF collective.kind = "add"
                    THEN known \ {Geo!ReportedId(collective, s) : s \in collective.failed} ELSE known
    BY DEF Geo!onCollectiveResponse
  <1>2. known' \subseteq known
    BY <1>1
  <1>3. \A s : ~NotAdded(s)'
    BY <1>1 DEF NotAdded, Geo!Idle
  <1>4. \A s, k : (Adding(s, k)' <=> Adding(s, k)) /\ (Removing(s, k)' <=> Removing(s, k))
    BY <1>1 DEF Adding, Removing
  <1>5. \A s \in 1 .. nextFence - 1 : Live(s)' => Live(s) /\ ~NotAdded(s)
    BY <1>1, <1>3, <1>4 DEF FencesInv, FenceSessions, Live
  <1>6. ASSUME NEW s \in 1 .. nextFence - 1, Live(s), ~NotAdded(s), s \in DOMAIN geofences.bwd
        PROVE  geofences.bwd[s] \in known'
    <2>1. geofences.bwd[s] \in known /\ geofences.fwd[geofences.bwd[s]] = s /\ geofences.bwd[s] \in FenceIds
      BY <1>6 DEF FencesInv, FenceSessions, FenceDict, Current
    <2>2. ASSUME collective.kind = "add", NEW t \in collective.failed
          PROVE  Geo!ReportedId(collective, t) # geofences.bwd[s]
      <3>1. NotAdded(t) /\ t \in 1 .. nextFence - 1 /\ t # s
        BY <1>1, <1>6, <2>2 DEF NotAdded, FencesInv
      <3>2. Current(t)
        BY <3>1 DEF FencesInv, FenceSessions, Live
      <3>3. Geo!ReportedId(collective, t) = IF t \in DOMAIN geofences.bwd THEN geofences.bwd[t] ELSE 0
        BY <2>2 DEF Geo!ReportedId, Geo!GetId, Geo!HasSession
      <3>4. 0 # geofences.bwd[s]
        BY <2>1, ServicesAssumption DEF ServicesAssumption
      <3> QED
        BY <2>1, <3>1, <3>2, <3>3, <3>4 DEF Current
    <2> QED
      BY <1>1, <2>1, <2>2
  <1>7. FenceSessions'
    <2>1. \A s \in 1 .. nextFence - 1 : Live(s)' => Current(s)'
      BY <1>1, <1>5, <1>6 DEF FencesInv, FenceSessions, Current
    <2> QED
      BY <1>1, <1>3, <1>4, <2>1 DEF FencesInv, FenceSessions
  <1>8. FenceDict' /\ FenceOrder'
    BY <1>1, <1>2 DEF FencesInv, FenceDict, FenceOrder, Geo!Idle
  <1> QED
    BY <1>1, <1>7, <1>8 DEF FencesInv, Geo!Idle

LEMMA FenceStep ==
  ASSUME FencesInv, [Geo!Next]_geofenceVars
  PROVE  FencesInv'
  <1>1. ASSUME NEW fences \in SUBSET FenceIds, NEW mask, Geo!locAPIModifyGeofences(fences, mask)
        PROVE  FencesInv'
    <2>1. "modify" \notin {"add", "remove"}
      OBVIOUS
    <2> QED
      BY <1>1, <2>1, FenceRequested DEF Geo!locAPIModifyGeofences
  <1>2. ASSUME NEW fences \in SUBSET FenceIds, NEW mask, Geo!locAPIResumeGeofences(fences, mask)
        PROVE  FencesInv'
    <2>1. "resume" \notin {"add", "remove"}
      OBVIOUS
    <2> QED
      BY <1>2, <2>1, FenceRequested DEF Geo!locAPIResumeGeofences
  <1>3. ASSUME NEW fences \in SUBSET FenceIds, Geo!locAPIPauseGeofences(fences)
        PROVE  FencesInv'
    <2>1. "pause" \notin {"add", "remove"}
      OBVIOUS
    <2>2. Geo!Request("pause", fences, {}) /\ geofences' = geofences
      BY <1>3 DEF Geo!locAPIPauseGeofences
    <2> QED
      BY <2>1, <2>2, FenceRequested
  <1>4. CASE UNCHANGED geofenceVars
    <2> USE <1>4 DEF geofenceVars
    <2>1. FenceDict' /\ FenceOrder'
      BY DEF FencesInv, FenceDict, FenceOrder, Geo!Idle
    <2>2. \A s, k : (Adding(s, k)' <=> Adding(s, k)) /\ (Removing(s, k)' <=> Removing(s, k))
      BY DEF Adding, Removing
    <2>3. \A s : (NotAdded(s)' <=> NotAdded(s)) /\ (Current(s)' <=> Current(s))
      BY DEF NotAdded, Current, Geo!Idle
    <2>4. \A s : Live(s)' <=> Live(s)
      BY <2>2, <2>3 DEF Live
    <2>5. FenceSessions'
      BY <2>2, <2>3, <2>4 DEF FencesInv, FenceSessions
    <2> QED
      BY <2>1, <2>5 DEF FencesInv, Geo!Idle
  <1> QED
    BY <1>1, <1>2, <1>3, <1>4, FenceAdded, FenceRemoved, FenceServed, FenceAnswered DEF Geo!Next

\* Collective responses and breaches reach the framework under the ids it knows, and a
\* geofence that is watched can be removed (LocationAPIClientBase.cpp 584-884).
THEOREM GeofencesKnown == MCSpec => []GeofencesAreKnown
  <1>1. MCInit => FencesInv
    <2> SUFFICES ASSUME Geo!Init
                 PROVE  FencesInv
      BY DEF MCInit
    <2>1. /\ geofenceQueue = <<>> /\ geofenceCommands = <<>> /\ monitored = <<>> /\ collective = Geo!Idle
          /\ nextFence = 1 /\ known = {} /\ geofences = Geo!EmptyDict
      BY DEF Geo!Init
    <2>2. /\ DOMAIN geofences = {"fwd", "bwd", "ext"} /\ DOMAIN geofences.fwd = {}
          /\ DOMAIN geofences.bwd = {} /\ DOMAIN geofences.ext = {}
      BY <2>1 DEF Geo!EmptyDict
    <2>3. IsSeq(geofenceQueue) /\ IsSeq(geofenceCommands) /\ Len(geofenceQueue) = 0 /\ Len(geofenceCommands) = 0
      BY <2>1 DEF IsSeq
    <2>4. FenceOrder
      BY <2>1, <2>3 DEF FenceOrder
    <2> QED
      BY <2>1, <2>2, <2>4 DEF FencesInv, FenceDict, FenceSessions
  <1>2. FencesInv /\ [MCNext]_mcvars => FencesInv'
    BY PartSteps, FenceStep
  <1>3. FencesInv => GeofencesAreKnown
    <2> SUFFICES ASSUME FencesInv
                 PROVE  GeofencesAreKnown
      OBVIOUS
    <2>1. Geo!ToldRightIds
      BY DEF FencesInv, FenceOrder, FenceRequest, AskedFrom, Geo!ToldRightIds, Geo!ReportedId,
             Geo!GetId, Geo!HasSession
    <2>2. ASSUME NEW s \in DOMAIN monitored, s \in DOMAIN geofences.bwd
          PROVE  geofences.bwd[s] \in known /\ geofences.fwd[geofences.bwd[s]] = s
      BY <2>2 DEF FencesInv, FenceSessions, Live, Current
    <2>3. Geo!BreachIsKnown
      <3> SUFFICES ASSUME NEW type, NEW s \in DOMAIN monitored,
                          type \in Geo!GetExtBySession(geofences, s, {})
                   PROVE  Geo!GetId(geofences, s) \in known
        BY DEF Geo!BreachIsKnown, Geo!beforeGeofenceBreachCb
      <3>1. s \in DOMAIN geofences.bwd
        BY DEF Geo!GetExtBySession, FencesInv, FenceDict
      <3> QED
        BY <2>2, <3>1 DEF Geo!GetId, Geo!HasSession
    <2>4. Geo!MonitoredHasId
      <3> SUFFICES ASSUME NEW s \in DOMAIN monitored
                   PROVE  \/ Geo!HasSession(geofences, s) /\ Geo!GetSession(geofences, geofences.bwd[s]) = s
                          \/ \E k \in 1 .. Len(geofenceCommands) :
                               geofenceCommands[k].kind = "remove" /\ s \in DOMAIN geofenceCommands[k].asked
        BY DEF Geo!MonitoredHasId
      <3>1. s \in DOMAIN geofences.bwd \/ \E k \in 1 .. Len(geofenceCommands) : Removing(s, k)
        BY DEF FencesInv, FenceSessions
      <3>2. CASE s \in DOMAIN geofences.bwd
        BY <2>2, <3>2 DEF FencesInv, FenceDict, Geo!HasSession, Geo!GetSession, Geo!HasId
      <3> QED
        BY <3>1, <3>2 DEF Removing
    <2> QED
      BY <2>1, <2>3, <2>4 DEF GeofencesAreKnown
  <1> QED
    BY <1>1, <1>2, <1>3, PTL DEF MCSpec

-----------------------------------------------------------------------------
(* The sessions of a client.  That the dictionary agrees is inductive for all *)
(* uses of it (DictInv).  What is said of the requests depends on the use: a  *)
(* client that tracks has, in the tracking queue, the requests of the commands *)
(* that wait for its session, in order, as long as the session lives, and one *)
(* that has ended is not answered (TrackingInv); a batching client has its    *)
(* requests and commands in step until a response finds no session and leaves *)
(* its request in the queue (BatchingInv).                                    *)

\* An entry of the dictionary is found from both sides.
Agrees(d) ==
  /\ DOMAIN d = {"fwd", "bwd", "ext"}
  /\ \A s \in DOMAIN d.bwd : d.bwd[s] \in DOMAIN d.fwd /\ d.fwd[d.bwd[s]] = s

DictInv == Agrees(dict)

\* A session of its own for an id that has none.
LEMMA EntrySet ==
  ASSUME NEW d, Agrees(d), NEW id, ~Ses!HasId(d, id), NEW s, NEW data
  PROVE  Agrees(Ses!SetEntry(d, id, s, data))
  <1> DEFINE e == Ses!SetEntry(d, id, s, data)
  <1>1. /\ DOMAIN e = {"fwd", "bwd", "ext"}
        /\ DOMAIN e.fwd = DOMAIN d.fwd \union {id} /\ DOMAIN e.bwd = DOMAIN d.bwd \union {s}
        /\ \A i \in DOMAIN e.fwd : e.fwd[i] = IF i = id THEN s ELSE d.fwd[i]
        /\ \A t \in DOMAIN e.bwd : e.bwd[t] = IF t = s THEN id ELSE d.bwd[t]
    BY DEF Ses!SetEntry, Ses!Put
  <1> HIDE DEF e
  <1>2. id \notin DOMAIN d.fwd
    BY DEF Ses!HasId
  <1> QED
    BY <1>1, <1>2 DEF Agrees, e

LEMMA EntryRemovedById ==
  ASSUME NEW d, Agrees(d), NEW id
  PROVE  Agrees(Ses!RmById(d, id)) /\ ~Ses!HasId(Ses!RmById(d, id), id)
  <1> DEFINE e == Ses!RmById(d, id)
  <1>1. /\ DOMAIN e = {"fwd", "bwd", "ext"} /\ DOMAIN e.fwd = DOMAIN d.fwd \ {id}
        /\ DOMAIN e.bwd = DOMAIN d.bwd \ {Ses!GetSession(d, id)}
        /\ \A i \in DOMAIN e.fwd : e.fwd[i] = d.fwd[i]
        /\ \A t \in DOMAIN e.bwd : e.bwd[t] = d.bwd[t]
    BY DEF Ses!RmById, Ses!Erase
  <1> HIDE DEF e
  <1>2. id \in DOMAIN d.fwd => Ses!GetSession(d, id) = d.fwd[id]
    BY DEF Ses!GetSession, Ses!HasId
  <1>3. \A t \in DOMAIN e.bwd : d.bwd[t] \in DOMAIN d.fwd /\ d.fwd[d.bwd[t]] = t /\ d.bwd[t] # id
    BY <1>1, <1>2 DEF Agrees
  <1> QED
    BY <1>1, <1>3 DEF Agrees, e, Ses!HasId

LEMMA EntryRemoved ==
  ASSUME NEW d, Agrees(d), NEW s, s \in DOMAIN d.bwd
  PROVE  /\ Agrees(Ses!RmBySession(d, s))
         /\ DOMAIN Ses!RmBySession(d, s).fwd = DOMAIN d.fwd \ {d.bwd[s]}
         /\ DOMAIN Ses!RmBySession(d, s).bwd = DOMAIN d.bwd \ {s}
  <1> DEFINE e == Ses!RmBySession(d, s)
  <1>1. Ses!GetId(d, s) = d.bwd[s]
    BY DEF Ses!GetId, Ses!HasSession
  <1>2. /\ DOMAIN e = {"fwd", "bwd", "ext"} /\ DOMAIN e.fwd = DOMAIN d.fwd \ {d.bwd[s]}
        /\ DOMAIN e.bwd = DOMAIN d.bwd \ {s}
        /\ \A i \in DOMAIN e.fwd : e.fwd[i] = d.fwd[i]
        /\ \A t \in DOMAIN e.bwd : e.bwd[t] = d.bwd[t]
    BY <1>1 DEF Ses!RmBySession, Ses!Erase
  <1> HIDE DEF e
  <1>3. \A t \in DOMAIN e.bwd : d.bwd[t] \in DOMAIN d.fwd /\ d.fwd[d.bwd[t]] = t /\ d.bwd[t] # d.bwd[s]
    BY <1>2 DEF Agrees
  <1> QED
    BY <1>2, <1>3 DEF Agrees, e

\* The lookup of a missing id inserts session 0, which no session points back to.
LEMMA EntryLookedUp ==
  ASSUME NEW d, Agrees(d), NEW id
  PROVE  Agrees(Ses!AfterGetExtById(d, id))
  <1>1. CASE Ses!HasId(d, id)
    BY <1>1 DEF Ses!AfterGetExtById
  <1>2. CASE ~Ses!HasId(d, id)
    <2> DEFINE e == Ses!AfterGetExtById(d, id)
    <2>1. /\ DOMAIN e = {"fwd", "bwd", "ext"} /\ e.bwd = d.bwd
          /\ DOMAIN e.fwd = DOMAIN d.fwd \union {id}
          /\ \A i \in DOMAIN e.fwd : e.fwd[i] = IF i = id THEN 0 ELSE d.fwd[i]
      BY <1>2 DEF Ses!AfterGetExtById, Ses!Put, Agrees
    <2> HIDE DEF e
    <2>2. id \notin DOMAIN d.fwd
      BY <1>2 DEF Ses!HasId
    <2> QED
      BY <2>1, <2>2 DEF Agrees, e
  <1> QED
    BY <1>1, <1>2

LEMMA DictStep ==
  ASSUME DictInv, [Ses!Next]_sessionVars
  PROVE  DictInv'
  <1>1. \A s : Agrees(Ses!removeSession(s))
    BY EntryRemoved DEF Ses!removeSession, Ses!HasSession, DictInv
  <1>2. ASSUME NEW id, NEW mode, Ses!locAPIStartSession(id, mode)
        PROVE  DictInv'
    BY <1>2, EntrySet DEF Ses!locAPIStartSession, DictInv
  <1>3. CASE Ses!locAPIStopSession \/ Ses!locAPIGetBatchedLocations \/ Ses!locAPIUpdateSessionOptions
    <2>1. dict' = Ses!AfterGetExtById(dict, calling.id)
      BY <1>3 DEF Ses!locAPIStopSession, Ses!locAPIGetBatchedLocations, Ses!locAPIUpdateSessionOptions
    <2> QED
      BY <2>1, EntryLookedUp DEF DictInv
  <1>4. CASE Ses!UpdateEntry
    <2>1. dict' = Ses!SetEntry(Ses!RmById(dict, calling.id), calling.id, calling.session,
                               Ses!Entity(calling.id, calling.mode, calling.session))
      BY <1>4 DEF Ses!UpdateEntry
    <2>2. PICK d : d = Ses!RmById(dict, calling.id)
      OBVIOUS
    <2>3. Agrees(d) /\ ~Ses!HasId(d, calling.id)
      BY <2>2, EntryRemovedById DEF DictInv
    <2> QED
      BY <2>1, <2>2, <2>3, EntrySet DEF DictInv
  <1>5. ASSUME NEW i, Ses!onResponse(i)
        PROVE  DictInv'
    BY <1>1, <1>5 DEF Ses!onResponse, DictInv
  <1>6. ASSUME NEW s, Ses!beforeBatchingStatusCb(s)
        PROVE  DictInv'
    BY <1>1, <1>6 DEF Ses!beforeBatchingStatusCb, DictInv
  <1>7. ASSUME NEW i, NEW e, Ses!Serve(i, e)
        PROVE  DictInv'
    BY <1>7 DEF Ses!Serve, DictInv
  <1>8. CASE \/ Ses!locAPISetCallbacks \/ Ses!locAPIStartTracking \/ Ses!locAPIStopTracking
             \/ Ses!locAPIUpdateTrackingOptions \/ \E id \in NiIds : Ses!locAPIGnssNiResponse(id)
             \/ \E id \in SessionIds, mode \in Modes : Ses!FindSession(id, "update", mode)
             \/ \E id \in SessionIds : Ses!FindSession(id, "stop", "NONE") \/ Ses!FindSession(id, "flush", "NONE")
    <2>1. dict' = dict
      BY <1>8 DEF Ses!locAPISetCallbacks, Ses!locAPIStartTracking, Ses!locAPIStopTracking,
                  Ses!locAPIUpdateTrackingOptions, Ses!locAPIGnssNiResponse, Ses!FindSession
    <2> QED
      BY <2>1 DEF DictInv
  <1>9. CASE UNCHANGED sessionVars
    BY <1>9 DEF sessionVars, DictInv
  <1>10. CASE Ses!ClientStep
    BY <1>2, <1>3, <1>4, <1>8, <1>10 DEF Ses!ClientStep
  <1>11. CASE Ses!InterfaceStep
    BY <1>5, <1>6, <1>7, <1>11 DEF Ses!InterfaceStep
  <1> QED
    BY <1>9, <1>10, <1>11 DEF Ses!Next

-----------------------------------------------------------------------------
(* The queues, the commands and what is popped are as declared; a client that  *)
(* does not track leaves two of the queues alone.                              *)

QueuesTyped(qs) ==
  /\ qs = [t \in Ses!RequestType |-> qs[t]]
  /\ \A t \in Ses!RequestType :
       qs[t] = [session |-> qs[t].session, requests |-> qs[t].requests] /\ IsSeq(qs[t].requests)

CommandsTyped(cs) == cs = [i \in Ses!Interface |-> cs[i]] /\ \A i \in Ses!Interface : IsSeq(cs[i])

SessionTypes ==
  /\ usage \in Ses!Usage /\ nextId \in Nat \ {0}
  /\ QueuesTyped(requestQueues) /\ CommandsTyped(commands)
  /\ popped = [i \in Ses!Interface |-> popped[i]]

\* A queue is given another value.
QueueGiven(new, qs, type, s, reqs) ==
  /\ QueuesTyped(new) /\ new[type].session = s /\ new[type].requests = reqs
  /\ \A t \in Ses!RequestType \ {type} : new[t] = qs[t]

LEMMA QueuePut ==
  ASSUME NEW qs, QueuesTyped(qs), NEW type \in Ses!RequestType, NEW s, NEW reqs, IsSeq(reqs)
  PROVE  QueueGiven([qs EXCEPT ![type] = [session |-> s, requests |-> reqs]], qs, type, s, reqs)
  <1> DEFINE new == [qs EXCEPT ![type] = [session |-> s, requests |-> reqs]]
  <1>1. \A t \in Ses!RequestType :
          new[t] = IF t = type THEN [session |-> s, requests |-> reqs] ELSE qs[t]
    BY DEF QueuesTyped
  <1>2. new = [t \in Ses!RequestType |-> new[t]]
    BY DEF QueuesTyped
  <1> QED
    BY <1>1, <1>2 DEF QueuesTyped, QueueGiven

LEMMA RequestsSet ==
  ASSUME NEW q, q = [session |-> q.session, requests |-> q.requests], NEW reqs
  PROVE  [q EXCEPT !.requests = reqs] = [session |-> q.session, requests |-> reqs]
  OBVIOUS

LEMMA QueuePushed ==
  ASSUME NEW qs, QueuesTyped(qs), NEW type \in Ses!RequestType, NEW kind
  PROVE  QueueGiven([qs EXCEPT ![type] = Ses!PushOn(@, kind)], qs, type,
                    qs[type].session, Append(qs[type].requests, kind))
  <1>1. IsSeq(Append(qs[type].requests, kind))
    BY SeqGrown DEF QueuesTyped
  <1>2. PICK q : q = qs[type]
    OBVIOUS
  <1>3. q = [session |-> q.session, requests |-> q.requests]
    BY <1>2 DEF QueuesTyped
  <1>4. Ses!PushOn(q, kind) = [session |-> q.session, requests |-> Append(q.requests, kind)]
    BY <1>3, RequestsSet, Zenon DEF Ses!PushOn
  <1>5. PICK w, r : w = q.session /\ r = Append(q.requests, kind)
    OBVIOUS
  <1>6. [qs EXCEPT ![type] = Ses!PushOn(@, kind)] = [qs EXCEPT ![type] = [session |-> w, requests |-> r]]
    BY <1>2, <1>4, <1>5, Zenon
  <1>7. IsSeq(r)
    BY <1>1, <1>2, <1>5
  <1>8. QueueGiven([qs EXCEPT ![type] = [session |-> w, requests |-> r]], qs, type, w, r)
    BY <1>7, QueuePut
  <1>9. w = qs[type].session /\ r = Append(qs[type].requests, kind)
    BY <1>2, <1>5
  <1> QED
    BY <1>6, <1>8, <1>9, Zenon

\* The first request is taken out.
LEMMA QueuePopped ==
  ASSUME NEW qs, QueuesTyped(qs), NEW type \in Ses!RequestType, qs[type].requests # <<>>
  PROVE  QueueGiven([qs EXCEPT ![type].requests = Tail(@)], qs, type,
                    qs[type].session, Tail(qs[type].requests))
  <1>1. IsSeq(Tail(qs[type].requests))
    BY SeqShrunk DEF QueuesTyped
  <1>2. PICK q : q = qs[type]
    OBVIOUS
  <1>3. q = [session |-> q.session, requests |-> q.requests]
    BY <1>2 DEF QueuesTyped
  <1>4. [q EXCEPT !.requests = Tail(q.requests)] = [session |-> q.session, requests |-> Tail(q.requests)]
    BY <1>3, RequestsSet, Zenon
  <1>5. PICK w, r : w = q.session /\ r = Tail(q.requests)
    OBVIOUS
  <1>6. [qs EXCEPT ![type].requests = Tail(@)] = [qs EXCEPT ![type] = [session |-> w, requests |-> r]]
    BY <1>2, <1>4, <1>5, Zenon
  <1>7. IsSeq(r)
    BY <1>1, <1>2, <1>5
  <1>8. QueueGiven([qs EXCEPT ![type] = [session |-> w, requests |-> r]], qs, type, w, r)
    BY <1>7, QueuePut
  <1>9. w = qs[type].session /\ r = Tail(qs[type].requests)
    BY <1>2, <1>5
  <1> QED
    BY <1>6, <1>8, <1>9, Zenon

\* A queue begins anew for a session.
LEMMA QueueOpened ==
  ASSUME NEW qs, QueuesTyped(qs), NEW type \in Ses!RequestType, NEW s, NEW kind
  PROVE  QueueGiven([qs EXCEPT ![type] = Ses!PushOn(Ses!Reset(s), kind)], qs, type, s, <<kind>>)
  <1>1. PICK q : q = Ses!Reset(s)
    OBVIOUS
  <1>2. q = [session |-> q.session, requests |-> q.requests] /\ q.session = s /\ q.requests = <<>>
    BY <1>1 DEF Ses!Reset
  <1>3. Append(<<>>, kind) = <<kind>> /\ IsSeq(<<kind>>)
    BY SeqGrown DEF IsSeq
  <1>4. PICK r : r = <<kind>>
    OBVIOUS
  <1>5. Ses!PushOn(q, kind) = [session |-> s, requests |-> r]
    <2>1. Append(q.requests, kind) = r
      BY <1>2, <1>3, <1>4
    <2>2. PICK a : a = Append(q.requests, kind)
      OBVIOUS
    <2>3. [q EXCEPT !.requests = a] = [session |-> q.session, requests |-> a]
      BY <1>2, RequestsSet, Zenon
    <2> QED
      BY <1>2, <2>1, <2>2, <2>3, Zenon DEF Ses!PushOn
  <1>6. IsSeq(r)
    BY <1>3, <1>4
  <1>7. QueueGiven([qs EXCEPT ![type] = [session |-> s, requests |-> r]], qs, type, s, r)
    BY <1>6, QueuePut
  <1> QED
    BY <1>1, <1>4, <1>5, <1>7, Zenon

\* The shared queue gets a request without the push of the others.
LEMMA QueueAdded ==
  ASSUME NEW qs, QueuesTyped(qs), NEW type \in Ses!RequestType, NEW kind
  PROVE  QueueGiven([qs EXCEPT ![type].requests = Append(@, kind)], qs, type,
                    qs[type].session, Append(qs[type].requests, kind))
  BY QueuePushed, Zenon DEF Ses!PushOn

\* An interface is sent a command, or serves one.
CommandsGiven(new, cs, itf, seq) ==
  /\ CommandsTyped(new) /\ new[itf] = seq
  /\ \A i \in Ses!Interface \ {itf} : new[i] = cs[i]

LEMMA CommandSent ==
  ASSUME NEW cs, CommandsTyped(cs), NEW itf \in Ses!Interface, NEW cmd
  PROVE  CommandsGiven([cs EXCEPT ![itf] = @ \o <<cmd>>], cs, itf, Append(cs[itf], cmd))
  <1> DEFINE new == [cs EXCEPT ![itf] = @ \o <<cmd>>]
  <1>1. IsSeq(cs[itf])
    BY DEF CommandsTyped
  <1>2. IsSeq(Append(cs[itf], cmd))
    BY <1>1, SeqGrown
  <1>3. cs[itf] \o <<cmd>> = Append(cs[itf], cmd)
    BY <1>1 DEF IsSeq
  <1>4. \A i \in Ses!Interface : new[i] = IF i = itf THEN Append(cs[itf], cmd) ELSE cs[i]
    BY <1>3 DEF CommandsTyped
  <1>5. new = [i \in Ses!Interface |-> new[i]]
    BY DEF CommandsTyped
  <1> HIDE DEF new
  <1>6. CommandsGiven(new, cs, itf, Append(cs[itf], cmd))
    BY <1>2, <1>4, <1>5 DEF CommandsTyped, CommandsGiven
  <1> QED
    BY <1>6 DEF new

LEMMA CommandServed ==
  ASSUME NEW cs, CommandsTyped(cs), NEW itf \in Ses!Interface, cs[itf] # <<>>
  PROVE  CommandsGiven([cs EXCEPT ![itf] = Tail(@)], cs, itf, Tail(cs[itf]))
  <1> DEFINE new == [cs EXCEPT ![itf] = Tail(@)]
  <1>1. IsSeq(Tail(cs[itf]))
    BY SeqShrunk DEF CommandsTyped
  <1>2. \A i \in Ses!Interface : new[i] = IF i = itf THEN Tail(cs[itf]) ELSE cs[i]
    BY DEF CommandsTyped
  <1>3. new = [i \in Ses!Interface |-> new[i]]
    BY DEF CommandsTyped
  <1> HIDE DEF new
  <1>4. CommandsGiven(new, cs, itf, Tail(cs[itf]))
    BY <1>1, <1>2, <1>3 DEF CommandsTyped, CommandsGiven
  <1> QED
    BY <1>4 DEF new

-----------------------------------------------------------------------------
(* What each step does to the queues and the commands.  The session a queue   *)
(* is for, the requests in it and the commands behind them move together.     *)

Queued(type, s, reqs) == QueueGiven(requestQueues', requestQueues, type, s, reqs)
Asked(itf, cmd) == CommandsGiven(commands', commands, itf, Append(commands[itf], cmd))

LEMMA TrackingStarted ==
  ASSUME SessionTypes, Ses!locAPIStartTracking
  PROVE  /\ Queued("TRACKING", nextId, <<"StartTracking">>)
         /\ Asked("gnss", Ses!Command("start", nextId, "ON_FIX", "StartTracking"))
  <1>1. "TRACKING" \in Ses!RequestType /\ "gnss" \in Ses!Interface
    BY DEF Ses!RequestType, Ses!Interface
  <1>2. requestQueues' = [requestQueues EXCEPT !["TRACKING"] = Ses!PushOn(Ses!Reset(nextId), "StartTracking")]
    BY Zenon DEF Ses!locAPIStartTracking
  <1>3. Queued("TRACKING", nextId, <<"StartTracking">>)
    BY <1>1, <1>2, QueueOpened, Zenon DEF SessionTypes, Queued
  <1>4. PICK cmd : cmd = Ses!Command("start", nextId, "ON_FIX", "StartTracking")
    OBVIOUS
  <1>5. commands' = [commands EXCEPT !["gnss"] = @ \o <<cmd>>]
    BY <1>4, Zenon DEF Ses!locAPIStartTracking, Ses!Sent
  <1>6. Asked("gnss", cmd)
    BY <1>1, <1>5, CommandSent, Zenon DEF SessionTypes, Asked
  <1> QED
    BY <1>3, <1>4, <1>6, Zenon

LEMMA TrackingAsked ==
  ASSUME SessionTypes, NEW cmd, NEW req,
         requestQueues' = [requestQueues EXCEPT !["TRACKING"] = Ses!PushOn(@, req)],
         commands' = Ses!Sent("gnss", <<cmd>>)
  PROVE  /\ Queued("TRACKING", requestQueues["TRACKING"].session, Append(requestQueues["TRACKING"].requests, req))
         /\ Asked("gnss", cmd)
  <1>1. "TRACKING" \in Ses!RequestType /\ "gnss" \in Ses!Interface
    BY Zenon DEF Ses!RequestType, Ses!Interface
  <1>2. Queued("TRACKING", requestQueues["TRACKING"].session, Append(requestQueues["TRACKING"].requests, req))
    BY <1>1, QueuePushed, Zenon DEF SessionTypes, Queued
  <1>3. commands' = [commands EXCEPT !["gnss"] = @ \o <<cmd>>]
    BY Zenon DEF Ses!Sent
  <1>4. CommandsGiven([commands EXCEPT !["gnss"] = @ \o <<cmd>>], commands, "gnss", Append(commands["gnss"], cmd))
    BY <1>1, CommandSent, Zenon DEF SessionTypes
  <1>5. Asked("gnss", cmd)
    BY <1>3, <1>4, Zenon DEF Asked
  <1> QED
    BY <1>2, <1>5, Zenon

LEMMA NiAnswered ==
  ASSUME SessionTypes, NEW id, Ses!locAPIGnssNiResponse(id)
  PROVE  /\ Queued("NIRESPONSE", id, <<"NiResponse">>)
         /\ Asked("gnss", Ses!Command("ni", id, "ON_FIX", "NiResponse"))
  <1>1. "NIRESPONSE" \in Ses!RequestType /\ "gnss" \in Ses!Interface
    BY DEF Ses!RequestType, Ses!Interface
  <1>2. requestQueues' = [requestQueues EXCEPT !["NIRESPONSE"] = Ses!PushOn(Ses!Reset(id), "NiResponse")]
    BY Zenon DEF Ses!locAPIGnssNiResponse
  <1>3. Queued("NIRESPONSE", id, <<"NiResponse">>)
    BY <1>1, <1>2, QueueOpened, Zenon DEF SessionTypes, Queued
  <1>4. PICK cmd : cmd = Ses!Command("ni", id, "ON_FIX", "NiResponse")
    OBVIOUS
  <1>5. commands' = [commands EXCEPT !["gnss"] = @ \o <<cmd>>]
    BY <1>4, Zenon DEF Ses!locAPIGnssNiResponse, Ses!Sent
  <1>6. Asked("gnss", cmd)
    BY <1>1, <1>5, CommandSent, Zenon DEF SessionTypes, Asked
  <1> QED
    BY <1>3, <1>4, <1>6, Zenon

\* A command for the session of an id, with a request in the shared queue
LEMMA SessionAsked ==
  ASSUME SessionTypes, NEW itf \in Ses!Interface, NEW cmd, NEW s, NEW req, Ses!SessionCommand(itf, cmd, s, req)
  PROVE  /\ Queued("SESSION", requestQueues["SESSION"].session, Append(requestQueues["SESSION"].requests, req))
         /\ Asked(itf, Ses!Command(cmd, s, calling.mode, req))
  <1>1. "SESSION" \in Ses!RequestType
    BY DEF Ses!RequestType
  <1>2. requestQueues' = [requestQueues EXCEPT !["SESSION"] = Ses!PushOn(@, req)]
    BY Zenon DEF Ses!SessionCommand
  <1>3. Queued("SESSION", requestQueues["SESSION"].session, Append(requestQueues["SESSION"].requests, req))
    BY <1>1, <1>2, QueuePushed, Zenon DEF SessionTypes, Queued
  <1>4. PICK c : c = Ses!Command(cmd, s, calling.mode, req)
    OBVIOUS
  <1>5. commands' = [commands EXCEPT ![itf] = @ \o <<c>>]
    BY <1>4, Zenon DEF Ses!SessionCommand, Ses!Sent
  <1>6. Asked(itf, c)
    BY <1>5, CommandSent, Zenon DEF SessionTypes, Asked
  <1> QED
    BY <1>3, <1>4, <1>6, Zenon

LEMMA SessionStarted ==
  ASSUME SessionTypes, NEW id, NEW mode, Ses!locAPIStartSession(id, mode),
         NEW itf, itf = IF mode = "ON_FIX" THEN "gnss" ELSE "flp",
         NEW req, req = IF mode = "ON_FIX" THEN "StartTracking" ELSE "StartBatching"
  PROVE  /\ Queued("SESSION", requestQueues["SESSION"].session, Append(requestQueues["SESSION"].requests, req))
         /\ Asked(itf, Ses!Command("start", nextId, mode, req))
  <1>1. "SESSION" \in Ses!RequestType /\ itf \in Ses!Interface
    BY DEF Ses!RequestType, Ses!Interface
  <1>2. requestQueues' = [requestQueues EXCEPT !["SESSION"].requests = Append(@, req)]
    BY Zenon DEF Ses!locAPIStartSession
  <1>3. Queued("SESSION", requestQueues["SESSION"].session, Append(requestQueues["SESSION"].requests, req))
    BY <1>1, <1>2, QueueAdded, Zenon DEF SessionTypes, Queued
  <1>4. PICK cmd : cmd = Ses!Command("start", nextId, mode, req)
    OBVIOUS
  <1>5. commands' = [commands EXCEPT ![itf] = @ \o <<cmd>>]
    BY <1>4, Zenon DEF Ses!locAPIStartSession, Ses!Sent
  <1>6. Asked(itf, cmd)
    BY <1>1, <1>5, CommandSent, Zenon DEF SessionTypes, Asked
  <1> QED
    BY <1>3, <1>4, <1>6, Zenon

\* A change of the mode asks both interfaces.
LEMMA ModeChanged ==
  ASSUME SessionTypes, NEW req, NEW stopAt \in Ses!Interface, NEW s, NEW startAt \in Ses!Interface,
         stopAt # startAt, Ses!ChangedMode(req, stopAt, s, startAt)
  PROVE  /\ Queued("SESSION", requestQueues["SESSION"].session, Append(requestQueues["SESSION"].requests, req))
         /\ CommandsTyped(commands')
  <1>1. "SESSION" \in Ses!RequestType
    BY DEF Ses!RequestType
  <1>2. requestQueues' = [requestQueues EXCEPT !["SESSION"] = Ses!PushOn(@, req)]
    BY Zenon DEF Ses!ChangedMode
  <1>3. Queued("SESSION", requestQueues["SESSION"].session, Append(requestQueues["SESSION"].requests, req))
    BY <1>1, <1>2, QueuePushed, Zenon DEF SessionTypes, Queued
  <1>4. PICK a, b : /\ a = Ses!Command("stop", s, calling.mode, "none")
                    /\ b = Ses!Command("start", nextId, calling.mode, req)
    OBVIOUS
  <1>5. commands' = [commands EXCEPT ![stopAt] = Append(@, a), ![startAt] = Append(@, b)]
    BY <1>4, Zenon DEF Ses!ChangedMode
  <1>6. commands = [i \in Ses!Interface |-> commands[i]] /\ \A i \in Ses!Interface : IsSeq(commands[i])
    BY DEF SessionTypes, CommandsTyped
  <1>7. \A i \in Ses!Interface : commands'[i] \in {commands[i], Append(commands[i], a), Append(commands[i], b)}
    BY <1>5, <1>6
  <1>8. commands' = [i \in Ses!Interface |-> commands'[i]]
    BY <1>5, <1>6
  <1>9. \A i \in Ses!Interface : IsSeq(Append(commands[i], a)) /\ IsSeq(Append(commands[i], b))
    BY <1>6, SeqGrown
  <1>10. CommandsTyped(commands')
    BY <1>6, <1>7, <1>8, <1>9 DEF CommandsTyped
  <1> QED
    BY <1>3, <1>10

\* A served command is answered to the first request of a queue, or to none.
Answered(i, e, cmd, type) ==
  /\ commands[i] # <<>> /\ CommandsGiven(commands', commands, i, Tail(commands[i]))
  /\ type \in Ses!RequestType \union {"none"}
  /\ \/ /\ e = "no answer" \/ type = "none" \/ requestQueues[type].requests = <<>>
        /\ UNCHANGED <<requestQueues, popped>>
     \/ /\ e # "no answer" /\ type \in Ses!RequestType /\ requestQueues[type].requests # <<>>
        /\ Queued(type, requestQueues[type].session, Tail(requestQueues[type].requests))
        /\ popped' = [popped EXCEPT ![i] =
             [kind |-> Head(requestQueues[type].requests), session |-> cmd.session, error |-> e,
              from |-> type, answers |-> cmd]]

LEMMA CommandAnswered ==
  ASSUME SessionTypes, NEW i \in Ses!Interface, NEW e, Ses!Serve(i, e),
         NEW cmd, cmd = Head(commands[i]), NEW type, type = Ses!QueueOf(cmd.session)
  PROVE  Answered(i, e, cmd, type)
  <1>1. commands[i] # <<>> /\ commands' = [commands EXCEPT ![i] = Tail(@)]
    BY Zenon DEF Ses!Serve
  <1>2. CommandsGiven(commands', commands, i, Tail(commands[i]))
    BY <1>1, CommandServed, Zenon DEF SessionTypes
  <1>3. type \in Ses!RequestType \union {"none"}
    BY DEF Ses!QueueOf, Ses!RequestType
  <1>4. e # "no answer" => Ses!getRequestBySession(i, cmd.session, e, cmd)
    BY Zenon DEF Ses!Serve
  <1>5. e = "no answer" => UNCHANGED <<requestQueues, popped>>
    BY Zenon DEF Ses!Serve
  <1>6. CASE e = "no answer" \/ type = "none" \/ requestQueues[type].requests = <<>>
    <2>1. UNCHANGED <<requestQueues, popped>>
      BY <1>4, <1>5, <1>6, Zenon DEF Ses!getRequestBySession
    <2> QED
      BY <1>1, <1>2, <1>3, <1>6, <2>1, Zenon DEF Answered
  <1>7. CASE e # "no answer" /\ type # "none" /\ requestQueues[type].requests # <<>>
    <2>1. /\ requestQueues' = [requestQueues EXCEPT ![type].requests = Tail(@)]
          /\ popped' = [popped EXCEPT ![i] =
               [kind |-> Head(requestQueues[type].requests), session |-> cmd.session, error |-> e,
                from |-> type, answers |-> cmd]]
      BY <1>4, <1>7, Zenon DEF Ses!getRequestBySession
    <2>2. type \in Ses!RequestType
      BY <1>3, <1>7
    <2>3. Queued(type, requestQueues[type].session, Tail(requestQueues[type].requests))
      BY <1>7, <2>1, <2>2, QueuePopped, Zenon DEF SessionTypes, Queued
    <2> QED
      BY <1>1, <1>2, <1>7, <2>1, <2>2, <2>3, Zenon DEF Answered
  <1> QED
    BY <1>6, <1>7, Zenon

\* A client that does not track has requests in the shared queue only.
ByIdInv ==
  usage # "gnss_hal" =>
    /\ requestQueues["TRACKING"].session = 0 /\ requestQueues["TRACKING"].requests = <<>>
    /\ requestQueues["NIRESPONSE"].requests = <<>>
    /\ \A i \in Ses!Interface : popped[i] # Ses!Idle => popped[i].from = "SESSION"

LEMMA ServedTypes ==
  ASSUME SessionTypes, ByIdInv, NEW i \in Ses!Interface, NEW e, Ses!Serve(i, e)
  PROVE  SessionTypes' /\ ByIdInv'
  <1>1. PICK cmd : cmd = Head(commands[i])
    OBVIOUS
  <1>2. PICK type : type = Ses!QueueOf(cmd.session)
    OBVIOUS
  <1>3. usage' = usage /\ nextId' = nextId
    BY Zenon DEF Ses!Serve
  <1>4. Answered(i, e, cmd, type)
    BY <1>1, <1>2, CommandAnswered, Zenon
  <1>5. CASE UNCHANGED <<requestQueues, popped>>
    BY <1>3, <1>4, <1>5 DEF SessionTypes, ByIdInv, CommandsGiven, Answered
  <1>6. CASE /\ type \in Ses!RequestType /\ requestQueues[type].requests # <<>>
             /\ Queued(type, requestQueues[type].session, Tail(requestQueues[type].requests))
             /\ popped' = [popped EXCEPT ![i] =
                  [kind |-> Head(requestQueues[type].requests), session |-> cmd.session, error |-> e,
                   from |-> type, answers |-> cmd]]
    <2>1. PICK p : p = [kind |-> Head(requestQueues[type].requests), session |-> cmd.session, error |-> e,
                        from |-> type, answers |-> cmd]
      OBVIOUS
    <2>2. p.from = type
      BY <2>1
    <2>3. popped' = [popped EXCEPT ![i] = p]
      BY <1>6, <2>1, Zenon
    <2>4. /\ popped' = [j \in Ses!Interface |-> popped'[j]]
          /\ popped'[i] = p /\ \A j \in Ses!Interface \ {i} : popped'[j] = popped[j]
      BY <2>3 DEF SessionTypes
    <2>5. SessionTypes'
      BY <1>3, <1>4, <1>6, <2>4 DEF SessionTypes, CommandsGiven, Queued, QueueGiven, Answered
    <2>6. ASSUME usage # "gnss_hal"
          PROVE  ByIdInv'
      <3>1. type = "SESSION"
        BY <1>2, <1>6, <2>6 DEF Ses!QueueOf, ByIdInv, Ses!RequestType
      <3> QED
        BY <1>3, <1>6, <2>2, <2>4, <3>1 DEF ByIdInv, Queued, QueueGiven, Ses!RequestType
    <2> QED
      BY <1>3, <2>5, <2>6 DEF ByIdInv
  <1> QED
    BY <1>4, <1>5, <1>6, Zenon DEF Answered

LEMMA SessionTypesStep ==
  ASSUME SessionTypes, ByIdInv, [Ses!Next]_sessionVars
  PROVE  SessionTypes' /\ ByIdInv'
  <1>1. CASE /\ usage' = usage /\ popped' = popped /\ nextId' \in {nextId, nextId + 1}
             /\ CommandsTyped(commands')
             /\ \/ requestQueues' = requestQueues
                \/ \E reqs : Queued("SESSION", requestQueues["SESSION"].session, reqs)
    <2>1. nextId' \in Nat \ {0}
      BY <1>1 DEF SessionTypes
    <2>2. SessionTypes'
      BY <1>1, <2>1 DEF SessionTypes, Queued, QueueGiven
    <2>3. /\ requestQueues'["TRACKING"] = requestQueues["TRACKING"]
          /\ requestQueues'["NIRESPONSE"] = requestQueues["NIRESPONSE"]
      BY <1>1 DEF Queued, QueueGiven, Ses!RequestType
    <2> QED
      BY <1>1, <2>2, <2>3 DEF ByIdInv
  <1>2. CASE /\ usage' = usage /\ commands' = commands /\ requestQueues' = requestQueues
             /\ nextId' = nextId /\ popped' = [i \in Ses!Interface |-> popped'[i]]
             /\ \A i \in Ses!Interface : popped'[i] \in {popped[i], Ses!Idle}
    BY <1>2 DEF SessionTypes, ByIdInv
  <1>3. CASE /\ usage = "gnss_hal" /\ usage' = usage /\ popped' = popped
             /\ nextId' \in {nextId, nextId + 1} /\ CommandsTyped(commands')
             /\ QueuesTyped(requestQueues')
    <2>1. nextId' \in Nat \ {0}
      BY <1>3 DEF SessionTypes
    <2> QED
      BY <1>3, <2>1 DEF SessionTypes, ByIdInv
  <1>4. CASE Ses!locAPISetCallbacks \/ Ses!UpdateEntry \/ UNCHANGED sessionVars
    BY <1>1, <1>4 DEF Ses!locAPISetCallbacks, Ses!UpdateEntry, sessionVars, SessionTypes
  <1>5. ASSUME NEW id, NEW call, NEW mode, Ses!FindSession(id, call, mode)
        PROVE  SessionTypes' /\ ByIdInv'
    BY <1>1, <1>5 DEF Ses!FindSession, SessionTypes
  <1>6. CASE Ses!locAPIStartTracking
    <2>1. usage = "gnss_hal" /\ usage' = usage /\ popped' = popped /\ nextId' = nextId + 1
      BY <1>6, Zenon DEF Ses!locAPIStartTracking
    <2>2. CommandsTyped(commands') /\ QueuesTyped(requestQueues')
      BY <1>6, TrackingStarted, Zenon DEF Queued, Asked, QueueGiven, CommandsGiven
    <2> QED
      BY <1>3, <2>1, <2>2
  <1>7. CASE Ses!locAPIStopTracking
    <2>1. requestQueues["TRACKING"].session > 0 /\ usage' = usage /\ popped' = popped /\ nextId' = nextId
      BY <1>7, Zenon DEF Ses!locAPIStopTracking
    <2>2. usage = "gnss_hal"
      BY <2>1 DEF ByIdInv
    <2>3. CommandsTyped(commands') /\ QueuesTyped(requestQueues')
      BY <1>7, TrackingAsked, Zenon DEF Ses!locAPIStopTracking, Queued, Asked, QueueGiven, CommandsGiven
    <2> QED
      BY <1>3, <2>1, <2>2, <2>3
  <1>8. CASE Ses!locAPIUpdateTrackingOptions
    <2>1. requestQueues["TRACKING"].session > 0 /\ usage' = usage /\ popped' = popped /\ nextId' = nextId
      BY <1>8, Zenon DEF Ses!locAPIUpdateTrackingOptions
    <2>2. usage = "gnss_hal"
      BY <2>1 DEF ByIdInv
    <2>3. CommandsTyped(commands') /\ QueuesTyped(requestQueues')
      BY <1>8, TrackingAsked, Zenon DEF Ses!locAPIUpdateTrackingOptions, Queued, Asked, QueueGiven, CommandsGiven
    <2> QED
      BY <1>3, <2>1, <2>2, <2>3
  <1>9. ASSUME NEW id, Ses!locAPIGnssNiResponse(id)
        PROVE  SessionTypes' /\ ByIdInv'
    <2>1. usage = "gnss_hal" /\ usage' = usage /\ popped' = popped /\ nextId' = nextId
      BY <1>9, Zenon DEF Ses!locAPIGnssNiResponse
    <2>2. CommandsTyped(commands') /\ QueuesTyped(requestQueues')
      BY <1>9, NiAnswered, Zenon DEF Queued, Asked, QueueGiven, CommandsGiven
    <2> QED
      BY <1>3, <2>1, <2>2
  <1>10. ASSUME NEW id, NEW mode, Ses!locAPIStartSession(id, mode)
         PROVE  SessionTypes' /\ ByIdInv'
    <2>1. usage' = usage /\ popped' = popped /\ nextId' = nextId + 1
      BY <1>10, Zenon DEF Ses!locAPIStartSession
    <2>2. PICK itf, req : /\ itf = IF mode = "ON_FIX" THEN "gnss" ELSE "flp"
                          /\ req = IF mode = "ON_FIX" THEN "StartTracking" ELSE "StartBatching"
      OBVIOUS
    <2>3. CommandsTyped(commands') /\ Queued("SESSION", requestQueues["SESSION"].session, Append(requestQueues["SESSION"].requests, req))
      BY <1>10, <2>2, SessionStarted, Zenon DEF Asked, CommandsGiven
    <2> QED
      BY <1>1, <2>1, <2>3
  <1>11. "gnss" \in Ses!Interface /\ "flp" \in Ses!Interface /\ "gnss" # "flp"
    BY DEF Ses!Interface
  <1>12. ASSUME NEW itf \in Ses!Interface, NEW cmd, NEW s, NEW req, Ses!SessionCommand(itf, cmd, s, req)
         PROVE  /\ CommandsTyped(commands')
                /\ \E reqs : Queued("SESSION", requestQueues["SESSION"].session, reqs)
    BY <1>12, SessionAsked, Zenon DEF Asked, CommandsGiven
  <1>13. CASE Ses!locAPIStopSession
    <2>1. usage' = usage /\ popped' = popped /\ nextId' = nextId
      BY <1>13, Zenon DEF Ses!locAPIStopSession
    <2>2. CommandsTyped(commands') /\ \E reqs : Queued("SESSION", requestQueues["SESSION"].session, reqs)
      BY <1>11, <1>12, <1>13, Zenon DEF Ses!locAPIStopSession
    <2> QED
      BY <1>1, <2>1, <2>2
  <1>14. CASE Ses!locAPIGetBatchedLocations
    <2>1. usage' = usage /\ popped' = popped /\ nextId' = nextId
      BY <1>14, Zenon DEF Ses!locAPIGetBatchedLocations
    <2>2. CASE UNCHANGED <<requestQueues, commands>>
      BY <1>1, <2>1, <2>2 DEF SessionTypes
    <2>3. CASE Ses!SessionCommand("flp", "flush", Ses!Found.batchingSession, "GetBatchedLocations")
      <3>1. CommandsTyped(commands') /\ \E reqs : Queued("SESSION", requestQueues["SESSION"].session, reqs)
        BY <1>11, <1>12, <2>3, Zenon
      <3> QED
        BY <1>1, <2>1, <3>1
    <2> QED
      BY <1>14, <2>2, <2>3 DEF Ses!locAPIGetBatchedLocations
  <1>15. CASE Ses!locAPIUpdateSessionOptions
    <2>1. usage' = usage /\ popped' = popped
      BY <1>15, Zenon DEF Ses!locAPIUpdateSessionOptions
    <2>2. nextId' \in {nextId, nextId + 1}
      BY <1>15 DEF Ses!locAPIUpdateSessionOptions, Ses!UpdateCommands, Ses!ChangedMode
    <2>3. CommandsTyped(commands') /\ \E reqs : Queued("SESSION", requestQueues["SESSION"].session, reqs)
      BY <1>11, <1>12, <1>15, ModeChanged, Zenon DEF Ses!locAPIUpdateSessionOptions, Ses!UpdateCommands
    <2> QED
      BY <1>1, <2>1, <2>2, <2>3
  <1>16. ASSUME NEW i, Ses!onResponse(i)
         PROVE  SessionTypes' /\ ByIdInv'
    BY <1>2, <1>16 DEF Ses!onResponse, SessionTypes
  <1>17. ASSUME NEW s, Ses!beforeBatchingStatusCb(s)
         PROVE  SessionTypes' /\ ByIdInv'
    BY <1>1, <1>17 DEF Ses!beforeBatchingStatusCb, SessionTypes
  <1>18. CASE Ses!ClientStep
    BY <1>4, <1>5, <1>6, <1>7, <1>8, <1>9, <1>10, <1>13, <1>14, <1>15, <1>18 DEF Ses!ClientStep
  <1>19. CASE Ses!InterfaceStep
    BY <1>16, <1>17, <1>19, ServedTypes DEF Ses!InterfaceStep
  <1> QED
    BY <1>4, <1>18, <1>19 DEF Ses!Next

-----------------------------------------------------------------------------
(* The tracking session.  Its requests are those of the commands that name it, *)
(* in order: they are at the positions f.                                      *)

InStep(reqs, cmds, s, f) ==
  /\ f \in [1 .. Len(reqs) -> 1 .. Len(cmds)]
  /\ \A j, k \in 1 .. Len(reqs) : j < k => f[j] < f[k]
  /\ \A k \in 1 .. Len(reqs) : cmds[f[k]].session = s /\ reqs[k] = cmds[f[k]].req
  /\ \A j \in 1 .. Len(cmds) : cmds[j].session = s => \E k \in 1 .. Len(reqs) : f[k] = j

Aligned(reqs, cmds, s) == \E f : InStep(reqs, cmds, s, f)

\* The first command is the session's, and so is the first request.
LEMMA AlignedOwn ==
  ASSUME NEW cmds, IsSeq(cmds), cmds # <<>>, NEW reqs, IsSeq(reqs), Aligned(reqs, cmds, cmds[1].session)
  PROVE  /\ reqs # <<>> /\ reqs[1] = cmds[1].req
         /\ Aligned(Tail(reqs), Tail(cmds), cmds[1].session)
  <1> DEFINE n == Len(cmds)
             m == Len(reqs)
             s == cmds[1].session
  <1>1. /\ n \in Nat /\ n >= 1 /\ Len(Tail(cmds)) = n - 1
        /\ \A k \in 1 .. n - 1 : Tail(cmds)[k] = cmds[k + 1]
    BY SeqShrunk
  <1>2. m \in Nat
    BY DEF IsSeq
  <1>3. PICK f : InStep(reqs, cmds, s, f)
    BY DEF Aligned
  <1>4. /\ f \in [1 .. m -> 1 .. n] /\ \A j, k \in 1 .. m : j < k => f[j] < f[k]
        /\ \A k \in 1 .. m : cmds[f[k]].session = s /\ reqs[k] = cmds[f[k]].req
        /\ \A j \in 1 .. n : cmds[j].session = s => \E k \in 1 .. m : f[k] = j
    BY <1>3 DEF InStep
  <1> HIDE DEF n, m
  <1>5. PICK k \in 1 .. m : f[k] = 1
    BY <1>1, <1>4
  <1>6. m >= 1 /\ f[1] = 1
    <2>1. m >= 1 /\ 1 \in 1 .. m
      BY <1>2, <1>5
    <2>2. f[1] \in 1 .. n
      BY <1>4, <2>1
    <2>3. k = 1 \/ f[1] < f[k]
      BY <1>2, <1>4, <1>5, <2>1
    <2> QED
      BY <1>1, <1>5, <2>1, <2>2, <2>3
  <1>7. reqs # <<>> /\ reqs[1] = cmds[1].req
    BY <1>2, <1>4, <1>6 DEF m
  <1>8. Len(Tail(reqs)) = m - 1 /\ \A j \in 1 .. m - 1 : Tail(reqs)[j] = reqs[j + 1]
    BY <1>7, SeqShrunk DEF m
  <1>9. PICK g : g = [j \in 1 .. m - 1 |-> f[j + 1] - 1]
    OBVIOUS
  <1>10. \A j \in 1 .. m - 1 : /\ j + 1 \in 1 .. m /\ f[j + 1] \in 2 .. n
                               /\ g[j] = f[j + 1] - 1 /\ g[j] \in 1 .. n - 1 /\ g[j] + 1 = f[j + 1]
    <2> SUFFICES ASSUME NEW j \in 1 .. m - 1
                 PROVE  /\ j + 1 \in 1 .. m /\ f[j + 1] \in 2 .. n
                        /\ g[j] = f[j + 1] - 1 /\ g[j] \in 1 .. n - 1 /\ g[j] + 1 = f[j + 1]
      OBVIOUS
    <2>1. j + 1 \in 1 .. m /\ 1 \in 1 .. m /\ 1 < j + 1
      BY <1>2
    <2>2. f[j + 1] \in 1 .. n /\ f[1] < f[j + 1]
      BY <1>4, <2>1
    <2> QED
      BY <1>1, <1>6, <1>9, <2>1, <2>2
  <1>11. g \in [1 .. m - 1 -> 1 .. n - 1]
    BY <1>9, <1>10
  <1>12. \A j, l \in 1 .. m - 1 : j < l => g[j] < g[l]
    <2> SUFFICES ASSUME NEW j \in 1 .. m - 1, NEW l \in 1 .. m - 1, j < l
                 PROVE  g[j] < g[l]
      OBVIOUS
    <2>1. f[j + 1] < f[l + 1]
      BY <1>2, <1>4, <1>10
    <2> QED
      BY <1>1, <1>10, <2>1
  <1>13. \A j \in 1 .. m - 1 : Tail(cmds)[g[j]].session = s /\ Tail(reqs)[j] = Tail(cmds)[g[j]].req
    BY <1>1, <1>4, <1>8, <1>10
  <1>14. ASSUME NEW j \in 1 .. n - 1, Tail(cmds)[j].session = s
         PROVE  \E l \in 1 .. m - 1 : g[l] = j
    <2>1. j + 1 \in 1 .. n /\ cmds[j + 1].session = s
      BY <1>1, <1>14
    <2>2. PICK l \in 1 .. m : f[l] = j + 1
      BY <1>4, <2>1
    <2>3. l # 1
      BY <1>6, <2>2
    <2>4. l - 1 \in 1 .. m - 1 /\ (l - 1) + 1 = l
      BY <1>2, <2>3
    <2>5. g[l - 1] = j
      BY <1>9, <2>2, <2>4
    <2> QED
      BY <2>4, <2>5
  <1>15. InStep(Tail(reqs), Tail(cmds), s, g)
    BY <1>1, <1>8, <1>11, <1>12, <1>13, <1>14 DEF InStep
  <1> QED
    BY <1>7, <1>15 DEF Aligned

\* The first command is not the session's.
LEMMA AlignedOther ==
  ASSUME NEW cmds, IsSeq(cmds), cmds # <<>>, NEW reqs, NEW s, cmds[1].session # s, Aligned(reqs, cmds, s)
  PROVE  Aligned(reqs, Tail(cmds), s)
  <1> DEFINE n == Len(cmds)
             m == Len(reqs)
  <1>1. /\ n \in Nat /\ n >= 1 /\ Len(Tail(cmds)) = n - 1
        /\ \A k \in 1 .. n - 1 : Tail(cmds)[k] = cmds[k + 1]
    BY SeqShrunk
  <1>2. PICK f : InStep(reqs, cmds, s, f)
    BY DEF Aligned
  <1>3. /\ f \in [1 .. m -> 1 .. n] /\ \A j, k \in 1 .. m : j < k => f[j] < f[k]
        /\ \A k \in 1 .. m : cmds[f[k]].session = s /\ reqs[k] = cmds[f[k]].req
        /\ \A j \in 1 .. n : cmds[j].session = s => \E k \in 1 .. m : f[k] = j
    BY <1>2 DEF InStep
  <1> HIDE DEF n
  <1>4. PICK g : g = [j \in 1 .. m |-> f[j] - 1]
    OBVIOUS
  <1> HIDE DEF m
  <1>5. \A j \in 1 .. m : f[j] \in 2 .. n /\ g[j] = f[j] - 1 /\ g[j] \in 1 .. n - 1 /\ g[j] + 1 = f[j]
    <2> SUFFICES ASSUME NEW j \in 1 .. m
                 PROVE  f[j] \in 2 .. n /\ g[j] = f[j] - 1 /\ g[j] \in 1 .. n - 1 /\ g[j] + 1 = f[j]
      OBVIOUS
    <2>1. f[j] \in 1 .. n /\ f[j] # 1
      BY <1>3
    <2> QED
      BY <1>1, <1>4, <2>1
  <1>6. g \in [1 .. m -> 1 .. n - 1]
    BY <1>4, <1>5
  <1>7. \A j, l \in 1 .. m : j < l => g[j] < g[l]
    <2> SUFFICES ASSUME NEW j \in 1 .. m, NEW l \in 1 .. m, j < l
                 PROVE  g[j] < g[l]
      OBVIOUS
    <2>1. f[j] < f[l]
      BY <1>3
    <2> QED
      BY <1>1, <1>5, <2>1
  <1>8. \A j \in 1 .. m : Tail(cmds)[g[j]].session = s /\ reqs[j] = Tail(cmds)[g[j]].req
    BY <1>1, <1>3, <1>5
  <1>9. ASSUME NEW j \in 1 .. n - 1, Tail(cmds)[j].session = s
        PROVE  \E l \in 1 .. m : g[l] = j
    <2>1. j + 1 \in 1 .. n /\ cmds[j + 1].session = s
      BY <1>1, <1>9
    <2>2. PICK l \in 1 .. m : f[l] = j + 1
      BY <1>3, <2>1
    <2> QED
      BY <1>5, <2>2
  <1>10. InStep(reqs, Tail(cmds), s, g)
    BY <1>1, <1>6, <1>7, <1>8, <1>9 DEF InStep, m
  <1> QED
    BY <1>10 DEF Aligned

\* A command is asked for the session, with its request.
LEMMA AlignedAsked ==
  ASSUME NEW cmds, IsSeq(cmds), NEW reqs, IsSeq(reqs), NEW cmd, Aligned(reqs, cmds, cmd.session)
  PROVE  Aligned(Append(reqs, cmd.req), Append(cmds, cmd), cmd.session)
  <1> DEFINE n == Len(cmds)
             m == Len(reqs)
             s == cmd.session
             c == Append(cmds, cmd)
             r == Append(reqs, cmd.req)
  <1>1. /\ n \in Nat /\ Len(c) = n + 1 /\ \A k \in 1 .. n : c[k] = cmds[k]
        /\ c[n + 1] = cmd
    BY SeqGrown
  <1>2. /\ m \in Nat /\ Len(r) = m + 1 /\ \A k \in 1 .. m : r[k] = reqs[k]
        /\ r[m + 1] = cmd.req
    BY SeqGrown
  <1>3. PICK f : InStep(reqs, cmds, s, f)
    BY DEF Aligned
  <1>4. /\ f \in [1 .. m -> 1 .. n] /\ \A j, k \in 1 .. m : j < k => f[j] < f[k]
        /\ \A k \in 1 .. m : cmds[f[k]].session = s /\ reqs[k] = cmds[f[k]].req
        /\ \A j \in 1 .. n : cmds[j].session = s => \E k \in 1 .. m : f[k] = j
    BY <1>3 DEF InStep
  <1> HIDE DEF n, m, c, r
  <1>5. PICK g : g = [j \in 1 .. m + 1 |-> IF j \in 1 .. m THEN f[j] ELSE n + 1]
    OBVIOUS
  <1>6. \A j : j \in 1 .. m + 1 <=> j \in 1 .. m \/ j = m + 1
    BY <1>2
  <1>7. \A j : j \in 1 .. n + 1 <=> j \in 1 .. n \/ j = n + 1
    BY <1>1
  <1>8. (\A j \in 1 .. m : g[j] = f[j]) /\ g[m + 1] = n + 1
    BY <1>2, <1>5
  <1>9. g \in [1 .. m + 1 -> 1 .. n + 1]
    <2>1. \A j \in 1 .. m + 1 : g[j] \in 1 .. n + 1
      BY <1>4, <1>6, <1>7, <1>8
    <2> QED
      BY <1>5, <2>1
  <1>10. \A j, l \in 1 .. m + 1 : j < l => g[j] < g[l]
    <2> SUFFICES ASSUME NEW j \in 1 .. m + 1, NEW l \in 1 .. m + 1, j < l
                 PROVE  g[j] < g[l]
      OBVIOUS
    <2>1. j \in 1 .. m /\ f[j] \in 1 .. n
      BY <1>2, <1>4
    <2>2. CASE l \in 1 .. m
      BY <1>4, <1>8, <2>1, <2>2
    <2>3. CASE l = m + 1
      BY <1>1, <1>8, <2>1, <2>3
    <2> QED
      BY <1>6, <2>2, <2>3
  <1>11. \A j \in 1 .. m + 1 : c[g[j]].session = s /\ r[j] = c[g[j]].req
    <2> SUFFICES ASSUME NEW j \in 1 .. m + 1
                 PROVE  c[g[j]].session = s /\ r[j] = c[g[j]].req
      OBVIOUS
    <2>1. CASE j \in 1 .. m
      <3>1. g[j] = f[j] /\ f[j] \in 1 .. n
        BY <1>4, <1>8, <2>1
      <3>2. c[g[j]] = cmds[f[j]] /\ r[j] = reqs[j]
        BY <1>1, <1>2, <2>1, <3>1
      <3> QED
        BY <1>4, <2>1, <3>2
    <2>2. CASE j = m + 1
      <3>1. c[g[j]] = cmd /\ r[j] = cmd.req
        BY <1>1, <1>2, <1>8, <2>2
      <3> QED
        BY <3>1
    <2> QED
      BY <1>6, <2>1, <2>2
  <1>12. \A j \in 1 .. n + 1 : c[j].session = s => \E l \in 1 .. m + 1 : g[l] = j
    BY <1>1, <1>4, <1>6, <1>7, <1>8
  <1>13. InStep(r, c, s, g)
    BY <1>1, <1>2, <1>9, <1>10, <1>11, <1>12 DEF InStep
  <1> QED
    BY <1>13 DEF Aligned, c, r

\* A command is asked for another session.
LEMMA AlignedPassed ==
  ASSUME NEW cmds, IsSeq(cmds), NEW reqs, NEW cmd, NEW s, cmd.session # s, Aligned(reqs, cmds, s)
  PROVE  Aligned(reqs, Append(cmds, cmd), s)
  <1> DEFINE n == Len(cmds)
             m == Len(reqs)
             c == Append(cmds, cmd)
  <1>1. /\ n \in Nat /\ Len(c) = n + 1 /\ \A k \in 1 .. n : c[k] = cmds[k]
        /\ c[n + 1] = cmd
    BY SeqGrown
  <1>2. PICK f : InStep(reqs, cmds, s, f)
    BY DEF Aligned
  <1>3. /\ f \in [1 .. m -> 1 .. n] /\ \A j, k \in 1 .. m : j < k => f[j] < f[k]
        /\ \A k \in 1 .. m : cmds[f[k]].session = s /\ reqs[k] = cmds[f[k]].req
        /\ \A j \in 1 .. n : cmds[j].session = s => \E k \in 1 .. m : f[k] = j
    BY <1>2 DEF InStep
  <1> HIDE DEF n, c
  <1>4. \A j : j \in 1 .. n + 1 <=> j \in 1 .. n \/ j = n + 1
    BY <1>1
  <1>5. f \in [1 .. m -> 1 .. n + 1]
    BY <1>3, <1>4
  <1>6. InStep(reqs, c, s, f)
    BY <1>1, <1>3, <1>4, <1>5 DEF InStep
  <1> QED
    BY <1>6 DEF Aligned, c

\* The first command of a session
LEMMA AlignedFirst ==
  ASSUME NEW cmds, IsSeq(cmds), NEW cmd, \A k \in 1 .. Len(cmds) : cmds[k].session # cmd.session
  PROVE  Aligned(<<cmd.req>>, Append(cmds, cmd), cmd.session)
  <1>1. InStep(<<>>, cmds, cmd.session, <<>>)
    BY DEF InStep
  <1>2. Aligned(<<>>, cmds, cmd.session)
    BY <1>1 DEF Aligned
  <1>3. IsSeq(<<>>) /\ Append(<<>>, cmd.req) = <<cmd.req>>
    BY DEF IsSeq
  <1> QED
    BY <1>2, <1>3, AlignedAsked

-----------------------------------------------------------------------------
(* The GNSS interface starts a session before it gets the other commands for *)
(* it, and runs none the client has forgotten.                               *)

StartAt(cmds, s, k) == k \in 1 .. Len(cmds) /\ cmds[k].cmd = "start" /\ cmds[k].session = s
StopAt(cmds, s, k) == k \in 1 .. Len(cmds) /\ cmds[k].cmd = "stop" /\ cmds[k].session = s

\* The session runs, or will.
Lives(cmds, run, s) == s \in run \/ \E k : StartAt(cmds, s, k)

TrackingCommand(cmd, next) ==
  \/ cmd.cmd = "ni" /\ cmd.session \in NiIds /\ cmd.req = "NiResponse"
  \/ cmd.cmd \in {"start", "stop", "update"} /\ cmd.session \in 1 .. next - 1

\* run: the sessions that run, watched: the one the client tracks, or 0,
\* lost: those that a stop did not end
TrackingCommands(cmds, run, watched, next, lost) ==
  /\ run \subseteq 1 .. next - 1
  /\ \A k \in 1 .. Len(cmds) : TrackingCommand(cmds[k], next)
  /\ \A s, k : StartAt(cmds, s, k) =>
       /\ s \notin run
       /\ \A j \in 1 .. k - 1 : cmds[j].session = s => cmds[j].cmd = "ni"
       /\ s = watched \/ \E j : j > k /\ StopAt(cmds, s, j)
  /\ \A s \in run : s = watched \/ (\E k : StopAt(cmds, s, k)) \/ s \in lost

\* Another command for a session that was given out, or a network-initiated response
LEMMA CommandAdded ==
  ASSUME NEW next \in Nat \ {0}, NEW cmds, IsSeq(cmds), NEW run, NEW watched, NEW after, NEW lost,
         TrackingCommands(cmds, run, watched, next, lost),
         NEW cmd, TrackingCommand(cmd, next), cmd.cmd # "start",
         after = watched \/ (cmd.cmd = "stop" /\ cmd.session = watched)
  PROVE  /\ TrackingCommands(Append(cmds, cmd), run, after, next, lost)
         /\ \A s : Lives(Append(cmds, cmd), run, s) => Lives(cmds, run, s)
  <1> DEFINE n == Len(cmds)
             c == Append(cmds, cmd)
  <1>1. /\ n \in Nat /\ Len(c) = n + 1 /\ \A k \in 1 .. n : c[k] = cmds[k]
        /\ c[n + 1] = cmd
    BY SeqGrown
  <1> HIDE DEF n, c
  <1>2. \A j : j \in 1 .. n + 1 <=> j \in 1 .. n \/ j = n + 1
    BY <1>1
  <1>3. \A s, k : StartAt(c, s, k) <=> StartAt(cmds, s, k)
    BY <1>1, <1>2 DEF StartAt, n
  <1>4. \A s, k : StopAt(cmds, s, k) => StopAt(c, s, k)
    BY <1>1, <1>2 DEF StopAt, n
  <1>5. \A s, k : StartAt(c, s, k) =>
          k \in 1 .. n /\ \A j \in 1 .. k - 1 : j \in 1 .. n /\ c[j] = cmds[j]
    BY <1>1, <1>3 DEF StartAt, n
  <1>6. after # watched => StopAt(c, watched, n + 1) /\ \A k \in 1 .. n : n + 1 > k
    BY <1>1 DEF StopAt
  <1>7. \A k \in 1 .. Len(c) : TrackingCommand(c[k], next)
    BY <1>1, <1>2 DEF TrackingCommands, n
  <1>8. ASSUME NEW s, NEW k, StartAt(c, s, k)
        PROVE  /\ s \notin run
               /\ \A j \in 1 .. k - 1 : c[j].session = s => c[j].cmd = "ni"
               /\ s = after \/ \E j : j > k /\ StopAt(c, s, j)
    <2>1. StartAt(cmds, s, k)
      BY <1>3, <1>8
    <2>2. /\ s \notin run
          /\ \A j \in 1 .. k - 1 : cmds[j].session = s => cmds[j].cmd = "ni"
          /\ s = watched \/ \E j : j > k /\ StopAt(cmds, s, j)
      BY <2>1 DEF TrackingCommands
    <2> QED
      BY <1>4, <1>5, <1>6, <1>8, <2>2
  <1>9. \A s \in run : s = after \/ (\E k : StopAt(c, s, k)) \/ s \in lost
    BY <1>4, <1>6 DEF TrackingCommands
  <1>10. TrackingCommands(c, run, after, next, lost)
    BY <1>7, <1>8, <1>9 DEF TrackingCommands
  <1> QED
    BY <1>3, <1>10 DEF Lives, c

\* A session is started when none is tracked.
LEMMA StartAdded ==
  ASSUME NEW next \in Nat \ {0}, NEW cmds, IsSeq(cmds), NEW run, NEW lost,
         TrackingCommands(cmds, run, 0, next, lost),
         NEW cmd, cmd.cmd = "start", cmd.session = next
  PROVE  TrackingCommands(Append(cmds, cmd), run, next, next + 1, lost)
  <1> DEFINE n == Len(cmds)
             c == Append(cmds, cmd)
  <1>1. /\ n \in Nat /\ Len(c) = n + 1 /\ \A k \in 1 .. n : c[k] = cmds[k]
        /\ c[n + 1] = cmd
    BY SeqGrown
  <1> HIDE DEF n, c
  <1>2. \A j : j \in 1 .. n + 1 <=> j \in 1 .. n \/ j = n + 1
    BY <1>1
  <1>3. \A s : s \in 1 .. next - 1 => s \in 1 .. (next + 1) - 1 /\ s # next /\ s # 0
    OBVIOUS
  <1>4. \A s, k : StartAt(c, s, k) <=> StartAt(cmds, s, k) \/ (s = next /\ k = n + 1)
    BY <1>1, <1>2 DEF StartAt, n
  <1>5. \A s, k : StopAt(cmds, s, k) => StopAt(c, s, k)
    BY <1>1, <1>2 DEF StopAt, n
  <1>6. \A k \in 1 .. n : TrackingCommand(cmds[k], next)
    BY DEF TrackingCommands, n
  <1>7. \A k \in 1 .. n : TrackingCommand(cmds[k], next + 1)
    BY <1>3, <1>6 DEF TrackingCommand
  <1>8. next \in 1 .. (next + 1) - 1
    OBVIOUS
  <1>9. \A k \in 1 .. Len(c) : TrackingCommand(c[k], next + 1)
    BY <1>1, <1>2, <1>7, <1>8 DEF TrackingCommand
  <1>10. \A k \in 1 .. n : cmds[k].session = next => cmds[k].cmd = "ni"
    BY <1>3, <1>6 DEF TrackingCommand
  <1>11. ASSUME NEW s, NEW k, StartAt(c, s, k)
         PROVE  /\ s \notin run
                /\ \A j \in 1 .. k - 1 : c[j].session = s => c[j].cmd = "ni"
                /\ s = next \/ \E j : j > k /\ StopAt(c, s, j)
    <2>1. CASE StartAt(cmds, s, k)
      <3>1. k \in 1 .. n /\ \A j \in 1 .. k - 1 : j \in 1 .. n /\ c[j] = cmds[j]
        BY <1>1, <2>1 DEF StartAt, n
      <3>2. s \in 1 .. next - 1
        BY <1>6, <2>1 DEF TrackingCommand, StartAt, n
      <3>3. /\ s \notin run
            /\ \A j \in 1 .. k - 1 : cmds[j].session = s => cmds[j].cmd = "ni"
            /\ s = 0 \/ \E j : j > k /\ StopAt(cmds, s, j)
        BY <2>1 DEF TrackingCommands
      <3> QED
        BY <1>3, <1>5, <3>1, <3>2, <3>3
    <2>2. CASE s = next /\ k = n + 1
      <3>1. \A j \in 1 .. k - 1 : j \in 1 .. n /\ c[j] = cmds[j]
        BY <1>1, <2>2
      <3>2. s \notin run
        BY <1>3, <2>2 DEF TrackingCommands
      <3> QED
        BY <1>10, <2>2, <3>1, <3>2
    <2> QED
      BY <1>4, <1>11, <2>1, <2>2
  <1>12. \A s \in run : s \in 1 .. (next + 1) - 1 /\ ((\E k : StopAt(c, s, k)) \/ s \in lost)
    BY <1>3, <1>5 DEF TrackingCommands
  <1> QED
    BY <1>9, <1>11, <1>12 DEF TrackingCommands, c

\* The first command is served.
LEMMA CommandTaken ==
  ASSUME NEW next \in Nat \ {0}, NEW cmds, IsSeq(cmds), cmds # <<>>, NEW run, NEW watched, NEW before,
         TrackingCommands(cmds, run, watched, next, before), NEW lost, before \subseteq lost,
         NEW after, cmds[1].cmd = "start" => after \in {run, run \union {cmds[1].session}},
         cmds[1].cmd = "stop" => \/ after = run \ {cmds[1].session}
                                 \/ after = run /\ cmds[1].session \in lost,
         cmds[1].cmd \notin {"start", "stop"} => after = run
  PROVE  /\ TrackingCommands(Tail(cmds), after, watched, next, lost)
         /\ \A s : Lives(Tail(cmds), after, s) => Lives(cmds, run, s)
         /\ cmds[1].cmd # "ni" /\ cmds[1].session \notin run /\ cmds[1].cmd # "start" =>
              ~Lives(Tail(cmds), after, cmds[1].session)
  <1> DEFINE n == Len(cmds)
             c == Tail(cmds)
             s1 == cmds[1].session
  <1>1. /\ n \in Nat /\ n >= 1 /\ Len(c) = n - 1 /\ \A k \in 1 .. n - 1 : c[k] = cmds[k + 1]
    BY SeqShrunk
  <1> HIDE DEF n, c
  <1>2. \A k : k \in 1 .. n - 1 => k + 1 \in 1 .. n /\ 1 \in 1 .. (k + 1) - 1
    BY <1>1
  <1>3. \A k \in 1 .. n : k = 1 \/ (k - 1 \in 1 .. n - 1 /\ (k - 1) + 1 = k)
    BY <1>1
  <1>4. \A s, k : StartAt(c, s, k) => StartAt(cmds, s, k + 1) /\ k \in 1 .. n - 1
    BY <1>1, <1>2 DEF StartAt, n
  <1>5. \A s, k : StopAt(cmds, s, k) => k \in 1 .. n /\ (k = 1 \/ StopAt(c, s, k - 1))
    BY <1>1, <1>3 DEF StopAt, n
  <1>6. 1 \in 1 .. n
    BY <1>1
  <1>7. cmds[1].cmd = "start" => StartAt(cmds, s1, 1)
    BY <1>6 DEF StartAt, n
  <1>8. TrackingCommand(cmds[1], next)
    BY <1>6 DEF TrackingCommands, n
  <1>9. cmds[1].cmd = "start" => s1 \in 1 .. next - 1
    BY <1>8 DEF TrackingCommand
  <1>10. after \subseteq 1 .. next - 1
    BY <1>9 DEF TrackingCommands
  <1>11. \A k \in 1 .. Len(c) : TrackingCommand(c[k], next)
    BY <1>1, <1>2 DEF TrackingCommands, n
  <1>12. ASSUME NEW s, NEW k, StartAt(c, s, k)
         PROVE  /\ s \notin after
                /\ \A j \in 1 .. k - 1 : c[j].session = s => c[j].cmd = "ni"
                /\ s = watched \/ \E j : j > k /\ StopAt(c, s, j)
    <2>1. StartAt(cmds, s, k + 1) /\ k \in 1 .. n - 1
      BY <1>4, <1>12
    <2>2. /\ s \notin run
          /\ \A j \in 1 .. (k + 1) - 1 : cmds[j].session = s => cmds[j].cmd = "ni"
          /\ s = watched \/ \E j : j > k + 1 /\ StopAt(cmds, s, j)
      BY <2>1 DEF TrackingCommands
    <2>3. s1 = s => cmds[1].cmd = "ni"
      BY <1>2, <2>1, <2>2
    <2>4. s \notin after
      BY <2>2, <2>3
    <2>5. \A j \in 1 .. k - 1 : j + 1 \in 1 .. (k + 1) - 1 /\ c[j] = cmds[j + 1]
      BY <1>1, <2>1
    <2>6. \A j : j > k + 1 /\ StopAt(cmds, s, j) => j - 1 > k /\ StopAt(c, s, j - 1)
      BY <1>5, <2>1
    <2> QED
      BY <2>2, <2>4, <2>5, <2>6
  <1>13. ASSUME NEW s \in after
         PROVE  s = watched \/ (\E k : StopAt(c, s, k)) \/ s \in lost
    <2>1. CASE s \in run
      <3>1. s = watched \/ (\E k : StopAt(cmds, s, k)) \/ s \in lost
        BY <2>1 DEF TrackingCommands
      <3>2. ~StopAt(cmds, s, 1) \/ s \in lost
        BY <1>13 DEF StopAt
      <3> QED
        BY <1>5, <3>1, <3>2
    <2>2. CASE s \notin run
      <3>1. s = s1 /\ StartAt(cmds, s1, 1)
        BY <1>7, <1>13, <2>2
      <3>2. s = watched \/ \E j : j > 1 /\ StopAt(cmds, s, j)
        BY <3>1 DEF TrackingCommands
      <3> QED
        BY <1>5, <3>2
    <2> QED
      BY <2>1, <2>2
  <1>14. TrackingCommands(c, after, watched, next, lost)
    BY <1>10, <1>11, <1>12, <1>13 DEF TrackingCommands
  <1>15. \A s : Lives(c, after, s) => Lives(cmds, run, s)
    BY <1>4, <1>7 DEF Lives
  <1>16. ASSUME cmds[1].cmd # "ni", s1 \notin run, cmds[1].cmd # "start"
         PROVE  ~Lives(c, after, s1)
    <2>1. s1 \notin after
      BY <1>16
    <2>2. ASSUME NEW k, StartAt(c, s1, k)
          PROVE  FALSE
      <3>1. StartAt(cmds, s1, k + 1) /\ 1 \in 1 .. (k + 1) - 1
        BY <1>2, <1>4, <2>2
      <3> QED
        BY <1>16, <3>1 DEF TrackingCommands
    <2> QED
      BY <2>1, <2>2 DEF Lives
  <1> QED
    BY <1>14, <1>15, <1>16 DEF c

-----------------------------------------------------------------------------
(* A client that tracks.  An id it shares with a network-initiated request    *)
(* says nothing (Ambiguous); a session that has ended has nothing to answer.  *)

Tracked == requestQueues["TRACKING"].session
Watched == IF mTracking THEN Tracked ELSE 0

TrackingInv ==
  /\ dict = Ses!EmptyDict /\ calling = Ses!Idle
  /\ commands["flp"] = <<>> /\ popped["flp"] = Ses!Idle
  /\ Tracked \in 0 .. nextId - 1
  /\ requestQueues["NIRESPONSE"].session \in NiIds \union {0}
  /\ \A k \in 1 .. Len(requestQueues["NIRESPONSE"].requests) :
       requestQueues["NIRESPONSE"].requests[k] = "NiResponse"
  /\ TrackingCommands(commands["gnss"], DOMAIN running, Watched, nextId, refusedStops)
  /\ Lives(commands["gnss"], DOMAIN running, Tracked) /\ Tracked \notin NiIds =>
       Aligned(requestQueues["TRACKING"].requests, commands["gnss"], Tracked)
  /\ popped["gnss"] # Ses!Idle /\ ~Ses!Ambiguous(popped["gnss"].session) => Ses!Matches(popped["gnss"])

\* What a served command leaves running: only a session that does not run is not answered,
\* and one that a stop leaves running was refused.
LeftRunning(e, cmd, s, run, after, lost) ==
  /\ cmd.cmd = "start" => after \in {run, run \union {s}}
  /\ cmd.cmd = "stop" => after = run \ {s} \/ (after = run /\ s \in lost)
  /\ cmd.cmd \notin {"start", "stop"} => after = run
  /\ cmd.cmd \in {"stop", "update"} => (e = "no answer" <=> s \notin run)
  /\ cmd.cmd \in {"start", "ni"} => e # "no answer"

LEMMA RunningServed ==
  ASSUME NEW e, Ses!Serve("gnss", e), NEW cmd, cmd = Head(commands["gnss"])
  PROVE  /\ LeftRunning(e, cmd, cmd.session, DOMAIN running, DOMAIN running', refusedStops')
         /\ refusedStops \subseteq refusedStops'
  <1> DEFINE s == cmd.session
             run == DOMAIN running
  <1>1. e \in Ses!GnssAnswers(cmd) /\ running' = Ses!RunningAfter(cmd, e)
    BY Zenon DEF Ses!Serve, Ses!Answers
  <1>2. refusedStops' = IF cmd.cmd = "stop" /\ e = "FAILURE" THEN refusedStops \union {s} ELSE refusedStops
    BY Zenon DEF Ses!Serve
  <1>3. /\ cmd.cmd \in {"stop", "update"} => (e = "no answer" <=> s \notin run)
        /\ cmd.cmd \notin {"stop", "update"} => e # "no answer"
        /\ e \in {"SUCCESS", "FAILURE", "no answer"}
    BY <1>1 DEF Ses!GnssAnswers
  <1>4. DOMAIN Ses!Put(running, s, cmd.mode) = run \union {s} /\ DOMAIN Ses!Erase(running, s) = run \ {s}
    BY DEF Ses!Put, Ses!Erase
  <1>5. CASE e # "SUCCESS"
    <2>1. running' = running
      BY <1>1, <1>5 DEF Ses!RunningAfter
    <2> QED
      BY <1>2, <1>3, <1>5, <2>1 DEF LeftRunning
  <1>6. CASE e = "SUCCESS" /\ cmd.cmd \in {"start", "update"}
    <2>1. running' = Ses!Put(running, s, cmd.mode)
      BY <1>1, <1>6 DEF Ses!RunningAfter
    <2> QED
      BY <1>2, <1>3, <1>4, <1>6, <2>1 DEF LeftRunning
  <1>7. CASE e = "SUCCESS" /\ cmd.cmd = "stop"
    <2>1. running' = Ses!Erase(running, s)
      BY <1>1, <1>7 DEF Ses!RunningAfter
    <2> QED
      BY <1>2, <1>3, <1>4, <1>7, <2>1 DEF LeftRunning
  <1>8. CASE e = "SUCCESS" /\ cmd.cmd \notin {"start", "update", "stop"}
    <2>1. running' = running
      BY <1>1, <1>8 DEF Ses!RunningAfter
    <2> QED
      BY <1>2, <1>3, <1>8, <2>1 DEF LeftRunning
  <1> QED
    BY <1>5, <1>6, <1>7, <1>8

LEMMA TrackingServed ==
  ASSUME SessionTypes, SessionTypes', TrackingInv, NEW i \in Ses!Interface, NEW e, Ses!Serve(i, e)
  PROVE  TrackingInv'
  <1>1. i = "gnss"
    BY DEF Ses!Interface, Ses!Serve, TrackingInv
  <1>2. Ses!Serve("gnss", e) /\ "gnss" \in Ses!Interface /\ "flp" \in Ses!Interface
    BY <1>1, Zenon DEF Ses!Interface
  <1>3. PICK c : c = commands["gnss"]
    OBVIOUS
  <1>4. c # <<>> /\ IsSeq(c)
    BY <1>2, <1>3 DEF Ses!Serve, SessionTypes, CommandsTyped
  <1>5. PICK cmd : cmd = Head(commands["gnss"])
    OBVIOUS
  <1>6. cmd = c[1] /\ 1 \in 1 .. Len(c)
    BY <1>3, <1>4, <1>5, SeqShrunk
  <1>7. PICK s, run, after, w, n : /\ s = cmd.session /\ run = DOMAIN running /\ after = DOMAIN running'
                                   /\ w = Watched /\ n = nextId
    OBVIOUS
  <1>8. PICK t, rs : t = Tracked /\ rs = requestQueues["TRACKING"].requests
    OBVIOUS
  <1>9. /\ n \in Nat \ {0} /\ t \in 0 .. n - 1 /\ IsSeq(rs)
        /\ TrackingCommands(c, run, w, n, refusedStops)
        /\ (Lives(c, run, t) /\ t \notin NiIds => Aligned(rs, c, t))
    BY <1>3, <1>7, <1>8 DEF TrackingInv, SessionTypes, QueuesTyped, Ses!RequestType
  <1>10. TrackingCommand(cmd, n)
    BY <1>6, <1>9 DEF TrackingCommands
  <1>11. /\ cmd.cmd \in {"start", "stop", "update", "ni"}
         /\ cmd.cmd = "ni" => s \in NiIds /\ cmd.req = "NiResponse"
         /\ cmd.cmd # "ni" => s \in 1 .. n - 1
    BY <1>7, <1>10 DEF TrackingCommand
  <1>12. /\ cmd.cmd = "start" => after \in {run, run \union {s}}
         /\ cmd.cmd = "stop" => after = run \ {s} \/ (after = run /\ s \in refusedStops')
         /\ cmd.cmd \notin {"start", "stop"} => after = run
         /\ cmd.cmd \in {"stop", "update"} => (e = "no answer" <=> s \notin run)
         /\ cmd.cmd \in {"start", "ni"} => e # "no answer"
         /\ refusedStops \subseteq refusedStops'
    <2>1. /\ LeftRunning(e, cmd, s, run, after, refusedStops')
          /\ refusedStops \subseteq refusedStops'
      BY <1>2, <1>5, <1>7, RunningServed, Zenon
    <2> QED
      BY <2>1 DEF LeftRunning
  <1>13. /\ TrackingCommands(Tail(c), after, w, n, refusedStops')
         /\ \A x : Lives(Tail(c), after, x) => Lives(c, run, x)
         /\ cmd.cmd # "ni" /\ s \notin run /\ cmd.cmd # "start" => ~Lives(Tail(c), after, s)
    <2>1. PICK one, before, lost : one = c[1] /\ before = refusedStops /\ lost = refusedStops'
      OBVIOUS
    <2>2. /\ one.cmd = cmd.cmd /\ one.session = s
          /\ TrackingCommands(c, run, w, n, before) /\ before \subseteq lost
      BY <1>6, <1>7, <1>9, <1>12, <2>1
    <2>3. /\ one.cmd = "start" => after \in {run, run \union {one.session}}
          /\ one.cmd = "stop" => after = run \ {one.session} \/ (after = run /\ one.session \in lost)
          /\ one.cmd \notin {"start", "stop"} => after = run
      BY <1>12, <2>1, <2>2
    <2>4. /\ TrackingCommands(Tail(c), after, w, n, lost)
          /\ \A x : Lives(Tail(c), after, x) => Lives(c, run, x)
          /\ one.cmd # "ni" /\ one.session \notin run /\ one.cmd # "start" => ~Lives(Tail(c), after, one.session)
      BY <1>4, <1>9, <2>1, <2>2, <2>3, CommandTaken
    <2> QED
      BY <2>1, <2>2, <2>4
  <1>14. e # "no answer" /\ cmd.cmd # "ni" => Lives(c, run, s)
    BY <1>6, <1>7, <1>11, <1>12 DEF Lives, StartAt
  <1>15. PICK type : type = Ses!QueueOf(cmd.session)
    OBVIOUS
  <1>16. Answered("gnss", e, cmd, type)
    BY <1>2, <1>5, <1>15, CommandAnswered, Zenon
  <1>17. ~Ses!HasSession(dict, s)
    BY DEF TrackingInv, Ses!EmptyDict, Ses!HasSession
  <1>18. /\ t = s /\ rs # <<>> => type = "TRACKING"
         /\ type \notin {"TRACKING", "NIRESPONSE"} => type = "none"
         /\ type = "TRACKING" => t = s /\ rs # <<>>
         /\ type = "NIRESPONSE" => /\ requestQueues["NIRESPONSE"].session = s
                                   /\ requestQueues["NIRESPONSE"].requests # <<>>
    BY <1>7, <1>8, <1>15, <1>17 DEF Ses!QueueOf, Tracked
  \* the requests of another session, of one that shares its id, and of one that has ended
  <1>19. ASSUME type # "TRACKING"
         PROVE  Lives(Tail(c), after, t) /\ t \notin NiIds => Aligned(rs, Tail(c), t)
    <2> SUFFICES ASSUME Lives(Tail(c), after, t), t \notin NiIds
                 PROVE  Aligned(rs, Tail(c), t)
      OBVIOUS
    <2>1. Lives(c, run, t) /\ Aligned(rs, c, t)
      BY <1>9, <1>13
    <2>2. s # t
      <3> SUFFICES ASSUME s = t
                   PROVE  FALSE
        OBVIOUS
      <3>1. rs # <<>>
        BY <1>4, <1>6, <1>7, <1>9, <2>1, AlignedOwn
      <3> QED
        BY <1>18, <1>19, <3>1
    <2> QED
      BY <1>4, <1>6, <1>7, <2>1, <2>2, AlignedOther
  <1>20. /\ UNCHANGED <<usage, mTracking, dict, calling, nextId>>
    BY <1>2, Zenon DEF Ses!Serve
  <1>21. commands'["gnss"] = Tail(c) /\ commands'["flp"] = <<>>
    BY <1>2, <1>3, <1>16 DEF Answered, CommandsGiven, TrackingInv, Ses!Interface
  <1>22. ASSUME requestQueues'["TRACKING"].session = t,
                Lives(Tail(c), after, t) /\ t \notin NiIds => Aligned(requestQueues'["TRACKING"].requests, Tail(c), t),
                requestQueues'["NIRESPONSE"].session = requestQueues["NIRESPONSE"].session,
                \A k \in 1 .. Len(requestQueues'["NIRESPONSE"].requests) :
                  requestQueues'["NIRESPONSE"].requests[k] = "NiResponse",
                popped'["flp"] = popped["flp"],
                popped'["gnss"] # Ses!Idle /\ ~Ses!Ambiguous(popped'["gnss"].session) => Ses!Matches(popped'["gnss"])
         PROVE  TrackingInv'
    <2>1. Tracked' = t /\ Watched' = w /\ nextId' = n /\ DOMAIN running' = after
      BY <1>7, <1>8, <1>20, <1>22 DEF Tracked, Watched
    <2>2. /\ TrackingCommands(commands'["gnss"], DOMAIN running', Watched', nextId', refusedStops')
          /\ Lives(commands'["gnss"], DOMAIN running', Tracked') /\ Tracked' \notin NiIds =>
               Aligned(requestQueues'["TRACKING"].requests, commands'["gnss"], Tracked')
      BY <1>13, <1>21, <1>22, <2>1
    <2>3. Tracked' \in 0 .. nextId' - 1 /\ dict' = Ses!EmptyDict /\ calling' = Ses!Idle
      BY <1>9, <1>20, <2>1 DEF TrackingInv
    <2>4. (popped["gnss"] # Ses!Idle /\ ~Ses!Ambiguous(popped["gnss"].session) => Ses!Matches(popped["gnss"]))'
      BY <1>20, <1>22 DEF Ses!Ambiguous, Ses!Matches, Ses!Idle
    <2> QED
      BY <1>21, <1>22, <2>2, <2>3, <2>4 DEF TrackingInv, Ses!Idle
  <1>23. CASE /\ e = "no answer" \/ type = "none" \/ requestQueues[type].requests = <<>>
              /\ UNCHANGED <<requestQueues, popped>>
    <2>1. CASE type # "TRACKING"
      BY <1>8, <1>19, <1>22, <1>23, <2>1 DEF TrackingInv, Tracked
    <2>2. CASE type = "TRACKING"
      <3>1. e = "no answer" /\ t = s
        BY <1>8, <1>18, <1>23, <2>2
      <3>2. ~Lives(Tail(c), after, t)
        BY <1>11, <1>12, <1>13, <3>1
      <3> QED
        BY <1>8, <1>22, <1>23, <3>2 DEF TrackingInv, Tracked
    <2> QED
      BY <2>1, <2>2
  <1>24. CASE /\ e # "no answer" /\ type \in Ses!RequestType /\ requestQueues[type].requests # <<>>
              /\ Queued(type, requestQueues[type].session, Tail(requestQueues[type].requests))
              /\ popped' = [popped EXCEPT !["gnss"] =
                   [kind |-> Head(requestQueues[type].requests), session |-> cmd.session, error |-> e,
                    from |-> type, answers |-> cmd]]
    <2>1. PICK r : r = [kind |-> Head(requestQueues[type].requests), session |-> cmd.session, error |-> e,
                        from |-> type, answers |-> cmd]
      OBVIOUS
    <2>2. popped' = [popped EXCEPT !["gnss"] = r]
      BY <1>24, <2>1, Zenon
    <2>3. popped'["gnss"] = r /\ popped'["flp"] = popped["flp"]
      BY <1>2, <2>2 DEF SessionTypes
    <2>4. r.kind = Head(requestQueues[type].requests) /\ r.session = s /\ r.answers = cmd
      BY <1>7, <2>1
    <2>5. type \in {"TRACKING", "NIRESPONSE"}
      BY <1>18, <1>24 DEF Ses!RequestType
    <2>6. \A id : id \in NiIds /\ id < n => Ses!Ambiguous(id)
      BY <1>7 DEF Ses!Ambiguous
    <2>7. CASE type = "TRACKING"
      <3>1. t = s /\ rs # <<>>
        BY <1>18, <2>7
      <3>2. /\ requestQueues'["TRACKING"].session = t /\ requestQueues'["TRACKING"].requests = Tail(rs)
            /\ requestQueues'["NIRESPONSE"] = requestQueues["NIRESPONSE"]
        BY <1>8, <1>24, <2>7 DEF Queued, QueueGiven, Ses!RequestType, Tracked
      <3>3. CASE s \in NiIds
        <4>1. Ses!Ambiguous(s)
          BY <1>9, <2>6, <3>1, <3>3
        <4> QED
          BY <1>22, <2>3, <2>4, <3>1, <3>2, <3>3, <4>1 DEF TrackingInv
      <3>4. CASE s \notin NiIds
        <4>1. Lives(c, run, t)
          BY <1>11, <1>14, <1>24, <3>1, <3>4
        <4>2. Aligned(rs, c, c[1].session)
          BY <1>6, <1>7, <1>9, <3>1, <3>4, <4>1
        <4>3. rs[1] = cmd.req /\ Aligned(Tail(rs), Tail(c), t)
          BY <1>4, <1>6, <1>7, <1>9, <3>1, <4>2, AlignedOwn
        <4>4. Head(rs) = rs[1]
          BY <1>9, <3>1, SeqShrunk
        <4>5. Ses!Matches(r)
          BY <1>8, <2>4, <2>7, <4>3, <4>4 DEF Ses!Matches
        <4> QED
          BY <1>22, <2>3, <3>2, <4>3, <4>5 DEF TrackingInv
      <3> QED
        BY <3>3, <3>4
    <2>8. CASE type = "NIRESPONSE"
      <3>1. PICK ns : ns = requestQueues["NIRESPONSE"].requests
        OBVIOUS
      <3>2. /\ IsSeq(ns) /\ ns # <<>> /\ \A k \in 1 .. Len(ns) : ns[k] = "NiResponse"
            /\ s \in NiIds \union {0}
        BY <1>18, <2>8, <3>1 DEF TrackingInv, SessionTypes, QueuesTyped, Ses!RequestType
      <3>3. /\ Head(ns) = "NiResponse"
            /\ \A k \in 1 .. Len(Tail(ns)) : Tail(ns)[k] = "NiResponse"
        <4>1. /\ Len(Tail(ns)) = Len(ns) - 1 /\ Len(ns) \in Nat /\ Len(ns) >= 1
              /\ Head(ns) = ns[1] /\ \A k \in 1 .. Len(ns) - 1 : Tail(ns)[k] = ns[k + 1]
          BY <3>2, SeqShrunk
        <4>2. PICK l : l = Len(ns)
          OBVIOUS
        <4>3. 1 \in 1 .. l /\ \A k \in 1 .. l - 1 : k + 1 \in 1 .. l
          BY <4>1, <4>2
        <4> QED
          BY <3>2, <4>1, <4>2, <4>3
      <3>4. /\ requestQueues'["NIRESPONSE"].session = requestQueues["NIRESPONSE"].session
            /\ requestQueues'["NIRESPONSE"].requests = Tail(ns)
            /\ requestQueues'["TRACKING"] = requestQueues["TRACKING"]
        BY <1>24, <2>8, <3>1 DEF Queued, QueueGiven, Ses!RequestType
      <3>5. Ses!Ambiguous(s) \/ Ses!Matches(r)
        <4>1. CASE cmd.cmd = "ni"
          BY <1>11, <2>4, <2>8, <3>1, <3>3, <4>1 DEF Ses!Matches
        <4>2. CASE cmd.cmd # "ni"
          BY <1>9, <1>11, <2>6, <3>2, <4>2
        <4> QED
          BY <4>1, <4>2
      <3> QED
        BY <1>8, <1>19, <1>22, <2>3, <2>4, <2>8, <3>3, <3>4, <3>5 DEF Tracked
    <2> QED
      BY <2>5, <2>7, <2>8
  <1> QED
    BY <1>16, <1>23, <1>24, Zenon DEF Answered

\* A command is asked for the tracking session, with a request of its queue.
LEMMA TrackingRequested ==
  ASSUME SessionTypes, SessionTypes', TrackingInv, NEW cmd, NEW req,
         requestQueues' = [requestQueues EXCEPT !["TRACKING"] = Ses!PushOn(@, req)],
         commands' = Ses!Sent("gnss", <<cmd>>),
         cmd.session = Tracked, Tracked > 0, cmd.req = req, cmd.cmd \in {"stop", "update"},
         mTracking' = mTracking \/ (cmd.cmd = "stop" /\ mTracking' = FALSE),
         UNCHANGED <<dict, calling, running, popped, nextId, refusedStops>>
  PROVE  TrackingInv'
  <1>1. /\ Queued("TRACKING", requestQueues["TRACKING"].session, Append(requestQueues["TRACKING"].requests, req))
        /\ Asked("gnss", cmd)
    BY TrackingAsked, Zenon
  <1>2. PICK c, run, w, after, n, t, rs :
          /\ c = commands["gnss"] /\ run = DOMAIN running /\ w = Watched /\ after = Watched'
          /\ n = nextId /\ t = Tracked /\ rs = requestQueues["TRACKING"].requests
    OBVIOUS
  <1>3. /\ commands'["gnss"] = Append(c, cmd) /\ commands'["flp"] = commands["flp"]
        /\ requestQueues'["TRACKING"].session = t /\ requestQueues'["TRACKING"].requests = Append(rs, req)
        /\ requestQueues'["NIRESPONSE"] = requestQueues["NIRESPONSE"]
    BY <1>1, <1>2 DEF Queued, Asked, QueueGiven, CommandsGiven, Tracked, Ses!Interface, Ses!RequestType
  <1>4. /\ n \in Nat \ {0} /\ t \in 1 .. n - 1 /\ IsSeq(rs) /\ IsSeq(c)
        /\ TrackingCommands(c, run, w, n, refusedStops)
        /\ (Lives(c, run, t) /\ t \notin NiIds => Aligned(rs, c, t))
    BY <1>2 DEF TrackingInv, SessionTypes, QueuesTyped, CommandsTyped, Ses!RequestType, Ses!Interface
  <1>5. Tracked' = t /\ (after = w \/ (cmd.cmd = "stop" /\ cmd.session = w))
    BY <1>2, <1>3 DEF Watched, Tracked
  <1>6. TrackingCommand(cmd, n)
    BY <1>2, <1>4 DEF TrackingCommand
  <1>7. /\ TrackingCommands(Append(c, cmd), run, after, n, refusedStops)
        /\ \A s : Lives(Append(c, cmd), run, s) => Lives(c, run, s)
    BY <1>4, <1>5, <1>6, CommandAdded
  <1>8. Lives(Append(c, cmd), run, t) /\ t \notin NiIds => Aligned(Append(rs, req), Append(c, cmd), t)
    BY <1>2, <1>4, <1>7, AlignedAsked
  <1>9. /\ TrackingCommands(commands'["gnss"], DOMAIN running', Watched', nextId', refusedStops')
        /\ Lives(commands'["gnss"], DOMAIN running', Tracked') /\ Tracked' \notin NiIds =>
             Aligned(requestQueues'["TRACKING"].requests, commands'["gnss"], Tracked')
    BY <1>2, <1>3, <1>5, <1>7, <1>8
  <1>10. (popped["gnss"] # Ses!Idle /\ ~Ses!Ambiguous(popped["gnss"].session) => Ses!Matches(popped["gnss"]))'
    BY DEF TrackingInv, Ses!Ambiguous, Ses!Matches, Ses!Idle
  <1>11. Tracked' \in 0 .. nextId' - 1
    BY <1>2, <1>4, <1>5
  <1> QED
    BY <1>3, <1>9, <1>10, <1>11 DEF TrackingInv, Ses!Idle

LEMMA TrackingBegun ==
  ASSUME SessionTypes, SessionTypes', TrackingInv, Ses!locAPIStartTracking
  PROVE  TrackingInv'
  <1>1. PICK cmd : cmd = Ses!Command("start", nextId, "ON_FIX", "StartTracking")
    OBVIOUS
  <1>2. cmd.cmd = "start" /\ cmd.session = nextId /\ cmd.req = "StartTracking"
    BY <1>1 DEF Ses!Command
  <1>3. Queued("TRACKING", nextId, <<"StartTracking">>) /\ Asked("gnss", cmd)
    BY <1>1, TrackingStarted, Zenon
  <1>4. /\ ~mTracking /\ mTracking' = TRUE /\ nextId' = nextId + 1
        /\ UNCHANGED <<dict, calling, running, popped, refusedStops>>
    BY Zenon DEF Ses!locAPIStartTracking
  <1>5. PICK c, run, n : c = commands["gnss"] /\ run = DOMAIN running /\ n = nextId
    OBVIOUS
  <1>6. /\ commands'["gnss"] = Append(c, cmd) /\ commands'["flp"] = commands["flp"]
        /\ requestQueues'["TRACKING"].session = n /\ requestQueues'["TRACKING"].requests = <<cmd.req>>
        /\ requestQueues'["NIRESPONSE"] = requestQueues["NIRESPONSE"]
    BY <1>2, <1>3, <1>5 DEF Queued, Asked, QueueGiven, CommandsGiven, Ses!Interface, Ses!RequestType
  <1>7. n \in Nat \ {0} /\ IsSeq(c) /\ TrackingCommands(c, run, 0, n, refusedStops)
    BY <1>4, <1>5 DEF TrackingInv, SessionTypes, CommandsTyped, Watched, Ses!Interface
  <1>8. TrackingCommands(Append(c, cmd), run, n, n + 1, refusedStops)
    BY <1>2, <1>5, <1>7, StartAdded
  <1>9. ASSUME n \notin NiIds
        PROVE  Aligned(<<cmd.req>>, Append(c, cmd), n)
    <2>1. \A k \in 1 .. Len(c) : c[k].session \in NiIds \/ c[k].session \in 1 .. n - 1
      BY <1>7 DEF TrackingCommands, TrackingCommand
    <2>2. n \notin 1 .. n - 1
      BY <1>7
    <2>3. cmd.session = n
      BY <1>2, <1>5
    <2> QED
      BY <1>7, <1>9, <2>1, <2>2, <2>3, AlignedFirst
  <1>10. Tracked' = n /\ Watched' = n /\ nextId' = n + 1 /\ Tracked' \in 0 .. nextId' - 1
    BY <1>4, <1>5, <1>6, <1>7 DEF Tracked, Watched
  <1>11. /\ TrackingCommands(commands'["gnss"], DOMAIN running', Watched', nextId', refusedStops')
         /\ Lives(commands'["gnss"], DOMAIN running', Tracked') /\ Tracked' \notin NiIds =>
              Aligned(requestQueues'["TRACKING"].requests, commands'["gnss"], Tracked')
    BY <1>4, <1>5, <1>6, <1>8, <1>9, <1>10
  <1>12. \A id : Ses!Ambiguous(id) => id \in NiIds /\ id < n + 1
    BY <1>5, <1>7, ServicesAssumption DEF Ses!Ambiguous, ServicesAssumption
  <1>13. (popped["gnss"] # Ses!Idle /\ ~Ses!Ambiguous(popped["gnss"].session) => Ses!Matches(popped["gnss"]))'
    BY <1>4, <1>10, <1>12 DEF TrackingInv, Ses!Ambiguous, Ses!Matches, Ses!Idle
  <1> QED
    BY <1>4, <1>6, <1>10, <1>11, <1>13 DEF TrackingInv, Ses!Idle

LEMMA TrackingAnswered ==
  ASSUME SessionTypes, SessionTypes', TrackingInv, NEW id \in NiIds, Ses!locAPIGnssNiResponse(id)
  PROVE  TrackingInv'
  <1>1. PICK cmd : cmd = Ses!Command("ni", id, "ON_FIX", "NiResponse")
    OBVIOUS
  <1>2. cmd.cmd = "ni" /\ cmd.session = id /\ cmd.req = "NiResponse"
    BY <1>1 DEF Ses!Command
  <1>3. Queued("NIRESPONSE", id, <<"NiResponse">>) /\ Asked("gnss", cmd)
    BY <1>1, NiAnswered, Zenon
  <1>4. UNCHANGED <<mTracking, dict, calling, running, popped, nextId, refusedStops>>
    BY Zenon DEF Ses!locAPIGnssNiResponse
  <1>5. PICK c, run, w, n, t, rs :
          /\ c = commands["gnss"] /\ run = DOMAIN running /\ w = Watched
          /\ n = nextId /\ t = Tracked /\ rs = requestQueues["TRACKING"].requests
    OBVIOUS
  <1>6. /\ commands'["gnss"] = Append(c, cmd) /\ commands'["flp"] = commands["flp"]
        /\ requestQueues'["TRACKING"] = requestQueues["TRACKING"]
        /\ requestQueues'["NIRESPONSE"].session = id /\ requestQueues'["NIRESPONSE"].requests = <<"NiResponse">>
    BY <1>3, <1>5 DEF Queued, Asked, QueueGiven, CommandsGiven, Ses!Interface, Ses!RequestType
  <1>7. /\ n \in Nat \ {0} /\ t \in 0 .. n - 1 /\ IsSeq(rs) /\ IsSeq(c)
        /\ TrackingCommands(c, run, w, n, refusedStops)
        /\ (Lives(c, run, t) /\ t \notin NiIds => Aligned(rs, c, t))
    BY <1>5 DEF TrackingInv, SessionTypes, QueuesTyped, CommandsTyped, Ses!RequestType, Ses!Interface
  <1>8. TrackingCommand(cmd, n)
    BY <1>2 DEF TrackingCommand
  <1>9. /\ TrackingCommands(Append(c, cmd), run, w, n, refusedStops)
        /\ \A s : Lives(Append(c, cmd), run, s) => Lives(c, run, s)
    BY <1>2, <1>7, <1>8, CommandAdded
  <1>10. Lives(Append(c, cmd), run, t) /\ t \notin NiIds => Aligned(rs, Append(c, cmd), t)
    BY <1>2, <1>7, <1>9, AlignedPassed
  <1>11. Tracked' = t /\ Watched' = w /\ nextId' = n /\ DOMAIN running' = run
    BY <1>4, <1>5, <1>6 DEF Tracked, Watched
  <1>12. /\ TrackingCommands(commands'["gnss"], DOMAIN running', Watched', nextId', refusedStops')
         /\ Lives(commands'["gnss"], DOMAIN running', Tracked') /\ Tracked' \notin NiIds =>
              Aligned(requestQueues'["TRACKING"].requests, commands'["gnss"], Tracked')
    BY <1>4, <1>5, <1>6, <1>9, <1>10, <1>11
  <1>13. (popped["gnss"] # Ses!Idle /\ ~Ses!Ambiguous(popped["gnss"].session) => Ses!Matches(popped["gnss"]))'
    BY <1>4 DEF TrackingInv, Ses!Ambiguous, Ses!Matches, Ses!Idle
  <1>14. \A k \in 1 .. Len(<<"NiResponse">>) : <<"NiResponse">>[k] = "NiResponse"
    OBVIOUS
  <1> QED
    BY <1>4, <1>6, <1>7, <1>11, <1>12, <1>13, <1>14 DEF TrackingInv, Ses!Idle

LEMMA TrackingStep ==
  ASSUME SessionTypes, SessionTypes', usage = "gnss_hal", TrackingInv, [Ses!Next]_sessionVars
  PROVE  TrackingInv'
  <1>1. CASE UNCHANGED <<requestQueues, mTracking, dict, calling, commands, running, popped, nextId, refusedStops>>
    BY <1>1 DEF TrackingInv, Tracked, Watched, Ses!Ambiguous, Ses!Matches, Ses!Idle
  <1>2. CASE Ses!locAPIStopTracking
    <2>1. PICK cmd : cmd = Ses!Command("stop", requestQueues["TRACKING"].session, "ON_FIX", "StopTracking")
      OBVIOUS
    <2>2. cmd.cmd = "stop" /\ cmd.session = Tracked /\ cmd.req = "StopTracking"
      BY <2>1 DEF Ses!Command, Tracked
    <2>3. /\ requestQueues' = [requestQueues EXCEPT !["TRACKING"] = Ses!PushOn(@, "StopTracking")]
          /\ commands' = Ses!Sent("gnss", <<cmd>>) /\ mTracking' = FALSE /\ Tracked > 0
          /\ UNCHANGED <<dict, calling, running, popped, nextId, refusedStops>>
      BY <1>2, <2>1, Zenon DEF Ses!locAPIStopTracking, Tracked
    <2> QED
      BY <2>2, <2>3, TrackingRequested, Zenon
  <1>3. CASE Ses!locAPIUpdateTrackingOptions
    <2>1. PICK cmd : cmd = Ses!Command("update", requestQueues["TRACKING"].session, "ON_FIX", "UpdateTracking")
      OBVIOUS
    <2>2. cmd.cmd = "update" /\ cmd.session = Tracked /\ cmd.req = "UpdateTracking"
      BY <2>1 DEF Ses!Command, Tracked
    <2>3. /\ requestQueues' = [requestQueues EXCEPT !["TRACKING"] = Ses!PushOn(@, "UpdateTracking")]
          /\ commands' = Ses!Sent("gnss", <<cmd>>) /\ mTracking' = mTracking /\ Tracked > 0
          /\ UNCHANGED <<dict, calling, running, popped, nextId, refusedStops>>
      BY <1>3, <2>1, Zenon DEF Ses!locAPIUpdateTrackingOptions, Tracked
    <2> QED
      BY <2>2, <2>3, TrackingRequested, Zenon
  <1>4. CASE \/ Ses!locAPIStopSession \/ Ses!locAPIGetBatchedLocations \/ Ses!locAPIUpdateSessionOptions
             \/ Ses!UpdateEntry
    BY <1>4 DEF Ses!locAPIStopSession, Ses!locAPIGetBatchedLocations, Ses!locAPIUpdateSessionOptions,
                Ses!UpdateEntry, TrackingInv, Ses!Idle
  <1>5. \A id, mode, call : ~Ses!locAPIStartSession(id, mode) /\ ~Ses!FindSession(id, call, mode)
    BY Zenon DEF Ses!locAPIStartSession, Ses!FindSession, Ses!AllowedBy
  <1>6. CASE Ses!ClientStep
    BY <1>1, <1>2, <1>3, <1>4, <1>5, <1>6, TrackingBegun, TrackingAnswered
    DEF Ses!ClientStep, Ses!locAPISetCallbacks
  <1>7. ASSUME NEW i \in Ses!Interface, Ses!onResponse(i)
        PROVE  TrackingInv'
    <2>1. \A s : Ses!removeSession(s) = dict
      BY DEF Ses!removeSession, Ses!HasSession, TrackingInv, Ses!EmptyDict
    <2>2. /\ UNCHANGED <<requestQueues, mTracking, dict, calling, commands, running, nextId, refusedStops>>
          /\ popped' = [popped EXCEPT ![i] = Ses!Idle]
      BY <1>7, <2>1, Zenon DEF Ses!onResponse
    <2>3. \A j \in Ses!Interface : popped'[j] \in {popped[j], Ses!Idle}
      BY <2>2 DEF SessionTypes
    <2>4. "gnss" \in Ses!Interface /\ "flp" \in Ses!Interface
      BY DEF Ses!Interface
    <2>5. (popped["gnss"] # Ses!Idle /\ ~Ses!Ambiguous(popped["gnss"].session) => Ses!Matches(popped["gnss"]))'
      BY <2>2, <2>3, <2>4 DEF TrackingInv, Ses!Ambiguous, Ses!Matches, Ses!Idle
    <2> QED
      BY <2>2, <2>3, <2>4, <2>5 DEF TrackingInv, Tracked, Watched, Ses!Idle
  <1>8. ASSUME NEW s, Ses!beforeBatchingStatusCb(s)
        PROVE  TrackingInv'
    <2>1. Ses!removeSession(s) = dict
      BY DEF Ses!removeSession, Ses!HasSession, TrackingInv, Ses!EmptyDict
    <2>2. /\ UNCHANGED <<requestQueues, mTracking, dict, calling, commands, popped, nextId, refusedStops>>
          /\ DOMAIN running' \subseteq DOMAIN running
      BY <1>8, <2>1 DEF Ses!beforeBatchingStatusCb, Ses!Erase
    <2>3. TrackingCommands(commands["gnss"], DOMAIN running', Watched, nextId, refusedStops)
      BY <2>2 DEF TrackingInv, TrackingCommands
    <2>4. Lives(commands["gnss"], DOMAIN running', Tracked) => Lives(commands["gnss"], DOMAIN running, Tracked)
      BY <2>2 DEF Lives
    <2> QED
      BY <2>2, <2>3, <2>4 DEF TrackingInv, Tracked, Watched, Ses!Ambiguous, Ses!Matches, Ses!Idle
  <1>9. CASE Ses!InterfaceStep
    BY <1>7, <1>8, <1>9, TrackingServed DEF Ses!InterfaceStep
  <1> QED
    BY <1>1, <1>6, <1>9 DEF Ses!Next, sessionVars

-----------------------------------------------------------------------------
(* A batching client.  It has one id and waits for no answer.  As long as no  *)
(* request is left over, requests and commands are in step, and the id has    *)
(* the session that runs or will; once one is left over, one always is.       *)

BatchId == CHOOSE i \in SessionIds : TRUE
BatchModes == {"NONE", "ON_FULL"}
Ending == Ses!Starting \union Ses!Stopping

BatchCommand(cmd, next) ==
  /\ cmd.mode \in BatchModes /\ cmd.session \in 0 .. next - 1
  /\ \/ cmd.cmd = "start" /\ cmd.req = "StartBatching"
     \/ cmd.cmd = "stop" /\ cmd.req = "StopBatching"
     \/ cmd.cmd \in {"update", "flush"} /\ cmd.req \notin Ending

\* No request is lost: there are as many as commands, or some are left over.
BatchLine(reqs, cmds) ==
  /\ Len(reqs) >= Len(cmds)
  /\ Len(reqs) = Len(cmds) => \A k \in 1 .. Len(cmds) : reqs[k] = cmds[k].req

\* run: the sessions that run, p: the one a response is being run for, or 0.  A session is
\* started once, and before everything else that is asked of it.
BatchCommands(cmds, run, p, next) ==
  /\ run \subseteq 1 .. next - 1 /\ p \in 0 .. next - 1
  /\ \A k \in 1 .. Len(cmds) : BatchCommand(cmds[k], next)
  /\ \A s, k : StartAt(cmds, s, k) =>
       s # 0 /\ s \notin run /\ s # p /\ \A j \in 1 .. k - 1 : cmds[j].session # s

\* The id has at most one session, with data of its own; session 0 is that of a lookup.
BatchEntries(d, next) ==
  /\ DOMAIN d.fwd \subseteq {BatchId} /\ DOMAIN d.ext = DOMAIN d.bwd
  /\ \A i \in DOMAIN d.fwd : d.fwd[i] \in 0 .. next - 1 /\ (d.fwd[i] = 0 \/ d.fwd[i] \in DOMAIN d.bwd)
  /\ \A s \in DOMAIN d.bwd : d.ext[s].sessionMode \in BatchModes /\ d.ext[s].batchingSession = s

\* What an update will commit is what the id has, if it still has anything.
BatchCalling(call, d, next) ==
  call # Ses!Idle =>
    /\ call.id = BatchId /\ call.mode \in BatchModes
    /\ call.kind = "commit" =>
         /\ call.session \in 0 .. next - 1
         /\ BatchId \in DOMAIN d.fwd => d.fwd[BatchId] = call.session

BatchKept(cmds, run, d, over) == \A s : Lives(cmds, run, s) => s \in DOMAIN d.bwd \/ over

\* A response ends a session only when it no longer runs.
BatchAnswering(p, run, over) ==
  p # Ses!Idle /\ ~over => p.kind = p.answers.req /\ (Ses!EndsSession(p) => p.session \notin run)

AnsweredFor(p) == IF p = Ses!Idle THEN 0 ELSE p.session

BatchingInv ==
  /\ commands["gnss"] = <<>> /\ popped["gnss"] = Ses!Idle
  /\ \A s \in DOMAIN running : running[s] \in BatchModes
  /\ BatchEntries(dict, nextId) /\ BatchCalling(calling, dict, nextId)
  /\ BatchLine(requestQueues["SESSION"].requests, commands["flp"])
  /\ BatchCommands(commands["flp"], DOMAIN running, AnsweredFor(popped["flp"]), nextId)
  /\ BatchKept(commands["flp"], DOMAIN running, dict, Ses!LeftOver)
  /\ BatchAnswering(popped["flp"], DOMAIN running, Ses!LeftOver)

LEMMA LineAdded ==
  ASSUME NEW cmds, IsSeq(cmds), NEW reqs, IsSeq(reqs), BatchLine(reqs, cmds), NEW cmd
  PROVE  /\ BatchLine(Append(reqs, cmd.req), Append(cmds, cmd))
         /\ Len(Append(reqs, cmd.req)) > Len(Append(cmds, cmd)) <=> Len(reqs) > Len(cmds)
  <1> DEFINE n == Len(cmds)
             m == Len(reqs)
             c == Append(cmds, cmd)
             r == Append(reqs, cmd.req)
  <1>1. /\ n \in Nat /\ Len(c) = n + 1 /\ \A k \in 1 .. n : c[k] = cmds[k]
        /\ c[n + 1] = cmd
    BY SeqGrown
  <1>2. /\ m \in Nat /\ Len(r) = m + 1 /\ \A k \in 1 .. m : r[k] = reqs[k]
        /\ r[m + 1] = cmd.req
    BY SeqGrown
  <1> HIDE DEF n, m, c, r
  <1>3. m >= n /\ (m = n => \A k \in 1 .. n : reqs[k] = cmds[k].req)
    BY DEF BatchLine, n, m
  <1>4. \A j : j \in 1 .. n + 1 <=> j \in 1 .. n \/ j = n + 1
    BY <1>1
  <1>5. ASSUME m = n
        PROVE  \A k \in 1 .. n + 1 : r[k] = c[k].req
    BY <1>1, <1>2, <1>3, <1>4, <1>5
  <1>6. m + 1 >= n + 1 /\ (m + 1 = n + 1 => m = n) /\ (m + 1 > n + 1 <=> m > n)
    BY <1>1, <1>2, <1>3
  <1>7. BatchLine(r, c) /\ (Len(r) > Len(c) <=> m > n)
    BY <1>1, <1>2, <1>5, <1>6 DEF BatchLine
  <1> QED
    BY <1>7 DEF n, m, c, r

\* A command is served and the first request answers it, or waits on for the next.
LEMMA LineServed ==
  ASSUME NEW cmds, IsSeq(cmds), cmds # <<>>, NEW reqs, IsSeq(reqs), BatchLine(reqs, cmds)
  PROVE  /\ reqs # <<>> /\ ~(Len(reqs) > Len(cmds)) => Head(reqs) = Head(cmds).req
         /\ reqs # <<>>
         /\ BatchLine(Tail(reqs), Tail(cmds)) /\ BatchLine(reqs, Tail(cmds))
         /\ Len(Tail(reqs)) > Len(Tail(cmds)) <=> Len(reqs) > Len(cmds)
         /\ Len(reqs) > Len(Tail(cmds))
  <1> DEFINE n == Len(cmds)
             m == Len(reqs)
             c == Tail(cmds)
             r == Tail(reqs)
  <1>1. /\ n \in Nat /\ n >= 1 /\ Len(c) = n - 1 /\ \A k \in 1 .. n - 1 : c[k] = cmds[k + 1]
        /\ Head(cmds) = cmds[1]
    BY SeqShrunk
  <1>2. m >= n /\ (m = n => \A k \in 1 .. n : reqs[k] = cmds[k].req)
    BY DEF BatchLine
  <1>3. m \in Nat
    BY DEF IsSeq
  <1>4. reqs # <<>>
    BY <1>1, <1>2, <1>3
  <1>5. /\ Len(r) = m - 1 /\ \A k \in 1 .. m - 1 : r[k] = reqs[k + 1]
        /\ Head(reqs) = reqs[1]
    BY <1>4, SeqShrunk
  <1> HIDE DEF n, m, c, r
  <1>6. 1 \in 1 .. n /\ \A k \in 1 .. n - 1 : k + 1 \in 1 .. n
    BY <1>1
  <1>7. ~(m > n) => m = n
    BY <1>1, <1>2, <1>3
  <1>8. ~(m > n) => Head(reqs) = Head(cmds).req
    BY <1>1, <1>2, <1>5, <1>6, <1>7
  <1>9. m = n => \A k \in 1 .. n - 1 : r[k] = c[k].req
    BY <1>1, <1>2, <1>5, <1>6
  <1>10. m - 1 >= n - 1 /\ (m - 1 = n - 1 => m = n) /\ (m - 1 > n - 1 <=> m > n) /\ m > n - 1 /\ m >= n - 1
         /\ m # n - 1
    BY <1>1, <1>2, <1>3
  <1>11. BatchLine(r, c)
    BY <1>1, <1>5, <1>9, <1>10 DEF BatchLine
  <1>12. BatchLine(reqs, c)
    BY <1>1, <1>10 DEF BatchLine, m
  <1> QED
    BY <1>1, <1>4, <1>5, <1>8, <1>10, <1>11, <1>12 DEF n, m, c, r

LEMMA BatchAdded ==
  ASSUME NEW next \in Nat \ {0}, NEW cmds, IsSeq(cmds), NEW run, NEW p,
         BatchCommands(cmds, run, p, next), NEW cmd, BatchCommand(cmd, next), cmd.cmd # "start"
  PROVE  /\ BatchCommands(Append(cmds, cmd), run, p, next)
         /\ \A s : Lives(Append(cmds, cmd), run, s) => Lives(cmds, run, s)
  <1> DEFINE n == Len(cmds)
             c == Append(cmds, cmd)
  <1>1. /\ n \in Nat /\ Len(c) = n + 1 /\ \A k \in 1 .. n : c[k] = cmds[k]
        /\ c[n + 1] = cmd
    BY SeqGrown
  <1> HIDE DEF n, c
  <1>2. \A j : j \in 1 .. n + 1 <=> j \in 1 .. n \/ j = n + 1
    BY <1>1
  <1>3. \A s, k : StartAt(c, s, k) <=> StartAt(cmds, s, k)
    BY <1>1, <1>2 DEF StartAt, n
  <1>4. \A k \in 1 .. Len(c) : BatchCommand(c[k], next)
    BY <1>1, <1>2 DEF BatchCommands, n
  <1>5. ASSUME NEW s, NEW k, StartAt(c, s, k)
        PROVE  s # 0 /\ s \notin run /\ s # p /\ \A j \in 1 .. k - 1 : c[j].session # s
    <2>1. StartAt(cmds, s, k) /\ k \in 1 .. n
      BY <1>3, <1>5 DEF StartAt, n
    <2>2. \A j \in 1 .. k - 1 : c[j] = cmds[j]
      BY <1>1, <2>1
    <2> QED
      BY <2>1, <2>2 DEF BatchCommands
  <1>6. BatchCommands(c, run, p, next)
    BY <1>4, <1>5 DEF BatchCommands
  <1> QED
    BY <1>3, <1>6 DEF Lives, c

\* A new session is started.
LEMMA BatchStarted ==
  ASSUME NEW next \in Nat \ {0}, NEW cmds, IsSeq(cmds), NEW run, NEW p,
         BatchCommands(cmds, run, p, next),
         NEW cmd, BatchCommand(cmd, next + 1), cmd.cmd = "start", cmd.session = next
  PROVE  /\ BatchCommands(Append(cmds, cmd), run, p, next + 1)
         /\ \A s : Lives(Append(cmds, cmd), run, s) => Lives(cmds, run, s) \/ s = next
  <1> DEFINE n == Len(cmds)
             c == Append(cmds, cmd)
  <1>1. /\ n \in Nat /\ Len(c) = n + 1 /\ \A k \in 1 .. n : c[k] = cmds[k]
        /\ c[n + 1] = cmd
    BY SeqGrown
  <1> HIDE DEF n, c
  <1>2. \A j : j \in 1 .. n + 1 <=> j \in 1 .. n \/ j = n + 1
    BY <1>1
  <1>3. /\ \A s : s \in 1 .. next - 1 => s \in 1 .. (next + 1) - 1 /\ s # next
        /\ \A s : s \in 0 .. next - 1 => s \in 0 .. (next + 1) - 1 /\ s # next
        /\ next # 0
    OBVIOUS
  <1>4. \A s, k : StartAt(c, s, k) <=> StartAt(cmds, s, k) \/ (s = next /\ k = n + 1)
    BY <1>1, <1>2 DEF StartAt, n
  <1>5. \A k \in 1 .. n : BatchCommand(cmds[k], next) /\ cmds[k].session # next
    BY <1>3 DEF BatchCommands, BatchCommand, n
  <1>6. \A k \in 1 .. n : BatchCommand(cmds[k], next + 1)
    BY <1>3, <1>5 DEF BatchCommand
  <1>7. \A k \in 1 .. Len(c) : BatchCommand(c[k], next + 1)
    BY <1>1, <1>2, <1>6
  <1>8. run \subseteq 1 .. (next + 1) - 1 /\ next \notin run /\ p \in 0 .. (next + 1) - 1 /\ p # next
    BY <1>3 DEF BatchCommands
  <1>9. ASSUME NEW s, NEW k, StartAt(c, s, k)
        PROVE  s # 0 /\ s \notin run /\ s # p /\ \A j \in 1 .. k - 1 : c[j].session # s
    <2>1. CASE StartAt(cmds, s, k)
      <3>1. \A j \in 1 .. k - 1 : c[j] = cmds[j]
        BY <1>1, <2>1 DEF StartAt, n
      <3> QED
        BY <2>1, <3>1 DEF BatchCommands
    <2>2. CASE s = next /\ k = n + 1
      <3>1. \A j \in 1 .. k - 1 : j \in 1 .. n /\ c[j] = cmds[j]
        BY <1>1, <2>2
      <3> QED
        BY <1>3, <1>5, <1>8, <2>2, <3>1
    <2> QED
      BY <1>4, <1>9, <2>1, <2>2
  <1>10. BatchCommands(c, run, p, next + 1)
    BY <1>7, <1>8, <1>9 DEF BatchCommands
  <1> QED
    BY <1>4, <1>10 DEF Lives, c

\* The first command is served; q is the session of the response, or 0.
LEMMA BatchTaken ==
  ASSUME NEW next \in Nat \ {0}, NEW cmds, IsSeq(cmds), cmds # <<>>, NEW run, NEW p,
         BatchCommands(cmds, run, p, next), NEW q \in {0, cmds[1].session}, NEW after,
         cmds[1].cmd = "start" => after \subseteq run \union {cmds[1].session},
         cmds[1].cmd # "start" => after \subseteq run
  PROVE  /\ BatchCommands(Tail(cmds), after, q, next)
         /\ \A s : Lives(Tail(cmds), after, s) => Lives(cmds, run, s)
  <1> DEFINE n == Len(cmds)
             c == Tail(cmds)
             s1 == cmds[1].session
  <1>1. /\ n \in Nat /\ n >= 1 /\ Len(c) = n - 1 /\ \A k \in 1 .. n - 1 : c[k] = cmds[k + 1]
    BY SeqShrunk
  <1> HIDE DEF n, c
  <1>2. \A k : k \in 1 .. n - 1 => k + 1 \in 1 .. n /\ 1 \in 1 .. (k + 1) - 1
    BY <1>1
  <1>3. \A s, k : StartAt(c, s, k) => StartAt(cmds, s, k + 1) /\ k \in 1 .. n - 1
    BY <1>1, <1>2 DEF StartAt, n
  <1>4. 1 \in 1 .. n
    BY <1>1
  <1>5. cmds[1].cmd = "start" => StartAt(cmds, s1, 1)
    BY <1>4 DEF StartAt, n
  <1>6. s1 \in 0 .. next - 1 /\ 0 \in 0 .. next - 1
    BY <1>4 DEF BatchCommands, BatchCommand, n
  <1>7. cmds[1].cmd = "start" => s1 \in 1 .. next - 1
    BY <1>5, <1>6 DEF BatchCommands
  <1>8. after \subseteq 1 .. next - 1 /\ q \in 0 .. next - 1
    BY <1>6, <1>7 DEF BatchCommands
  <1>9. \A k \in 1 .. Len(c) : BatchCommand(c[k], next)
    BY <1>1, <1>2 DEF BatchCommands, n
  <1>10. ASSUME NEW s, NEW k, StartAt(c, s, k)
         PROVE  s # 0 /\ s \notin after /\ s # q /\ \A j \in 1 .. k - 1 : c[j].session # s
    <2>1. StartAt(cmds, s, k + 1) /\ k \in 1 .. n - 1
      BY <1>3, <1>10
    <2>2. s # 0 /\ s \notin run /\ \A j \in 1 .. (k + 1) - 1 : cmds[j].session # s
      BY <2>1 DEF BatchCommands
    <2>3. s1 # s
      BY <1>2, <2>1, <2>2
    <2>4. s \notin after /\ s # q
      BY <2>2, <2>3
    <2>5. \A j \in 1 .. k - 1 : j + 1 \in 1 .. (k + 1) - 1 /\ c[j] = cmds[j + 1]
      BY <1>1, <2>1
    <2> QED
      BY <2>2, <2>4, <2>5
  <1>11. BatchCommands(c, after, q, next)
    BY <1>8, <1>9, <1>10 DEF BatchCommands
  <1>12. \A s : Lives(c, after, s) => Lives(cmds, run, s)
    BY <1>3, <1>5 DEF Lives
  <1> QED
    BY <1>11, <1>12 DEF c

\* The id is looked up, and if it has none session 0 is inserted.
LEMMA BatchLooked ==
  ASSUME DictInv, BatchingInv, nextId \in Nat \ {0}, calling # Ses!Idle,
         NEW s, s = Ses!GetSession(dict, BatchId), NEW d, d = Ses!AfterGetExtById(dict, calling.id)
  PROVE  /\ calling.id = BatchId /\ calling.mode \in BatchModes
         /\ s \in 0 .. nextId - 1
         /\ Ses!Found.batchingSession = s /\ Ses!Found.sessionMode \in BatchModes
         /\ BatchEntries(d, nextId) /\ d.bwd = dict.bwd
         /\ BatchId \in DOMAIN d.fwd /\ d.fwd[BatchId] = s
  <1>1. calling.id = BatchId /\ calling.mode \in BatchModes
    BY DEF BatchingInv, BatchCalling
  <1>2. BatchEntries(dict, nextId) /\ DOMAIN dict = {"fwd", "bwd", "ext"}
    BY DEF BatchingInv, DictInv, Agrees
  <1>3. s = IF BatchId \in DOMAIN dict.fwd THEN dict.fwd[BatchId] ELSE 0
    BY DEF Ses!GetSession, Ses!HasId
  <1>4. 0 \in 0 .. nextId - 1 /\ \A t \in 0 .. nextId - 1 : t > 0 \/ t = 0
    OBVIOUS
  <1>5. s \in 0 .. nextId - 1
    BY <1>2, <1>3, <1>4 DEF BatchEntries
  <1>6. Ses!NoEntity.batchingSession = 0 /\ Ses!NoEntity.sessionMode \in BatchModes
    BY DEF Ses!NoEntity, BatchModes
  <1>7. s = 0 \/ (s > 0 /\ s \in DOMAIN dict.ext)
    BY <1>2, <1>3, <1>4, <1>5 DEF BatchEntries
  <1>8. Ses!Found = IF s > 0 /\ s \in DOMAIN dict.ext THEN dict.ext[s] ELSE Ses!NoEntity
    BY <1>1 DEF Ses!Found, Ses!GetExtById, Ses!GetExtBySession
  <1>9. DOMAIN d = {"fwd", "bwd", "ext"} /\ d.bwd = dict.bwd /\ d.ext = dict.ext
    <2>1. CASE Ses!HasId(dict, BatchId)
      BY <1>1, <1>2, <2>1 DEF Ses!AfterGetExtById
    <2>2. CASE ~Ses!HasId(dict, BatchId)
      <3>1. d = [dict EXCEPT !.fwd = Ses!Put(dict.fwd, BatchId, 0)]
        BY <1>1, <2>2 DEF Ses!AfterGetExtById
      <3> QED
        BY <1>2, <3>1
    <2> QED
      BY <2>1, <2>2
  <1>10. DOMAIN d.fwd = DOMAIN dict.fwd \union {BatchId} /\ \A i \in DOMAIN d.fwd : d.fwd[i] = IF i = BatchId THEN s ELSE dict.fwd[i]
    <2>1. CASE Ses!HasId(dict, BatchId)
      <3>1. d = dict
        BY <1>1, <2>1 DEF Ses!AfterGetExtById
      <3>2. BatchId \in DOMAIN dict.fwd
        BY <2>1 DEF Ses!HasId
      <3> QED
        BY <1>3, <3>1, <3>2
    <2>2. CASE ~Ses!HasId(dict, BatchId)
      <3>1. d = [dict EXCEPT !.fwd = Ses!Put(dict.fwd, BatchId, 0)]
        BY <1>1, <2>2 DEF Ses!AfterGetExtById
      <3>2. d.fwd = Ses!Put(dict.fwd, BatchId, 0)
        BY <1>2, <3>1
      <3>3. BatchId \notin DOMAIN dict.fwd /\ s = 0
        BY <1>3, <2>2 DEF Ses!HasId
      <3> QED
        BY <3>2, <3>3 DEF Ses!Put
    <2> QED
      BY <2>1, <2>2
  <1>11. BatchEntries(d, nextId)
    BY <1>2, <1>5, <1>7, <1>9, <1>10 DEF BatchEntries
  <1>12. Ses!Found.batchingSession = s /\ Ses!Found.sessionMode \in BatchModes
    <2>1. CASE s > 0 /\ s \in DOMAIN dict.ext
      BY <1>2, <1>8, <2>1 DEF BatchEntries
    <2>2. CASE s = 0
      BY <1>6, <1>8, <2>2
    <2> QED
      BY <1>7, <2>1, <2>2
  <1> QED
    BY <1>1, <1>5, <1>9, <1>10, <1>11, <1>12

\* A command is asked for the session of the id.
LEMMA BatchAsked ==
  ASSUME SessionTypes, BatchingInv, NEW s \in 0 .. nextId - 1, NEW cmd, NEW req,
         calling.mode \in BatchModes, Ses!SessionCommand("flp", cmd, s, req),
         (cmd = "stop" /\ req = "StopBatching") \/ (cmd \in {"update", "flush"} /\ req \notin Ending),
         UNCHANGED <<running, popped, nextId>>, BatchEntries(dict', nextId), dict'.bwd = dict.bwd,
         BatchCalling(calling', dict', nextId)
  PROVE  BatchingInv'
  <1>1. PICK c : c = Ses!Command(cmd, s, calling.mode, req)
    OBVIOUS
  <1>2. /\ Queued("SESSION", requestQueues["SESSION"].session, Append(requestQueues["SESSION"].requests, req))
        /\ Asked("flp", c)
    <2>1. "flp" \in Ses!Interface
      BY DEF Ses!Interface
    <2> QED
      BY <1>1, <2>1, SessionAsked, Zenon
  <1>3. PICK cmds, reqs, run, p, n : /\ cmds = commands["flp"] /\ reqs = requestQueues["SESSION"].requests
                                     /\ run = DOMAIN running /\ p = AnsweredFor(popped["flp"]) /\ n = nextId
    OBVIOUS
  <1>4. /\ commands'["flp"] = Append(cmds, c) /\ commands'["gnss"] = commands["gnss"]
        /\ requestQueues'["SESSION"].requests = Append(reqs, req)
    BY <1>2, <1>3 DEF Queued, Asked, QueueGiven, CommandsGiven, Ses!Interface, Ses!RequestType
  <1>5. IsSeq(cmds) /\ IsSeq(reqs) /\ n \in Nat \ {0}
    BY <1>3 DEF SessionTypes, QueuesTyped, CommandsTyped, Ses!RequestType, Ses!Interface
  <1>6. BatchLine(reqs, cmds) /\ BatchCommands(cmds, run, p, n)
    BY <1>3 DEF BatchingInv
  <1>7. /\ c.req = req /\ c.cmd = cmd /\ c.session = s /\ c.mode = calling.mode
    BY <1>1 DEF Ses!Command
  <1>8. BatchCommand(c, n) /\ c.cmd # "start"
    BY <1>3, <1>7 DEF BatchCommand
  <1>9. /\ BatchLine(Append(reqs, req), Append(cmds, c))
        /\ Len(Append(reqs, req)) > Len(Append(cmds, c)) <=> Len(reqs) > Len(cmds)
    BY <1>5, <1>6, <1>7, LineAdded
  <1>10. /\ BatchCommands(Append(cmds, c), run, p, n)
         /\ \A t : Lives(Append(cmds, c), run, t) => Lives(cmds, run, t)
    BY <1>5, <1>6, <1>8, BatchAdded
  <1>11. PICK over : over = Ses!LeftOver
    OBVIOUS
  <1>12. Ses!LeftOver' = over
    BY <1>3, <1>4, <1>9, <1>11 DEF Ses!LeftOver
  <1>13. /\ BatchKept(cmds, run, dict, over) /\ BatchAnswering(popped["flp"], run, over)
         /\ commands["gnss"] = <<>> /\ popped["gnss"] = Ses!Idle
         /\ \A t \in DOMAIN running : running[t] \in BatchModes
    BY <1>3, <1>11 DEF BatchingInv
  <1>14. BatchKept(Append(cmds, c), run, dict', over)
    BY <1>10, <1>13, Zenon DEF BatchKept
  <1> QED
    BY <1>3, <1>4, <1>9, <1>10, <1>12, <1>13, <1>14 DEF BatchingInv, Ses!Idle

LEMMA BatchServed ==
  ASSUME SessionTypes, ByIdInv, usage = "batching_hal", BatchingInv, NEW i \in Ses!Interface, NEW e, Ses!Serve(i, e)
  PROVE  BatchingInv'
  <1>1. i = "flp"
    BY DEF Ses!Interface, Ses!Serve, BatchingInv
  <1>2. Ses!Serve("flp", e) /\ "gnss" \in Ses!Interface /\ "flp" \in Ses!Interface
    BY <1>1, Zenon DEF Ses!Interface
  <1>3. PICK cmds, reqs, run, after, p, n :
          /\ cmds = commands["flp"] /\ reqs = requestQueues["SESSION"].requests /\ run = DOMAIN running
          /\ after = DOMAIN running' /\ p = AnsweredFor(popped["flp"]) /\ n = nextId
    OBVIOUS
  <1>4. cmds # <<>> /\ IsSeq(cmds) /\ IsSeq(reqs) /\ n \in Nat \ {0}
    BY <1>2, <1>3 DEF Ses!Serve, SessionTypes, CommandsTyped, QueuesTyped, Ses!RequestType
  <1>5. BatchLine(reqs, cmds) /\ BatchCommands(cmds, run, p, n)
    BY <1>3 DEF BatchingInv
  <1>6. PICK cmd, s : cmd = Head(commands["flp"]) /\ s = cmd.session
    OBVIOUS
  <1>7. cmd = cmds[1] /\ 1 \in 1 .. Len(cmds)
    BY <1>3, <1>4, <1>6, SeqShrunk
  <1>8. BatchCommand(cmd, n)
    BY <1>5, <1>7 DEF BatchCommands
  <1>9. /\ e \in Ses!FlpAnswers(cmd) /\ running' = Ses!RunningAfter(cmd, e) /\ popped["flp"] = Ses!Idle
        /\ UNCHANGED <<dict, calling, nextId>>
    <2>1. "flp" # "gnss"
      OBVIOUS
    <2> QED
      BY <1>2, <1>6, <2>1, Zenon DEF Ses!Serve, Ses!Answers
  <1>10. e # "no answer" /\ (cmd.cmd # "start" /\ e = "SUCCESS" => s \in run)
    BY <1>3, <1>6, <1>9 DEF Ses!FlpAnswers
  <1>11. /\ cmd.cmd = "start" => after \subseteq run \union {s}
         /\ cmd.cmd # "start" => after \subseteq run
         /\ e # "SUCCESS" => after = run
         /\ cmd.cmd = "stop" /\ e = "SUCCESS" => s \notin after
         /\ \A t \in after : running'[t] \in BatchModes
    <2>1. cmd.mode \in BatchModes /\ \A t \in run : running[t] \in BatchModes
      BY <1>3, <1>8 DEF BatchingInv, BatchCommand
    <2>2. CASE e # "SUCCESS"
      <3>1. running' = running
        BY <1>9, <2>2 DEF Ses!RunningAfter
      <3> QED
        BY <1>3, <2>1, <2>2, <3>1
    <2>3. CASE e = "SUCCESS" /\ cmd.cmd \in {"start", "update"}
      <3>1. running' = Ses!Put(running, s, cmd.mode)
        BY <1>6, <1>9, <2>3 DEF Ses!RunningAfter
      <3>2. after = run \union {s} /\ \A t \in after : running'[t] = IF t = s THEN cmd.mode ELSE running[t]
        BY <1>3, <3>1 DEF Ses!Put
      <3> QED
        BY <1>10, <2>1, <2>3, <3>2
    <2>4. CASE e = "SUCCESS" /\ cmd.cmd = "stop"
      <3>1. running' = Ses!Erase(running, s)
        BY <1>6, <1>9, <2>4 DEF Ses!RunningAfter
      <3>2. after = run \ {s} /\ \A t \in after : running'[t] = running[t]
        BY <1>3, <3>1 DEF Ses!Erase
      <3> QED
        BY <2>1, <2>4, <3>2
    <2>5. CASE e = "SUCCESS" /\ cmd.cmd \notin {"start", "update", "stop"}
      <3>1. running' = running
        BY <1>9, <2>5 DEF Ses!RunningAfter
      <3> QED
        BY <1>3, <2>1, <2>5, <3>1
    <2> QED
      BY <2>2, <2>3, <2>4, <2>5
  <1>12. /\ reqs # <<>> /\ (~(Len(reqs) > Len(cmds)) => Head(reqs) = cmd.req)
         /\ BatchLine(Tail(reqs), Tail(cmds)) /\ BatchLine(reqs, Tail(cmds))
         /\ Len(Tail(reqs)) > Len(Tail(cmds)) <=> Len(reqs) > Len(cmds)
         /\ Len(reqs) > Len(Tail(cmds))
    BY <1>3, <1>4, <1>5, <1>6, LineServed
  <1>13. PICK type : type = Ses!QueueOf(cmd.session)
    OBVIOUS
  <1>14. Answered("flp", e, cmd, type)
    BY <1>2, <1>6, <1>13, CommandAnswered, Zenon
  <1>15. type = IF s \in DOMAIN dict.bwd THEN "SESSION" ELSE "none"
    <2>1. requestQueues["TRACKING"].requests = <<>> /\ requestQueues["NIRESPONSE"].requests = <<>>
      BY DEF ByIdInv
    <2> QED
      BY <1>6, <1>13, <2>1 DEF Ses!QueueOf, Ses!HasSession
  <1>16. commands'["flp"] = Tail(cmds) /\ commands'["gnss"] = commands["gnss"]
    BY <1>2, <1>3, <1>14 DEF Answered, CommandsGiven, Ses!Interface
  <1>17. ASSUME NEW q \in {0, s}
         PROVE  /\ BatchCommands(Tail(cmds), after, q, n)
                /\ \A t : Lives(Tail(cmds), after, t) => Lives(cmds, run, t)
    <2>1. PICK one : one = cmds[1]
      OBVIOUS
    <2>2. one.cmd = cmd.cmd /\ one.session = s
      BY <1>6, <1>7, <2>1
    <2>3. /\ one.cmd = "start" => after \subseteq run \union {one.session}
          /\ one.cmd # "start" => after \subseteq run
          /\ q \in {0, one.session}
      BY <1>11, <1>17, <2>2
    <2> QED
      BY <1>4, <1>5, <2>1, <2>3, BatchTaken
  <1>18. /\ commands["gnss"] = <<>> /\ popped["gnss"] = Ses!Idle
         /\ BatchEntries(dict, n) /\ BatchCalling(calling, dict, n)
         /\ BatchKept(cmds, run, dict, Ses!LeftOver)
    BY <1>3 DEF BatchingInv
  \* the response finds no session, and its request is left over
  <1>19. CASE type = "none"
    <2>1. UNCHANGED <<requestQueues, popped>>
      BY <1>14, <1>19, Zenon DEF Answered, Ses!RequestType
    <2>2. Ses!LeftOver'
      BY <1>3, <1>12, <1>16, <2>1 DEF Ses!LeftOver
    <2>3. AnsweredFor(popped'["flp"]) = 0
      BY <1>9, <2>1 DEF AnsweredFor, Ses!Idle
    <2>4. BatchKept(Tail(cmds), after, dict, TRUE) /\ BatchAnswering(popped'["flp"], after, TRUE)
      BY DEF BatchKept, BatchAnswering
    <2>5. BatchCommands(Tail(cmds), after, 0, n)
      BY <1>17
    <2> QED
      BY <1>3, <1>9, <1>11, <1>12, <1>16, <1>18, <2>1, <2>2, <2>3, <2>4, <2>5 DEF BatchingInv, Ses!Idle
  <1>20. CASE type = "SESSION"
    <2>1. PICK r : r = [kind |-> Head(requestQueues[type].requests), session |-> cmd.session, error |-> e,
                        from |-> type, answers |-> cmd]
      OBVIOUS
    <2>2. r.kind = Head(reqs) /\ r.session = s /\ r.error = e /\ r.answers = cmd /\ r # Ses!Idle
      <3>1. r.kind = Head(reqs) /\ r.session = s /\ r.error = e /\ r.answers = cmd
        BY <1>3, <1>6, <1>20, <2>1
      <3>2. "session" \in DOMAIN r /\ "session" \notin DOMAIN Ses!Idle
        BY <2>1 DEF Ses!Idle
      <3> QED
        BY <3>1, <3>2
    <2>3. /\ Queued(type, requestQueues[type].session, Tail(requestQueues[type].requests))
          /\ popped' = [popped EXCEPT !["flp"] = r]
      <3>1. e # "no answer" /\ type # "none" /\ requestQueues[type].requests # <<>>
        BY <1>3, <1>10, <1>12, <1>20
      <3> QED
        BY <1>14, <2>1, <3>1, Zenon DEF Answered
    <2>4. /\ popped'["flp"] = r /\ popped'["gnss"] = popped["gnss"]
          /\ requestQueues'["SESSION"].requests = Tail(reqs)
      BY <1>2, <1>3, <1>20, <2>3 DEF SessionTypes, Queued, QueueGiven, Ses!Interface, Ses!RequestType
    <2>5. PICK over : over = Ses!LeftOver
      OBVIOUS
    <2>6. Ses!LeftOver' = over /\ (~over => ~(Len(reqs) > Len(cmds)))
      <3>1. over <=> Len(reqs) > Len(cmds)
        BY <1>3, <2>5 DEF Ses!LeftOver
      <3>2. Ses!LeftOver' <=> Len(Tail(reqs)) > Len(Tail(cmds))
        BY <1>16, <2>4 DEF Ses!LeftOver
      <3>3. over \in BOOLEAN /\ Ses!LeftOver' \in BOOLEAN
        BY <2>5 DEF Ses!LeftOver
      <3> QED
        BY <1>12, <3>1, <3>2, <3>3
    <2>7. AnsweredFor(r) = s
      BY <2>2 DEF AnsweredFor
    <2>8. BatchCommands(Tail(cmds), after, s, n) /\ \A t : Lives(Tail(cmds), after, t) => Lives(cmds, run, t)
      BY <1>17
    <2>9. BatchKept(Tail(cmds), after, dict, over)
      BY <1>18, <2>5, <2>8, Zenon DEF BatchKept
    <2>10. BatchAnswering(r, after, over)
      <3> SUFFICES ASSUME ~over
                   PROVE  r.kind = r.answers.req /\ (Ses!EndsSession(r) => r.session \notin after)
        BY DEF BatchAnswering
      <3>1. r.kind = cmd.req
        BY <1>12, <2>2, <2>6
      <3>2. CASE r.kind \in Ses!Starting /\ e # "SUCCESS"
        <4>1. cmd.cmd = "start"
          BY <1>8, <3>1, <3>2 DEF BatchCommand, Ending, Ses!Starting
        <4>2. StartAt(cmds, s, 1)
          BY <1>6, <1>7, <4>1 DEF StartAt
        <4> QED
          BY <1>5, <1>11, <2>2, <3>1, <3>2, <4>2 DEF BatchCommands
      <3>3. CASE r.kind \in Ses!Stopping /\ e = "SUCCESS"
        <4>1. cmd.cmd = "stop"
          BY <1>8, <3>1, <3>3 DEF BatchCommand, Ending, Ses!Stopping
        <4> QED
          BY <1>11, <2>2, <3>1, <3>3, <4>1
      <3> QED
        BY <2>2, <3>1, <3>2, <3>3 DEF Ses!EndsSession
    <2> QED
      BY <1>3, <1>9, <1>11, <1>12, <1>16, <1>18, <2>4, <2>6, <2>7, <2>8, <2>9, <2>10 DEF BatchingInv, Ses!Idle
  <1> QED
    BY <1>15, <1>19, <1>20

\* The id gets a session.
LEMMA BatchBegun ==
  ASSUME SessionTypes, DictInv, usage = "batching_hal", BatchingInv, NEW id, NEW mode, Ses!locAPIStartSession(id, mode)
  PROVE  BatchingInv'
  <1>1. /\ id = BatchId /\ mode \in BatchModes /\ ~Ses!HasId(dict, id) /\ calling = Ses!Idle
        /\ dict' = Ses!SetEntry(dict, id, nextId, Ses!Entity(id, mode, nextId))
        /\ nextId' = nextId + 1 /\ UNCHANGED <<calling, running, popped>>
    BY Zenon DEF Ses!locAPIStartSession, Ses!AllowedBy, BatchId, BatchModes, Ses!CanCall
  <1>2. mode # "ON_FIX"
    BY <1>1 DEF BatchModes
  <1>3. PICK c, n : c = Ses!Command("start", nextId, mode, "StartBatching") /\ n = nextId
    OBVIOUS
  <1>4. /\ Queued("SESSION", requestQueues["SESSION"].session, Append(requestQueues["SESSION"].requests, "StartBatching"))
        /\ Asked("flp", c)
    BY <1>2, <1>3, SessionStarted, Zenon
  <1>5. PICK cmds, reqs, run, p : /\ cmds = commands["flp"] /\ reqs = requestQueues["SESSION"].requests
                                  /\ run = DOMAIN running /\ p = AnsweredFor(popped["flp"])
    OBVIOUS
  <1>6. /\ commands'["flp"] = Append(cmds, c) /\ commands'["gnss"] = commands["gnss"]
        /\ requestQueues'["SESSION"].requests = Append(reqs, "StartBatching")
    BY <1>4, <1>5 DEF Queued, Asked, QueueGiven, CommandsGiven, Ses!Interface, Ses!RequestType
  <1>7. IsSeq(cmds) /\ IsSeq(reqs) /\ n \in Nat \ {0}
    BY <1>3, <1>5 DEF SessionTypes, QueuesTyped, CommandsTyped, Ses!RequestType, Ses!Interface
  <1>8. c.req = "StartBatching" /\ c.cmd = "start" /\ c.session = n /\ c.mode = mode
    BY <1>3 DEF Ses!Command
  <1>9. n \in 0 .. (n + 1) - 1 /\ \A t \in 0 .. n - 1 : t \in 0 .. (n + 1) - 1
    BY <1>7
  <1>10. BatchCommand(c, n + 1)
    BY <1>1, <1>8, <1>9 DEF BatchCommand
  <1>11. BatchLine(reqs, cmds) /\ BatchCommands(cmds, run, p, n)
    BY <1>3, <1>5 DEF BatchingInv
  <1>12. /\ BatchLine(Append(reqs, "StartBatching"), Append(cmds, c))
         /\ Len(Append(reqs, "StartBatching")) > Len(Append(cmds, c)) <=> Len(reqs) > Len(cmds)
    BY <1>7, <1>8, <1>11, LineAdded
  <1>13. /\ BatchCommands(Append(cmds, c), run, p, n + 1)
         /\ \A t : Lives(Append(cmds, c), run, t) => Lives(cmds, run, t) \/ t = n
    BY <1>7, <1>8, <1>10, <1>11, BatchStarted
  <1>14. PICK over : over = Ses!LeftOver
    OBVIOUS
  <1>15. Ses!LeftOver' = over
    BY <1>5, <1>6, <1>12, <1>14 DEF Ses!LeftOver
  <1>16. DOMAIN dict.fwd = {} /\ DOMAIN dict.bwd = {} /\ DOMAIN dict.ext = {}
    BY <1>1 DEF BatchingInv, BatchEntries, DictInv, Agrees, Ses!HasId
  <1>17. /\ DOMAIN dict'.fwd = {BatchId} /\ dict'.fwd[BatchId] = n
         /\ DOMAIN dict'.bwd = {n} /\ DOMAIN dict'.ext = {n} /\ dict'.ext[n] = Ses!Entity(BatchId, mode, n)
    BY <1>1, <1>3, <1>16 DEF Ses!SetEntry, Ses!Put
  <1>18. dict'.ext[n].sessionMode \in BatchModes /\ dict'.ext[n].batchingSession = n
    BY <1>1, <1>2, <1>17 DEF Ses!Entity
  <1>19. BatchEntries(dict', n + 1)
    BY <1>9, <1>17, <1>18 DEF BatchEntries
  <1>20. /\ BatchKept(cmds, run, dict, over) /\ BatchAnswering(popped["flp"], run, over)
         /\ commands["gnss"] = <<>> /\ popped["gnss"] = Ses!Idle
         /\ \A t \in DOMAIN running : running[t] \in BatchModes
    BY <1>5, <1>14 DEF BatchingInv
  <1>21. BatchKept(Append(cmds, c), run, dict', over)
    BY <1>13, <1>16, <1>17, <1>20 DEF BatchKept
  <1>22. BatchCalling(calling', dict', n + 1)
    BY <1>1 DEF BatchCalling
  <1> QED
    BY <1>1, <1>3, <1>5, <1>6, <1>12, <1>13, <1>15, <1>19, <1>20, <1>21, <1>22 DEF BatchingInv, Ses!Idle

\* A response is run: it may end the session.
LEMMA BatchAnswered ==
  ASSUME SessionTypes, DictInv, BatchingInv, NEW i \in Ses!Interface, Ses!onResponse(i)
  PROVE  BatchingInv'
  <1>1. i = "flp" /\ popped["flp"] # Ses!Idle
    BY DEF Ses!Interface, Ses!onResponse, BatchingInv
  <1>2. /\ dict' = IF Ses!EndsSession(popped["flp"]) THEN Ses!removeSession(popped["flp"].session) ELSE dict
        /\ popped' = [popped EXCEPT !["flp"] = Ses!Idle]
        /\ UNCHANGED <<requestQueues, calling, commands, running, nextId>>
    BY <1>1, Zenon DEF Ses!onResponse
  <1>3. popped'["flp"] = Ses!Idle /\ popped'["gnss"] = popped["gnss"]
    BY <1>2 DEF SessionTypes, Ses!Interface
  <1>4. PICK cmds, run, p, n, over :
          /\ cmds = commands["flp"] /\ run = DOMAIN running /\ p = AnsweredFor(popped["flp"])
          /\ n = nextId /\ over = Ses!LeftOver
    OBVIOUS
  <1>5. /\ BatchEntries(dict, n) /\ BatchCalling(calling, dict, n) /\ BatchCommands(cmds, run, p, n)
        /\ BatchKept(cmds, run, dict, over) /\ BatchAnswering(popped["flp"], run, over)
    BY <1>4 DEF BatchingInv
  <1>6. p = popped["flp"].session
    BY <1>1, <1>4 DEF AnsweredFor
  <1>7. AnsweredFor(popped'["flp"]) = 0 /\ BatchAnswering(popped'["flp"], run, over) /\ Ses!LeftOver' = over
    BY <1>2, <1>3, <1>4 DEF AnsweredFor, BatchAnswering, Ses!LeftOver
  <1>8. BatchCommands(cmds, run, 0, n)
    <2>1. 0 \in 0 .. n - 1
      BY <1>4 DEF SessionTypes
    <2> QED
      BY <1>5, <2>1 DEF BatchCommands
  <1>9. BatchEntries(dict', n) /\ BatchCalling(calling, dict', n) /\ BatchKept(cmds, run, dict', over)
    <2>1. CASE dict' = dict
      BY <1>5, <2>1
    <2>2. CASE dict' # dict
      <3>1. Ses!EndsSession(popped["flp"]) /\ p \in DOMAIN dict.bwd /\ dict' = Ses!RmBySession(dict, p)
        BY <1>2, <1>6, <2>2 DEF Ses!removeSession, Ses!HasSession
      <3>2. dict.bwd[p] \in DOMAIN dict.fwd /\ dict.fwd[dict.bwd[p]] = p
        BY <3>1 DEF DictInv, Agrees
      <3>3. dict.bwd[p] = BatchId
        BY <1>5, <3>2 DEF BatchEntries
      <3>4. DOMAIN dict.bwd = {p}
        BY <1>5, <3>1, <3>2, <3>3 DEF DictInv, Agrees, BatchEntries
      <3>5. DOMAIN dict'.fwd = {} /\ DOMAIN dict'.bwd = {} /\ DOMAIN dict'.ext = {}
        BY <1>5, <3>1, <3>3, <3>4 DEF BatchEntries, Ses!RmBySession, Ses!Erase, Ses!GetId, Ses!HasSession
      <3>6. BatchEntries(dict', n) /\ BatchCalling(calling, dict', n)
        BY <1>5, <3>5 DEF BatchEntries, BatchCalling
      <3>7. ASSUME NEW s, Lives(cmds, run, s), ~over
            PROVE  FALSE
        <4>1. s = p
          BY <1>5, <3>4, <3>7 DEF BatchKept
        <4>2. p \notin run
          BY <1>1, <1>5, <1>6, <3>1, <3>7 DEF BatchAnswering
        <4>3. \A k : ~StartAt(cmds, p, k)
          BY <1>5 DEF BatchCommands
        <4> QED
          BY <3>7, <4>1, <4>2, <4>3 DEF Lives
      <3>8. BatchKept(cmds, run, dict', over)
        BY <3>7 DEF BatchKept
      <3> QED
        BY <3>6, <3>8
    <2> QED
      BY <2>1, <2>2
  <1> QED
    BY <1>2, <1>3, <1>4, <1>7, <1>8, <1>9 DEF BatchingInv, Ses!Idle

\* The entry is written anew for the session the id had when the update was asked.
LEMMA BatchUpdated ==
  ASSUME SessionTypes, DictInv, BatchingInv, Ses!UpdateEntry
  PROVE  BatchingInv'
  <1>1. /\ calling.kind = "commit" /\ calling' = Ses!Idle
        /\ UNCHANGED <<requestQueues, commands, running, popped, nextId>>
        /\ dict' = Ses!SetEntry(Ses!RmById(dict, calling.id), calling.id, calling.session,
                                Ses!Entity(calling.id, calling.mode, calling.session))
    BY Zenon DEF Ses!UpdateEntry
  <1>2. PICK s, n, m : s = calling.session /\ n = nextId /\ m = calling.mode
    OBVIOUS
  <1>3. calling # Ses!Idle
    BY <1>1 DEF Ses!Idle
  <1>4. /\ calling.id = BatchId /\ m \in BatchModes /\ s \in 0 .. n - 1
        /\ BatchId \in DOMAIN dict.fwd => dict.fwd[BatchId] = s
    BY <1>1, <1>2, <1>3 DEF BatchingInv, BatchCalling
  <1>5. BatchEntries(dict, n)
    BY <1>2 DEF BatchingInv
  <1>6. \A t \in DOMAIN dict.bwd : t = s /\ BatchId \in DOMAIN dict.fwd
    BY <1>4, <1>5 DEF BatchEntries, DictInv, Agrees
  <1>7. PICK d : d = Ses!RmById(dict, BatchId)
    OBVIOUS
  <1>8. DOMAIN d.fwd = {} /\ DOMAIN d.bwd = {} /\ DOMAIN d.ext = {}
    <2>1. BatchId \in DOMAIN dict.fwd => Ses!GetSession(dict, BatchId) = s
      BY <1>4 DEF Ses!GetSession, Ses!HasId
    <2> QED
      BY <1>5, <1>6, <1>7, <2>1 DEF Ses!RmById, Ses!Erase, BatchEntries
  <1>9. /\ DOMAIN dict'.fwd = {BatchId} /\ dict'.fwd[BatchId] = s
        /\ DOMAIN dict'.bwd = {s} /\ DOMAIN dict'.ext = {s} /\ dict'.ext[s] = Ses!Entity(BatchId, m, s)
    BY <1>1, <1>2, <1>4, <1>7, <1>8 DEF Ses!SetEntry, Ses!Put
  <1>10. dict'.ext[s].sessionMode \in BatchModes /\ dict'.ext[s].batchingSession = s
    BY <1>4, <1>9 DEF Ses!Entity, BatchModes
  <1>11. BatchEntries(dict', n) /\ BatchCalling(calling', dict', n)
    BY <1>1, <1>4, <1>9, <1>10 DEF BatchEntries, BatchCalling
  <1>12. PICK cmds, run, over : cmds = commands["flp"] /\ run = DOMAIN running /\ over = Ses!LeftOver
    OBVIOUS
  <1>13. BatchKept(cmds, run, dict, over)
    BY <1>12 DEF BatchingInv
  <1>14. BatchKept(cmds, run, dict', over)
    BY <1>6, <1>9, <1>13 DEF BatchKept
  <1>15. Ses!LeftOver' = over
    BY <1>1, <1>12 DEF Ses!LeftOver
  <1> QED
    BY <1>1, <1>2, <1>11, <1>12, <1>14, <1>15 DEF BatchingInv, Ses!Idle

LEMMA BatchingStep ==
  ASSUME SessionTypes, ByIdInv, DictInv, usage = "batching_hal", BatchingInv, [Ses!Next]_sessionVars
  PROVE  BatchingInv'
  <1>1. CASE UNCHANGED <<requestQueues, dict, calling, commands, running, popped, nextId>>
    BY <1>1 DEF BatchingInv, Ses!LeftOver, Ses!Idle
  <1>2. CASE Ses!locAPIStartTracking \/ Ses!locAPIStopTracking \/ Ses!locAPIUpdateTrackingOptions
             \/ \E id \in NiIds : Ses!locAPIGnssNiResponse(id)
    BY <1>2 DEF Ses!locAPIStartTracking, Ses!locAPIStopTracking, Ses!locAPIUpdateTrackingOptions,
                Ses!locAPIGnssNiResponse, ByIdInv
  <1>3. PICK s, d : s = Ses!GetSession(dict, BatchId) /\ d = Ses!AfterGetExtById(dict, calling.id)
    OBVIOUS
  <1>4. nextId \in Nat \ {0}
    BY DEF SessionTypes
  <1>5. calling # Ses!Idle =>
          /\ calling.id = BatchId /\ calling.mode \in BatchModes
          /\ s \in 0 .. nextId - 1
          /\ Ses!Found.batchingSession = s /\ Ses!Found.sessionMode \in BatchModes
          /\ BatchEntries(d, nextId) /\ d.bwd = dict.bwd
          /\ BatchId \in DOMAIN d.fwd /\ d.fwd[BatchId] = s
    BY <1>3, <1>4, BatchLooked
  <1>6. "ON_FIX" \notin BatchModes
    BY DEF BatchModes
  <1>7. CASE Ses!locAPIStopSession
    <2>1. calling # Ses!Idle
      BY <1>7 DEF Ses!locAPIStopSession, Ses!Idle
    <2>2. Ses!Found.sessionMode # "ON_FIX"
      BY <1>5, <1>6, <2>1
    <2>3. /\ Ses!SessionCommand("flp", "stop", s, "StopBatching")
          /\ calling' = Ses!Idle /\ dict' = d /\ UNCHANGED <<running, popped, nextId>>
      BY <1>3, <1>5, <1>7, <2>1, <2>2, Zenon DEF Ses!locAPIStopSession
    <2>4. BatchCalling(calling', dict', nextId)
      BY <2>3 DEF BatchCalling
    <2> QED
      BY <1>5, <2>1, <2>3, <2>4, BatchAsked, Zenon
  <1>8. CASE Ses!locAPIGetBatchedLocations
    <2>1. calling # Ses!Idle
      BY <1>8 DEF Ses!locAPIGetBatchedLocations, Ses!Idle
    <2>2. Ses!Found.sessionMode # "ON_FIX"
      BY <1>5, <1>6, <2>1
    <2>3. /\ Ses!SessionCommand("flp", "flush", s, "GetBatchedLocations")
          /\ calling' = Ses!Idle /\ dict' = d /\ UNCHANGED <<running, popped, nextId>>
      BY <1>3, <1>5, <1>8, <2>1, <2>2, Zenon DEF Ses!locAPIGetBatchedLocations
    <2>4. BatchCalling(calling', dict', nextId)
      BY <2>3 DEF BatchCalling
    <2>5. "GetBatchedLocations" \notin Ending /\ "flush" \in {"update", "flush"}
      BY DEF Ending, Ses!Starting, Ses!Stopping
    <2> QED
      BY <1>5, <2>1, <2>3, <2>4, <2>5, BatchAsked, Zenon
  <1>9. CASE Ses!locAPIUpdateSessionOptions
    <2>1. calling # Ses!Idle
      BY <1>9 DEF Ses!locAPIUpdateSessionOptions, Ses!Idle
    <2>2. Ses!Found.sessionMode # "ON_FIX" /\ calling.mode # "ON_FIX"
      BY <1>5, <1>6, <2>1
    <2>3. /\ Ses!UpdateCommands(Ses!Found, calling.mode)
          /\ calling' = [kind |-> "commit", id |-> calling.id, mode |-> calling.mode,
                         session |-> Ses!SessionAfter(Ses!Found, calling.mode)]
          /\ dict' = d /\ UNCHANGED <<running, popped>>
      BY <1>3, <1>9, Zenon DEF Ses!locAPIUpdateSessionOptions
    <2>4. Ses!SessionCommand("flp", "update", s, "UpdateBatching") /\ nextId' = nextId
      BY <1>5, <2>1, <2>2, <2>3 DEF Ses!UpdateCommands
    <2>5. Ses!SessionAfter(Ses!Found, calling.mode) = s
      BY <1>5, <2>1, <2>2 DEF Ses!SessionAfter
    <2>6. BatchCalling(calling', dict', nextId)
      BY <1>5, <2>1, <2>3, <2>5 DEF BatchCalling
    <2>7. "UpdateBatching" \notin Ending /\ "update" \in {"update", "flush"}
      BY DEF Ending, Ses!Starting, Ses!Stopping
    <2> QED
      BY <1>5, <2>1, <2>3, <2>4, <2>6, <2>7, BatchAsked, Zenon
  <1>10. ASSUME NEW id, NEW call \in {"stop", "flush", "update"}, NEW mode, Ses!FindSession(id, call, mode)
         PROVE  BatchingInv'
    <2>1. /\ id = BatchId /\ mode \in BatchModes
          /\ calling' = [kind |-> call, id |-> id, mode |-> mode]
          /\ UNCHANGED <<requestQueues, dict, commands, running, popped, nextId>>
      BY <1>10, Zenon DEF Ses!FindSession, Ses!AllowedBy, BatchId, BatchModes
    <2>2. BatchCalling(calling', dict, nextId)
      BY <2>1 DEF BatchCalling
    <2> QED
      BY <2>1, <2>2 DEF BatchingInv, Ses!LeftOver, Ses!Idle
  <1>11. CASE Ses!ClientStep
    BY <1>1, <1>2, <1>7, <1>8, <1>9, <1>10, <1>11, BatchBegun, BatchUpdated
    DEF Ses!ClientStep, Ses!locAPISetCallbacks
  <1>12. ASSUME NEW t \in DOMAIN running, Ses!beforeBatchingStatusCb(t)
         PROVE  BatchingInv'
    <2>1. running[t] \in BatchModes
      BY DEF BatchingInv
    <2> QED
      BY <1>12, <2>1 DEF Ses!beforeBatchingStatusCb, BatchModes
  <1>13. CASE Ses!InterfaceStep
    BY <1>12, <1>13, BatchServed, BatchAnswered DEF Ses!InterfaceStep
  <1> QED
    BY <1>1, <1>11, <1>13 DEF Ses!Next, sessionVars

-----------------------------------------------------------------------------
(* Each use has its invariant, and a client keeps to its use. *)

SessionsInv ==
  /\ DictInv /\ SessionTypes /\ ByIdInv
  /\ usage = "gnss_hal" => TrackingInv
  /\ usage = "batching_hal" => BatchingInv

LEMMA SessionsInit ==
  ASSUME Ses!Init
  PROVE  SessionsInv
  <1>1. /\ usage \in Ses!Usage /\ dict = Ses!EmptyDict /\ calling = Ses!Idle /\ running = <<>>
        /\ requestQueues = [t \in Ses!RequestType |-> Ses!Reset(0)]
        /\ commands = [i \in Ses!Interface |-> <<>>] /\ popped = [i \in Ses!Interface |-> Ses!Idle]
        /\ mTracking = FALSE /\ nextId = 1
    BY DEF Ses!Init
  <1>2. Ses!Reset(0).session = 0 /\ Ses!Reset(0).requests = <<>>
    BY DEF Ses!Reset
  <1>3. /\ \A t \in Ses!RequestType : requestQueues[t].session = 0 /\ requestQueues[t].requests = <<>>
        /\ \A i \in Ses!Interface : commands[i] = <<>> /\ popped[i] = Ses!Idle
    BY <1>1, <1>2
  <1>4. IsSeq(<<>>) /\ Len(<<>>) = 0
    BY DEF IsSeq
  <1>5. QueuesTyped(requestQueues)
    <2>1. requestQueues = [t \in Ses!RequestType |-> requestQueues[t]]
      BY <1>1
    <2>2. \A t \in Ses!RequestType :
            requestQueues[t] = [session |-> requestQueues[t].session, requests |-> requestQueues[t].requests]
      BY <1>1, <1>3 DEF Ses!Reset
    <2> QED
      BY <1>3, <1>4, <2>1, <2>2 DEF QueuesTyped
  <1>6. CommandsTyped(commands)
    BY <1>1, <1>4 DEF CommandsTyped
  <1>7. SessionTypes
    BY <1>1, <1>5, <1>6 DEF SessionTypes
  <1>8. DOMAIN dict = {"fwd", "bwd", "ext"} /\ DOMAIN dict.fwd = {} /\ DOMAIN dict.bwd = {}
    BY <1>1 DEF Ses!EmptyDict
  <1>9. DictInv
    BY <1>8 DEF DictInv, Agrees
  <1>10. ByIdInv
    BY <1>3 DEF ByIdInv, Ses!RequestType
  <1>11. /\ "gnss" \in Ses!Interface /\ "flp" \in Ses!Interface
         /\ {"TRACKING", "SESSION", "NIRESPONSE"} \subseteq Ses!RequestType
    BY DEF Ses!Interface, Ses!RequestType
  <1>12. DOMAIN running = {}
    BY <1>1
  <1>13. TrackingInv
    <2>1. Tracked = 0 /\ Watched = 0
      BY <1>1, <1>3, <1>11 DEF Tracked, Watched
    <2>2. \A s, k : ~StartAt(commands["gnss"], s, k)
      BY <1>3, <1>4, <1>11 DEF StartAt
    <2>3. TrackingCommands(commands["gnss"], DOMAIN running, Watched, nextId, refusedStops)
      BY <1>3, <1>4, <1>11, <1>12, <2>2 DEF TrackingCommands
    <2>4. ~Lives(commands["gnss"], DOMAIN running, Tracked)
      BY <1>12, <2>2 DEF Lives
    <2> QED
      BY <1>1, <1>3, <1>4, <1>11, <2>1, <2>3, <2>4 DEF TrackingInv
  <1>14. BatchingInv
    <2>1. BatchEntries(dict, nextId) /\ DOMAIN dict.ext = {}
      BY <1>1, <1>8 DEF BatchEntries, Ses!EmptyDict
    <2>2. \A t, k : ~StartAt(commands["flp"], t, k)
      BY <1>3, <1>4, <1>11 DEF StartAt
    <2>3. AnsweredFor(popped["flp"]) = 0
      BY <1>3, <1>11 DEF AnsweredFor
    <2>4. BatchCommands(commands["flp"], DOMAIN running, AnsweredFor(popped["flp"]), nextId)
      BY <1>1, <1>3, <1>4, <1>11, <1>12, <2>2, <2>3 DEF BatchCommands
    <2>5. \A t : ~Lives(commands["flp"], DOMAIN running, t)
      BY <1>12, <2>2 DEF Lives
    <2>6. BatchLine(requestQueues["SESSION"].requests, commands["flp"])
      BY <1>3, <1>4, <1>11 DEF BatchLine
    <2> QED
      BY <1>1, <1>3, <1>11, <1>12, <2>1, <2>4, <2>5, <2>6
      DEF BatchingInv, BatchCalling, BatchKept, BatchAnswering
  <1> QED
    BY <1>7, <1>9, <1>10, <1>13, <1>14 DEF SessionsInv

LEMMA SessionsStep ==
  ASSUME SessionsInv, [Ses!Next]_sessionVars
  PROVE  SessionsInv'
  <1>1. usage' = usage
    BY Zenon DEF sessionVars, Ses!Next, Ses!ClientStep, Ses!InterfaceStep, Ses!locAPISetCallbacks,
           Ses!locAPIStartTracking, Ses!locAPIStopTracking, Ses!locAPIUpdateTrackingOptions,
           Ses!locAPIGnssNiResponse, Ses!locAPIStartSession, Ses!FindSession, Ses!locAPIStopSession,
           Ses!locAPIGetBatchedLocations, Ses!locAPIUpdateSessionOptions, Ses!UpdateEntry,
           Ses!onResponse, Ses!Serve, Ses!beforeBatchingStatusCb
  <1>2. DictInv' /\ SessionTypes' /\ ByIdInv'
    BY DictStep, SessionTypesStep DEF SessionsInv
  <1> QED
    BY <1>1, <1>2, TrackingStep, BatchingStep DEF SessionsInv

LEMMA SessionsAlways == MCSpec => []SessionsInv
  <1>1. MCInit => SessionsInv
    BY SessionsInit DEF MCInit
  <1>2. SessionsInv /\ [MCNext]_mcvars => SessionsInv'
    BY PartSteps, SessionsStep
  <1> QED
    BY <1>1, <1>2, PTL DEF MCSpec

\* A response reaches the request it answers, for a client that tracks and answers network-
\* initiated requests, whichever stops are refused and whichever commands are not answered,
\* and for a batching client that waits for nothing, until a response comes too late for its
\* session (LocationAPIClientBase.cpp 302-582 and 893-914, GnssAdapter.cpp 1622-1716).
THEOREM AnswersMatch == MCSpec => []SessionAnswersMatch
  <1>1. SessionsInv => SessionAnswersMatch
    <2> SUFFICES ASSUME SessionsInv
                 PROVE  SessionAnswersMatch
      OBVIOUS
    <2>1. usage \in {"gnss_hal", "batching_hal", "sessions"}
      BY DEF SessionsInv, SessionTypes, Ses!Usage
    <2>2. Ses!TrackingResponsesMatch
      <3>1. CASE usage = "gnss_hal"
        BY <3>1 DEF SessionsInv, TrackingInv, Ses!TrackingResponsesMatch, Ses!Interface
      <3>2. CASE usage # "gnss_hal"
        BY <3>2 DEF SessionsInv, ByIdInv, Ses!TrackingResponsesMatch
      <3> QED
        BY <3>1, <3>2
    <2>3. Ses!BatchingResponsesMatch
      <3> SUFFICES ASSUME usage = "batching_hal", NEW i \in Ses!Interface, ~Ses!LeftOver, popped[i] # Ses!Idle
                   PROVE  popped[i].kind = popped[i].answers.req
        BY DEF Ses!BatchingResponsesMatch, Ses!Matches
      <3>1. i = "flp"
        BY DEF Ses!Interface, SessionsInv, BatchingInv
      <3> QED
        BY <3>1 DEF SessionsInv, BatchingInv, BatchAnswering
    <2> QED
      BY <2>2, <2>3 DEF SessionAnswersMatch
  <1> QED
    BY SessionsAlways, <1>1, PTL

\* A session that an interface runs can still be stopped by its client, but for one whose stop
\* was refused and but for a batching client with a request left over, and the two directions
\* of the client's dictionary agree (LocationAPIClientBase.cpp 302-466 and 887-891,
\* LocationAPIClientBase.h 270-381, GnssAdapter.cpp 1703-1711).
THEOREM SessionsKnown == MCSpec => []SessionsAreKnown
  <1>1. SessionsInv => SessionsAreKnown
    <2> SUFFICES ASSUME SessionsInv
                 PROVE  SessionsAreKnown
      OBVIOUS
    <2>1. Ses!DictAgrees
      BY DEF SessionsInv, DictInv, Agrees, Ses!DictAgrees, Ses!GetSession, Ses!HasId
    <2>2. Ses!RunningIsKnown
      <3> SUFFICES ASSUME usage # "sessions", NEW s \in DOMAIN running
                   PROVE  \/ mTracking /\ requestQueues["TRACKING"].session = s
                          \/ Ses!HasSession(dict, s)
                          \/ Ses!StopSent(s)
                          \/ usage = "gnss_hal" /\ s \in refusedStops
                          \/ usage = "batching_hal" /\ Ses!LeftOver
        BY DEF Ses!RunningIsKnown
      <3>1. CASE usage = "gnss_hal"
        <4>1. s # 0 /\ (s = Watched \/ (\E k : StopAt(commands["gnss"], s, k)) \/ s \in refusedStops)
          BY <3>1 DEF SessionsInv, TrackingInv, TrackingCommands
        <4>2. s = Watched => mTracking /\ requestQueues["TRACKING"].session = s
          BY <4>1 DEF Watched, Tracked
        <4>3. \A k : StopAt(commands["gnss"], s, k) => Ses!StopSent(s)
          BY DEF StopAt, Ses!StopSent, Ses!Interface
        <4> QED
          BY <3>1, <4>1, <4>2, <4>3
      <3>2. CASE usage = "batching_hal"
        <4>1. Lives(commands["flp"], DOMAIN running, s)
          BY DEF Lives
        <4> QED
          BY <3>2, <4>1 DEF SessionsInv, BatchingInv, BatchKept, Ses!HasSession
      <3>3. usage \in {"gnss_hal", "batching_hal", "sessions"}
        BY DEF SessionsInv, SessionTypes, Ses!Usage
      <3> QED
        BY <3>1, <3>2, <3>3
    <2> QED
      BY <2>1, <2>2 DEF SessionsAreKnown
  <1> QED
    BY SessionsAlways, <1>1, PTL
=============================================================================
