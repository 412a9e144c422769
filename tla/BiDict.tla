------------------------------- MODULE BiDict -------------------------------
(***************************************************************************)
(* BiDict of gps/location/LocationAPIClientBase.h: the two-way map between *)
(* the ids a client of LocationAPI uses and the sessions LocationAPI gave  *)
(* it, with a piece of data per session.  It is three std::maps that only  *)
(* agree as long as set is never called for an id that has a session.      *)
(***************************************************************************)
EXTENDS Naturals

EmptyDict == [fwd |-> <<>>, bwd |-> <<>>, ext |-> <<>>]

Put(map, key, value) ==
  [k \in DOMAIN map \union {key} |-> IF k = key THEN value ELSE map[k]]

Erase(map, key) == [k \in DOMAIN map \ {key} |-> map[k]]

HasId(dict, id) == id \in DOMAIN dict.fwd
HasSession(dict, session) == session \in DOMAIN dict.bwd

\* Neither the session the id had nor its data is erased.
SetEntry(dict, id, session, data) ==
  [fwd |-> Put(dict.fwd, id, session),
   bwd |-> Put(dict.bwd, session, id),
   ext |-> Put(dict.ext, session, data)]

GetSession(dict, id) == IF HasId(dict, id) THEN dict.fwd[id] ELSE 0
GetId(dict, session) == IF HasSession(dict, session) THEN dict.bwd[session] ELSE 0

RmById(dict, id) ==
  [fwd |-> Erase(dict.fwd, id),
   bwd |-> Erase(dict.bwd, GetSession(dict, id)),
   ext |-> Erase(dict.ext, GetSession(dict, id))]

RmBySession(dict, session) ==
  [fwd |-> Erase(dict.fwd, GetId(dict, session)),
   bwd |-> Erase(dict.bwd, session),
   ext |-> Erase(dict.ext, session)]

\* zero: the value of ext after memset
GetExtBySession(dict, session, zero) ==
  IF session \in DOMAIN dict.ext THEN dict.ext[session] ELSE zero

GetExtById(dict, id, zero) ==
  IF GetSession(dict, id) > 0 THEN GetExtBySession(dict, GetSession(dict, id), zero) ELSE zero

\* getExtById reads mForwardMap[id], which inserts session 0 if the id has none.
AfterGetExtById(dict, id) ==
  IF HasId(dict, id) THEN dict ELSE [dict EXCEPT !.fwd = Put(dict.fwd, id, 0)]

GetAllSessions(dict) == DOMAIN dict.bwd
=============================================================================
