----------------------------- MODULE LocThread ------------------------------
(***************************************************************************)
(* A thread and the object its parent shares with it                       *)
(* (gps/utils/LocThread.cpp).  The LocThreadDelegate is counted by both    *)
(* sides; mRunnable is read and written by both without a lock, and is the *)
(* flag that ends the thread's loop.  What a call of run() does and        *)
(* returns is left to the module that extends this one.                    *)
(***************************************************************************)
EXTENDS Integers

VARIABLES
  thr,         \* the spawned thread, at its step of threadMain
  parent,      \* the parent, at its step of start, stop or the destructor
  mRunnable,   \* is it non NULL?
  mJoinable,
  mRefCount,
  delegate,    \* "none", "live" or "deleted"
  runnable     \* the LocRunnable: "live" or "deleted"

threadVars == <<thr, parent, mRunnable, mJoinable, mRefCount, delegate, runnable>>

ThreadInit ==
  /\ thr = "none" /\ parent = "idle" /\ mRunnable = FALSE /\ mJoinable = FALSE
  /\ mRefCount = 0 /\ delegate = "none" /\ runnable = "live"

-----------------------------------------------------------------------------
\* Mutant: the first side to let go deletes the delegate.
DropReference_First ==
  /\ mRefCount' = IF mRefCount > 0 THEN mRefCount - 1 ELSE mRefCount
  /\ delegate' = "deleted"

\* LocThreadDelegate::destroy
DropReference ==
  /\ mRefCount' = IF mRefCount > 0 THEN mRefCount - 1 ELSE mRefCount
  /\ delegate' = IF mRefCount = 1 THEN "deleted" ELSE delegate

(* The parent *)

\* The constructor: the thread runs from here on, or pthread_create has failed
create(joinable) ==
  /\ parent = "idle" /\ parent' = "created" /\ delegate' = "live"
  /\ \/ thr' = "begin" /\ mRunnable' = TRUE /\ mJoinable' = joinable /\ mRefCount' = 2
     \/ thr' = "none" /\ mRunnable' = FALSE /\ mJoinable' = FALSE /\ mRefCount' = 1
  /\ UNCHANGED runnable

\* start returns whether the delegate is running when it is looked at
started ==
  /\ parent = "created"
  /\ \/ mRunnable /\ parent' = "owns" /\ UNCHANGED <<mRefCount, delegate>>
     \/ ~mRunnable /\ parent' = "failed" /\ DropReference
  /\ UNCHANGED <<thr, mRunnable, mJoinable, runnable>>

\* The destructor of LocThread
bye ==
  /\ parent = "leaving"
  /\ \/ mJoinable /\ parent' = "join" /\ mRunnable' = FALSE /\ mJoinable' = FALSE
     \/ ~mJoinable /\ parent' = "release" /\ UNCHANGED <<mRunnable, mJoinable>>
  /\ UNCHANGED <<thr, mRefCount, delegate, runnable>>

join ==
  /\ parent = "join" /\ thr = "done" /\ parent' = "release"
  /\ UNCHANGED <<thr, mRunnable, mJoinable, mRefCount, delegate, runnable>>

release ==
  /\ parent = "release" /\ parent' = "gone" /\ DropReference
  /\ UNCHANGED <<thr, mRunnable, mJoinable, runnable>>

(* threadMain *)

begin ==
  /\ thr = "begin" /\ thr' = IF mRunnable THEN "prerun" ELSE "release"
  /\ UNCHANGED <<parent, mRunnable, mJoinable, mRefCount, delegate, runnable>>

prerun ==
  /\ thr = "prerun" /\ thr' = "loop"
  /\ UNCHANGED <<parent, mRunnable, mJoinable, mRefCount, delegate, runnable>>

loop ==
  /\ thr = "loop" /\ thr' = IF mRunnable THEN "run" ELSE "postrun"
  /\ UNCHANGED <<parent, mRunnable, mJoinable, mRefCount, delegate, runnable>>

\* A call of run() that returned `again'
ran(again) ==
  /\ thr = "run" /\ thr' = IF again THEN "loop" ELSE "postrun"
  /\ UNCHANGED <<parent, mRunnable, mJoinable, mRefCount, delegate, runnable>>

\* Clears mRunnable and deletes the runnable
postrun ==
  /\ thr = "postrun" /\ thr' = "release"
  /\ mRunnable' = FALSE /\ runnable' = "deleted"
  /\ UNCHANGED <<parent, mJoinable, mRefCount, delegate>>

leave ==
  /\ thr = "release" /\ thr' = "done" /\ DropReference
  /\ UNCHANGED <<parent, mRunnable, mJoinable, runnable>>

-----------------------------------------------------------------------------
(* Properties *)

\* Neither side touches the delegate after it is deleted, whichever lets go of it first, and
\* it does not outlive both (LocThreadDelegate::destroy, and the join before it in stop).
DelegateIsShared ==
  delegate = "deleted" <=> thr \in {"none", "done"} /\ parent \in {"failed", "gone"}
=============================================================================
