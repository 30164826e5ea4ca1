------------------------------ MODULE PaseCliAsync ------------------------------
(***************************************************************************)
(* The asynchronous forms of the calls (PaseCliAsync_gen.c): SQLxxxAsync    *)
(* creates a thread, SQLxxxThread makes the call in it, runs the client's   *)
(* callback and exits, SQLxxxJoin waits for the thread or polls it.  One    *)
(* client thread creates and joins; every other thread runs one job, and    *)
(* may call the driver from its callback.  MaxCalls bounds the calls each   *)
(* thread makes or submits.                                                 *)
(***************************************************************************)
EXTENDS PaseCliCall

CONSTANTS
  Main,      \* the client's thread, the only one that joins
  JoinFlags  \* the flags it joins with

ASSUME AsyncAssumption ==
  /\ Main \in Threads
  /\ JoinFlags \subseteq {"WAIT", "NO_WAIT"}
  /\ Ops \subseteq {"StmtCall", "ConnCall", "EndTran", "Disconnect"}

VARIABLES
  job,   \* what becomes of the thread SQLxxxAsync created
  join   \* the SQLxxxJoin the client is in

asyncVars == <<table, mutex, glock, db2, call, known, calls, job, join>>

Children == Threads \ {Main}

\* callback: one was passed; ran: it has been called.
Job == [at : {"none", "created", "running", "callback", "exited", "joined"},
        op : Ops \cup {"none"}, h : Slots, callback : BOOLEAN, ran : BOOLEAN]

NoJob == [at |-> "none", op |-> "none", h |-> 0, callback |-> FALSE, ran |-> FALSE]

Join == [tid : Children \cup {NoThread}, flag : JoinFlags \cup {"none"}]

NoJoin == [tid |-> NoThread, flag |-> "none"]

AsyncTypeOK ==
  /\ TypeOK
  /\ job \in [Children -> Job]
  /\ join \in Join

AsyncInit ==
  /\ Init
  /\ job = [c \in Children |-> NoJob]
  /\ join = NoJoin

-----------------------------------------------------------------------------
(* SQLxxxAsync                                                               *)

MainFree == call[Main].at = "idle" /\ join = NoJoin

\* A job that has not begun its call also uses its handle.
PendingOn(h) ==
  \E c \in Children : job[c].at = "created" /\ db2[job[c].h].parent = h

\* The client creates the thread of a call.  A careful one disconnects only a
\* connection that no other call uses.
Async(c, op, h, callback) ==
  /\ MainFree /\ calls[Main] < MaxCalls
  /\ job[c].at = "none"
  /\ op \in Ops /\ h \in known
  /\ db2[h].kind = IF op = "StmtCall" THEN "stmt" ELSE "dbc"
  /\ op = "Disconnect" =>
       ~InUseByOthers(Main, h) /\ ~PendingOn(h)
  /\ known' = IF op = "Disconnect" THEN known \ GivenBack(h) ELSE known
  /\ job' = [job EXCEPT ![c] = [at |-> "created", op |-> op, h |-> h,
                                 callback |-> callback, ran |-> FALSE]]
  /\ calls' = [calls EXCEPT ![Main] = @ + 1]
  /\ UNCHANGED <<table, mutex, glock, db2, call, join>>

-----------------------------------------------------------------------------
(* SQLxxxThread                                                              *)

FirstLabel(op) ==
  CASE op = "EndTran"    -> "bare"
    [] op = "Disconnect" -> "check"
    [] OTHER             -> "want"

ThreadStarts(c) ==
  /\ job[c].at = "created"
  /\ Begin(c, job[c].op, job[c].h, FirstLabel(job[c].op))
  /\ job' = [job EXCEPT ![c].at = "running"]
  /\ UNCHANGED <<known, join>>

\* Mutant of Refused: the check for a key is made in every function.
RefusedAlways(c) == HashActive(table, job[c].h)

\* SQLDisconnectThread exits at once when the connection is persistent.
Refused(c) == job[c].op = "Disconnect" /\ HashActive(table, job[c].h)

\* The call in the thread has returned, locks released.
ThreadCalled(c) ==
  /\ job[c].at = "running" /\ call[c].at = "idle"
  /\ IF job[c].callback /\ ~Refused(c)
     THEN job' = [job EXCEPT ![c].at = "callback", ![c].ran = TRUE]
     ELSE job' = [job EXCEPT ![c].at = "exited"]
  /\ UNCHANGED <<table, mutex, glock, db2, call, known, calls, join>>

CallbackReturns(c) ==
  /\ job[c].at = "callback" /\ call[c].at = "idle"
  /\ job' = [job EXCEPT ![c].at = "exited"]
  /\ UNCHANGED <<table, mutex, glock, db2, call, known, calls, join>>

-----------------------------------------------------------------------------
(* SQLxxxJoin                                                                *)

\* init_table_in_progress, or 0 in the functions that take no lock.
Active(c) == job[c].op # "EndTran" /\ InProgress(table, c)

\* A thread that is active answers NULL to a join that may not wait, and nothing
\* has changed; otherwise the client goes on to pthread_join.
JoinAsks(c, flag) ==
  /\ MainFree
  /\ job[c].at \notin {"none", "joined"}
  /\ flag = "WAIT" \/ ~Active(c)
  /\ join' = [tid |-> c, flag |-> flag]
  /\ UNCHANGED <<table, mutex, glock, db2, call, known, calls, job>>

\* pthread_join returns when the thread has exited.
JoinReturns ==
  /\ join # NoJoin
  /\ job[join.tid].at = "exited"
  /\ job' = [job EXCEPT ![join.tid].at = "joined"]
  /\ join' = NoJoin
  /\ UNCHANGED <<table, mutex, glock, db2, call, known, calls>>

-----------------------------------------------------------------------------
\* Calls of the client's own, and of a callback; a release must leave the handles
\* of the jobs that have not begun alone.
DirectCall(t) ==
  /\ IF t = Main THEN join = NoJoin ELSE job[t].at = "callback"
  /\ \E h \in HandleNums :
       \/ BeginStmtCall(t, h)
       \/ BeginConnCall(t, h)
       \/ BeginDisconnect(t, h) /\ ~PendingOn(h)
  /\ UNCHANGED <<job, join>>

DriverStep(t) == CallStep(t) /\ UNCHANGED <<job, join>>

ThreadStep(c) == ThreadStarts(c) \/ ThreadCalled(c) \/ CallbackReturns(c)

\* Every job is done and joined, or the client does not care to join it.
AllDone ==
  /\ join = NoJoin
  /\ \A t \in Threads : call[t].at = "idle"
  /\ \A c \in Children : job[c].at \in {"none", "exited", "joined"}
  /\ UNCHANGED asyncVars

AsyncNext ==
  \/ \E c \in Children :
       \/ \E op \in Ops, h \in HandleNums, callback \in BOOLEAN : Async(c, op, h, callback)
       \/ ThreadStep(c)
       \/ \E flag \in JoinFlags : JoinAsks(c, flag)
  \/ JoinReturns
  \/ \E t \in Threads : DirectCall(t) \/ DriverStep(t)
  \/ AllDone

AsyncSpec == AsyncInit /\ [][AsyncNext]_asyncVars

\* Threads run; pthread_join returns when it can.
AsyncFairSpec ==
  /\ AsyncSpec
  /\ \A t \in Threads : WF_asyncVars(DriverStep(t))
  /\ \A c \in Children : WF_asyncVars(ThreadStep(c))
  /\ WF_asyncVars(JoinReturns)

\* And the client keeps joining the threads it has created.
PollingSpec ==
  /\ AsyncFairSpec
  /\ \A c \in Children : WF_asyncVars(\E flag \in JoinFlags : JoinAsks(c, flag))

-----------------------------------------------------------------------------
(* Properties                                                                *)

\* The callback of an asynchronous call runs with no lock held, so it may call
\* the driver on any connection, and runs before the thread can be joined.
CallbackHoldsNothing ==
  \A c \in Children :
    /\ job[c].at = "callback" /\ call[c].at = "idle"
    => glock # c /\ \A s \in Slots : mutex[s].owner # c

\* "choose either callback or join" (PaseCliAsync.h): the thread of a call with a
\* callback does not exit without having run it, unless it is an SQLDisconnect
\* that the driver refused because the connection is persistent.
CallbackRan ==
  \A c \in Children :
    /\ job[c].at \in {"exited", "joined"} /\ job[c].callback
    => job[c].ran \/ (job[c].op = "Disconnect" /\ job[c].h \in Pooled)

\* Every thread created exits, whatever the client, the other jobs and the
\* callbacks do meanwhile, and whether or not anybody joins it.
JobsExit == \A c \in Children : job[c].at = "created" ~> job[c].at \in {"exited", "joined"}

\* "SQL400_FLAG_JOIN_WAIT - block until complete" (PaseCliAsync.h): a join that
\* has reached pthread_join returns.
JoinsReturn == join # NoJoin ~> join = NoJoin

\* "SQL400_FLAG_JOIN_NO_WAIT - no block" (PaseCliAsync.h): a client that asked not
\* to wait reaches pthread_join only for a thread that has exited.
NoWaitDoesNotBlock ==
  join.flag = "NO_WAIT" => job[join.tid].at = "exited"

\* "NULL still executing" (PaseCliAsync.h): a client that polls a thread which has
\* exited gets its answer (tests/c/test2000_sql400json_async.c polls so).
PollingEnds == \A c \in Children : job[c].at = "exited" ~> job[c].at = "joined"
=============================================================================
