------------------------------ MODULE PaseCliCall ------------------------------
(***************************************************************************)
(* The exported SQLxxx functions of the driver (PaseCliAsync_gen.c), run by *)
(* the threads of one process.  The generator gives the functions six       *)
(* shapes, so six families of calls stand for all of them:                  *)
(*   - allocation of a connection or of a statement, under the global lock; *)
(*   - release of a statement or of a connection, under the global lock;    *)
(*   - a call on a statement, under the mutex of its connection (flag 1);   *)
(*   - a call on a connection, under its own mutex (flag 0);                *)
(*   - SQLDisconnect, which refuses a persistent connection first;          *)
(*   - a call that takes no lock (SQLEndTran).                              *)
(* A call is split where another thread can come between: after the table   *)
(* was read to choose a mutex, inside DB2, between DB2's answer and the     *)
(* update of the table.                                                     *)
(***************************************************************************)
EXTENDS Db2Cli

CONSTANTS
  MaxCalls,  \* calls each thread makes (bounds a run)
  Opened,    \* pairs <<handle, connection>> open when the run starts
  Pooled,    \* connections of Opened that are persistent (at most one)
  Ops,       \* the operations the clients use
  Careful,   \* TRUE: nobody releases or closes a handle another thread is using
  Faults     \* TRUE: DB2 may refuse a request

CallOps == {"AllocConnect", "AllocStmt", "Connect", "StmtCall", "ConnCall",
            "EndTran", "FreeStmtDrop", "FreeStmtClose", "Disconnect", "FreeConnect"}

\* The aggregate SQL400 functions, made of several of those (SQL400Connect.tla).
LongOps == {"SQL400Connect", "SQL400pConnect", "SQL400Close", "SQL400pClose",
            "SQL400CloseAllStmts"}

ASSUME CallAssumption ==
  /\ MaxCalls \in Nat
  /\ Opened \subseteq HandleNums \X HandleNums
  /\ \A p, q \in Opened : p[1] = q[1] => p = q
  /\ \A p \in Opened : <<p[2], p[2]>> \in Opened
  /\ Pooled \subseteq {p[2] : p \in Opened}
  /\ \A g, h \in Pooled : g = h
  /\ Pooled # {} => Keys # {}
  /\ Ops \subseteq CallOps \cup LongOps
  /\ Careful \in BOOLEAN
  /\ Faults \in BOOLEAN

VARIABLES
  table,  \* IBMiTable without its mutexes
  mutex,  \* IBMiTable[h].threadMutexLock
  glock,  \* owner of threadMutexLock (init_lock, init_unlock)
  db2,    \* the handles DB2 knows
  call,   \* what each thread is doing
  known,  \* handles the clients hold: returned to one of them, not given back
  calls   \* calls each thread has made

vars == <<table, mutex, glock, db2, call, known, calls>>

\* The second line is for the aggregate functions.
Labels == {"idle", "check", "glock", "table", "want", "db2", "bare",
           "lookup", "addhash", "setup", "cmdtable", "cmd", "active", "stmts",
           "free", "freed", "dtor", "bye", "byelock", "byetable", "unlock"}

\* at: where the thread is; h: the handle it passed; c: the connection DB2
\* files that handle under; m: the slot whose mutex it asks for; o: another
\* handle, the one allocated or the statement a loop is at; key, active: locals
\* of SQL400pConnect and SQL400Close.
Call == [at : Labels, op : CallOps \cup LongOps \cup {"none"}, h : Slots, c : Slots,
         m : Slots, o : Slots, key : Keys \cup {NoKey}, active : BOOLEAN]

Started(label, op, h, c, m) ==
  [at |-> label, op |-> op, h |-> h, c |-> c, m |-> m, o |-> 0,
   key |-> NoKey, active |-> FALSE]

NoCall == Started("idle", "none", 0, 0, 0)

TypeOK ==
  /\ table \in [Slots -> Slot]
  /\ mutex \in [Slots -> Mutex]
  /\ glock \in Threads \cup {NoThread}
  /\ db2 \in [Slots -> Db2Handle]
  /\ call \in [Threads -> Call]
  /\ known \in SUBSET Slots
  /\ calls \in [Threads -> 0 .. MaxCalls]

\* Every handle in Opened has been allocated and, for a connection, connected;
\* nobody is in a call.
OpenedUnder(h) == {p[2] : p \in {q \in Opened : q[1] = h}}

OpenedSlot(h) ==
  [hstmt |-> h, hdbc |-> CHOOSE c \in OpenedUnder(h) : TRUE, tid |-> NoThread,
   in_progress |-> 0, hKey |-> IF h \in Pooled THEN CHOOSE k \in Keys : TRUE ELSE NoKey,
   thread_init |-> TRUE]

Init ==
  /\ table = [h \in Slots |-> IF OpenedUnder(h) = {} THEN ZeroSlot ELSE OpenedSlot(h)]
  /\ mutex = [h \in Slots |-> FreeMutex]
  /\ glock = NoThread
  /\ db2 = [h \in Slots |->
              IF OpenedUnder(h) = {} THEN Db2Free
              ELSE LET c == CHOOSE x \in OpenedUnder(h) : TRUE
                   IN [kind |-> IF c = h THEN "dbc" ELSE "stmt", parent |-> c,
                       connected |-> c = h]]
  /\ call = [t \in Threads |-> NoCall]
  /\ known = {p[1] : p \in Opened}
  /\ calls = [t \in Threads |-> 0]

-----------------------------------------------------------------------------
(* What a client does                                                        *)

\* The second argument of init_table_lock and init_table_unlock.
Flag(op) == IF op = "StmtCall" THEN 1 ELSE 0

Goto(t, label) == call' = [call EXCEPT ![t].at = label]

\* The call returns and hands the client the handles of back.
Return(t, back) ==
  /\ call' = [call EXCEPT ![t] = NoCall]
  /\ known' = known \cup back

\* The handles a release of h takes from the clients: a connection's statements
\* go with it.
GivenBack(h) == IF db2[h].kind = "dbc" THEN {x \in known : db2[x].parent = h} ELSE {h}

\* Another thread is in a call that a release of h would disturb.
InUseByOthers(t, h) ==
  \E u \in Threads \ {t} :
    /\ call[u].at # "idle"
    /\ IF db2[h].kind = "dbc" THEN call[u].c = h ELSE call[u].h = h

\* A thread starts a call on a handle some client holds.
Begin(t, op, h, label) ==
  /\ op \in Ops
  /\ call[t].at = "idle"
  /\ calls[t] < MaxCalls
  /\ calls' = [calls EXCEPT ![t] = @ + 1]
  /\ call' = [call EXCEPT ![t] = Started(label, op, h, db2[h].parent,
                                          LockIndex(table, h, Flag(op)))]
  /\ UNCHANGED <<table, mutex, glock, db2>>

BeginAllocConnect(t) == Begin(t, "AllocConnect", 0, "glock") /\ UNCHANGED known

BeginAllocStmt(t, h) ==
  /\ h \in known /\ db2[h].kind = "dbc"
  /\ Begin(t, "AllocStmt", h, "glock")
  /\ UNCHANGED known

\* The read of IBMiTable[hstmt].hdbc that chooses the mutex happens here, before
\* the thread blocks on it.
BeginStmtCall(t, h) ==
  /\ h \in known /\ db2[h].kind = "stmt"
  /\ Careful => \A u \in Threads : ~(call[u].op = "FreeStmtClose" /\ call[u].h = h)
  /\ Begin(t, "StmtCall", h, "want")
  /\ UNCHANGED known

BeginConnCall(t, h) ==
  /\ h \in known /\ db2[h].kind = "dbc"
  /\ Begin(t, "ConnCall", h, "want")
  /\ UNCHANGED known

BeginConnect(t, h) ==
  /\ h \in known /\ db2[h].kind = "dbc" /\ ~db2[h].connected
  /\ Begin(t, "Connect", h, "want")
  /\ UNCHANGED known

BeginEndTran(t, h) ==
  /\ h \in known /\ db2[h].kind = "dbc"
  /\ Begin(t, "EndTran", h, "bare")
  /\ UNCHANGED known

\* SQL_DROP (or SQLFreeHandle) gives the statement back; SQL_CLOSE, SQL_UNBIND
\* and SQL_RESET_PARAMS keep it.
BeginFreeStmt(t, h) ==
  /\ h \in known /\ db2[h].kind = "stmt"
  /\ Careful => ~InUseByOthers(t, h)
  /\ \/ Begin(t, "FreeStmtDrop", h, "glock") /\ known' = known \ {h}
     \/ Begin(t, "FreeStmtClose", h, "glock") /\ UNCHANGED known

BeginRelease(t, op, h) ==
  /\ h \in known /\ db2[h].kind = "dbc"
  /\ Careful => ~InUseByOthers(t, h)
  /\ Begin(t, op, h, "check")
  /\ known' = known \ GivenBack(h)

\* A careful client frees a connection only when it is not connected: otherwise
\* DB2 refuses, and the driver forgets the connection nevertheless.
BeginDisconnect(t, h) == BeginRelease(t, "Disconnect", h)
BeginFreeConnect(t, h) ==
  /\ Careful => ~db2[h].connected
  /\ BeginRelease(t, "FreeConnect", h)

-----------------------------------------------------------------------------
(* The resource locks                                                        *)

\* init_table_lock: pthread_mutex_lock returns, then the slot is marked through
\* an index read again.  Locking a mutex nobody initialised (slot 0) is undefined:
\* it may work like any other or fail, and the code does not look.
TableLock(t) ==
  LET h == call[t].h
      m == call[t].m
  IN  /\ call[t].at = "want"
      /\ \/ /\ MayLock(mutex[m], t)
            /\ mutex' = [mutex EXCEPT ![m] = Locked(@, t)]
         \/ /\ ~table[m].thread_init
            /\ UNCHANGED mutex
      /\ table' = MarkBusy(table, h, Flag(call[t].op), t)
      /\ Goto(t, "db2")
      /\ UNCHANGED <<glock, db2, known, calls>>

\* Mutant of TableUnlock: the flag is lost, the mutex of the handle's own slot is
\* released.
TableUnlockOwnSlot(t) ==
  LET h == call[t].h
  IN  /\ table' = MarkIdle(table, h, Flag(call[t].op))
      /\ mutex' = [mutex EXCEPT ![h] = Unlocked(@, t)]

\* init_table_unlock: the mutex released is the one the table names now.
TableUnlock(t) ==
  LET h == call[t].h
      f == Flag(call[t].op)
  IN  /\ table' = MarkIdle(table, h, f)
      /\ mutex' = [mutex EXCEPT ![LockIndex(table, h, f)] = Unlocked(@, t)]

-----------------------------------------------------------------------------
(* Calls under a resource lock, and calls under none                         *)

\* Mutant of LockedCallReturns: a return before the unlock.
LockedCallReturnsEarly(t) ==
  /\ call[t].at = "db2" /\ call[t].op \in {"StmtCall", "ConnCall"}
  /\ Return(t, {})
  /\ UNCHANGED <<table, mutex, glock, db2, calls>>

\* The tail of every statement and connection call: ILE_SQLxxx has answered.
LockedCallReturns(t) ==
  /\ call[t].at = "db2" /\ call[t].op \in {"StmtCall", "ConnCall"}
  /\ TableUnlock(t)
  /\ Return(t, {})
  /\ UNCHANGED <<glock, db2, calls>>

\* SQLConnect: the answer of DB2 to the one call that connects.
ConnectReturns(t) ==
  /\ call[t].at = "db2" /\ call[t].op = "Connect"
  /\ \/ db2' = Db2Connect(db2, call[t].h)
     \/ Faults /\ UNCHANGED db2
  /\ TableUnlock(t)
  /\ Return(t, {})
  /\ UNCHANGED <<glock, calls>>

\* SQLEndTran answers; no lock was taken and none is released.
BareCallReturns(t) ==
  /\ call[t].at = "bare" /\ call[t].op = "EndTran"
  /\ Return(t, {})
  /\ UNCHANGED <<table, mutex, glock, db2, calls>>

\* The handles the clients hold again when a release of h is refused: not a
\* statement another thread frees meanwhile.
KeptUnder(h) ==
  {h} \cup {s \in Db2Stmts(db2, h) :
             \A u \in Threads : call[u].op = "FreeStmtDrop" => call[u].h # s}

\* The answer of DB2 to SQLDisconnect: it refuses while a transaction is open.
DisconnectReturns(t) ==
  LET h == call[t].h
  IN  /\ call[t].at = "db2" /\ call[t].op = "Disconnect"
      /\ \/ /\ db2' = Db2Disconnect(db2, h)
            /\ Return(t, {h})
         \/ /\ Faults
            /\ UNCHANGED db2
            /\ Return(t, KeptUnder(h))
      /\ TableUnlock(t)
      /\ UNCHANGED <<glock, calls>>

\* init_table_hash_active under the global lock: SQLDisconnect and SQLFreeConnect
\* leave a persistent connection alone.
CheckPersistent(t) ==
  LET h == call[t].h
  IN  /\ call[t].at = "check" /\ call[t].op \in {"Disconnect", "FreeConnect"}
      /\ glock = NoThread
      /\ IF HashActive(table, h)
         THEN Return(t, KeptUnder(h))
         ELSE /\ Goto(t, IF call[t].op = "Disconnect" THEN "want" ELSE "glock")
              /\ UNCHANGED known
      /\ UNCHANGED <<table, mutex, glock, db2, calls>>

-----------------------------------------------------------------------------
(* Allocation and release, under the global lock                             *)

WithNew(c, o) == [c EXCEPT !.at = "table", !.o = o]

\* init_lock and the ILE allocation.  When DB2 has no handle to give, or refuses,
\* the lock is released and nothing else changes.
AllocInDb2(t) ==
  /\ call[t].at = "glock" /\ call[t].op \in {"AllocConnect", "AllocStmt"}
  /\ glock = NoThread
  /\ \/ \E o \in HandleNums :
          /\ ~Db2Alive(db2, o)
          /\ \/ call[t].op = "AllocConnect" /\ db2' = Db2NewDbc(db2, o)
             \/ /\ call[t].op = "AllocStmt" /\ db2[call[t].h].connected
                /\ db2' = Db2NewStmt(db2, o, call[t].h)
          /\ call' = [call EXCEPT ![t] = WithNew(call[t], o)]
          /\ glock' = t
          /\ UNCHANGED known
     \/ /\ \/ Faults
           \/ \A o \in HandleNums : Db2Alive(db2, o)
           \/ call[t].op = "AllocStmt" /\ ~db2[call[t].h].connected
        /\ Return(t, {})
        /\ UNCHANGED <<glock, db2>>
  /\ UNCHANGED <<table, mutex, calls>>

\* init_table_ctor, init_unlock: the handle is the client's from now on.
AllocInTable(t) ==
  LET o == call[t].o
  IN  /\ call[t].at = "table" /\ call[t].op \in {"AllocConnect", "AllocStmt"}
      /\ table' = Ctor(table, o, IF call[t].op = "AllocConnect" THEN o ELSE call[t].h)
      /\ glock' = NoThread
      /\ Return(t, {o})
      /\ UNCHANGED <<mutex, db2, calls>>

\* init_lock and the ILE release.
FreeInDb2(t) ==
  LET h == call[t].h
  IN  /\ call[t].at = "glock"
      /\ glock = NoThread
      /\ \/ call[t].op = "FreeStmtDrop" /\ db2' = Db2FreeStmt(db2, h)
         \/ call[t].op = "FreeStmtClose" /\ UNCHANGED db2
         \/ call[t].op = "FreeConnect" /\ db2' = Db2FreeDbc(db2, h)
      /\ glock' = t
      /\ Goto(t, "table")
      /\ UNCHANGED <<table, mutex, known, calls>>

\* init_table_dtor whatever DB2 answered and, for SQLFreeStmt, whatever the
\* option asked for; init_unlock.
FreeInTable(t) ==
  /\ call[t].at = "table"
  /\ call[t].op \in {"FreeStmtDrop", "FreeStmtClose", "FreeConnect"}
  /\ table' = Dtor(table, call[t].h)
  /\ glock' = NoThread
  /\ Return(t, {})
  /\ UNCHANGED <<mutex, db2, calls>>

-----------------------------------------------------------------------------
BeginCall(t) ==
  \/ BeginAllocConnect(t)
  \/ \E h \in HandleNums :
       \/ BeginAllocStmt(t, h)
       \/ BeginStmtCall(t, h)
       \/ BeginConnCall(t, h)
       \/ BeginConnect(t, h)
       \/ BeginEndTran(t, h)
       \/ BeginFreeStmt(t, h)
       \/ BeginDisconnect(t, h)
       \/ BeginFreeConnect(t, h)

\* The steps of a call that has started.
CallStep(t) ==
  \/ TableLock(t)
  \/ LockedCallReturns(t)
  \/ ConnectReturns(t)
  \/ BareCallReturns(t)
  \/ DisconnectReturns(t)
  \/ CheckPersistent(t)
  \/ AllocInDb2(t)
  \/ AllocInTable(t)
  \/ FreeInDb2(t)
  \/ FreeInTable(t)

\* The clients may stop calling once every call has returned.
Quiescent == (\A t \in Threads : call[t].at = "idle") /\ UNCHANGED vars

Next == (\E t \in Threads : BeginCall(t) \/ CallStep(t)) \/ Quiescent

Spec == Init /\ [][Next]_vars

\* A thread inside the driver keeps running: each of its steps is taken unless
\* it stays blocked on a lock.
FairSpec == Spec /\ \A t \in Threads : WF_vars(CallStep(t))

-----------------------------------------------------------------------------
(* Properties                                                                *)

\* From the return of init_table_lock to init_table_unlock.
UnderLock(t) ==
  call[t].at \in {"db2", "addhash", "setup", "cmdtable", "cmd", "active", "stmts", "free",
                  "freed", "dtor", "bye", "byelock", "byetable", "unlock"}

\* Two threads are never inside DB2 on one connection through the calls that
\* take its mutex, even when they come from different statements: the mapping
\* of handles to mutexes in IBMiTable gives one mutex to each connection
\* (src/README.md: "only one operation/statement will be running against a
\* given QSQSRVR job at a time").
OneCallPerConnection ==
  \A t, u \in Threads :
    t # u /\ UnderLock(t) /\ UnderLock(u) => call[t].c # call[u].c

\* A thread that has returned to its client holds neither the global lock nor
\* any resource mutex: unlock releases what lock took, although it looks the
\* slot up again ("Remember to unlock same number times locked to avoid
\* hangs", PaseCliInit.c).
NothingHeldAfterReturn ==
  \A t \in Threads :
    call[t].at = "idle" => glock # t /\ \A s \in Slots : mutex[s].owner # t

\* Whenever the global lock is free, IBMiTable files every handle DB2 knows in
\* its own slot and under its own connection, whose mutex is initialised,
\* although DB2 gives handle numbers out again as soon as they are free and
\* SQLDisconnect frees statements without telling the table.
TableAgreesWithDb2 ==
  glock = NoThread =>
    \A h \in HandleNums : Db2Alive(db2, h) =>
      /\ table[h].hstmt = h
      /\ table[h].hdbc = db2[h].parent
      /\ table[db2[h].parent].thread_init

\* A handle a client holds is one DB2 knows, filed in IBMiTable under its own
\* connection, and the connection of a statement a client holds is connected:
\* no release by one client takes a handle of another away.
KnownHandlesAreLive ==
  \A h \in known :
    /\ Db2Alive(db2, h)
    /\ table[h].hstmt = h /\ table[h].hdbc = db2[h].parent
    /\ db2[h].kind = "stmt" => db2[db2[h].parent].connected

\* The sessions the driver makes of DB2's handles and its own calls; the table and
\* the locks are not seen.
SessionOwner == [h \in HandleNums |-> IF Db2Alive(db2, h) THEN db2[h].parent ELSE 0]

SessionConnected == {h \in HandleNums : db2[h].kind = "dbc" /\ db2[h].connected}

SessionInside == [t \in Threads |-> IF call[t].at = "db2" THEN call[t].h ELSE 0]

Sessions == INSTANCE Db2Sessions WITH
  Handles <- HandleNums, None <- 0, owner <- SessionOwner,
  connected <- SessionConnected, inside <- SessionInside, held <- known

\* The calls make sessions of DB2's handles: a call that takes a lock works alone
\* on its connection, from whichever statement; a handle ends, and a disconnect
\* takes statements along, only when no client holds them and nobody is at work
\* on them; what a call hands out exists (init_table_lock, init_table_ctor,
\* init_table_dtor and the calls of DB2 between them).
ImplementsSessions == Sessions!Spec

\* Every call returns: a thread blocked on a mutex or on the global lock gets it.
CallsReturn == \A t \in Threads : call[t].at # "idle" ~> call[t].at = "idle"
=============================================================================
