----------------------------- MODULE SQL400Connect -----------------------------
(***************************************************************************)
(* The aggregate functions of SQL400Connect.c beside the plain CLI calls:   *)
(* SQL400Connect, SQL400pConnect (narrow and wide), SQL400Close,            *)
(* SQL400pClose and SQL400CloseAllStmts.  Each makes several CLI calls      *)
(* while it holds the mutex of the connection, which the calls inside it    *)
(* lock again (the mutexes are recursive).  A persistent connection is      *)
(* found again by its key and only SQL400pClose may close it.               *)
(*                                                                          *)
(* Left out: the environment and its attributes, and the rollback of a      *)
(* close, which leave this state alone.  SQLConnect and SQLSetConnectAttr   *)
(* inside a connect lock and unlock the mutex the thread already owns, with *)
(* no effect on the slot once they have returned.                           *)
(***************************************************************************)
EXTENDS PaseCliCall

CONSTANT Libl   \* TRUE: a client may pass a library list (alibl)

ASSUME LiblAssumption == Libl \in BOOLEAN

ASSUME ThreadsAssumption == IsFiniteSet(Threads) /\ Threads # {}

ConnectOps == {"SQL400Connect", "SQL400pConnect"}
CloseOps == {"SQL400Close", "SQL400pClose", "SQL400CloseAllStmts"}

-----------------------------------------------------------------------------
(* What a client does                                                        *)

\* Another thread is opening or closing a persistent connection of a key.  Careful
\* clients do not open one in one thread while they close one in another.
KeyInUseByOthers(t, key, ops) ==
  \E u \in Threads \ {t} : call[u].op \in ops /\ call[u].key = key /\ key # NoKey

BeginConnectBoth(t, op, key) ==
  /\ op \in Ops
  /\ call[t].at = "idle" /\ calls[t] < MaxCalls
  /\ Careful => ~KeyInUseByOthers(t, key, CloseOps)
  /\ calls' = [calls EXCEPT ![t] = @ + 1]
  /\ call' = [call EXCEPT ![t] =
       [Started(IF op = "SQL400pConnect" THEN "lookup" ELSE "glock", op, 0, 0, 0)
          EXCEPT !.key = key]]
  /\ UNCHANGED <<table, mutex, glock, db2, known>>

\* The handles a close of h takes away: all but those of a connection that
\* SQL400Close finds persistent and SQL400CloseAllStmts leaves open.
BeginClose(t, op, h) ==
  /\ op \in Ops
  /\ call[t].at = "idle" /\ calls[t] < MaxCalls
  /\ h \in known /\ db2[h].kind = "dbc"
  /\ Careful => /\ ~InUseByOthers(t, h)
                /\ ~KeyInUseByOthers(t, table[h].hKey, ConnectOps)
  /\ calls' = [calls EXCEPT ![t] = @ + 1]
  /\ call' = [call EXCEPT ![t] = [Started("want", op, h, h, h) EXCEPT !.key = table[h].hKey]]
  /\ known' = known \ GivenBack(h)
  /\ UNCHANGED <<table, mutex, glock, db2>>

-----------------------------------------------------------------------------
(* custom_SQL400ConnectBoth                                                  *)

\* init_table_hash_2_conn_both.
Lookup(t) ==
  LET hdbc == Hash2Conn(table, call[t].key)
  IN  /\ call[t].at = "lookup" /\ glock = NoThread
      /\ IF hdbc > 1 THEN Return(t, {hdbc}) ELSE Goto(t, "glock") /\ UNCHANGED known
      /\ UNCHANGED <<table, mutex, glock, db2, calls>>

\* SQLAllocHandle(SQL_HANDLE_DBC): DB2's part.
ConnectAllocs(t) ==
  /\ call[t].at = "glock" /\ call[t].op \in ConnectOps
  /\ glock = NoThread
  /\ \/ \E o \in HandleNums :
          /\ ~Db2Alive(db2, o)
          /\ db2' = Db2NewDbc(db2, o)
          /\ call' = [call EXCEPT ![t].at = "table", ![t].h = o, ![t].c = o, ![t].m = o]
          /\ glock' = t
          /\ UNCHANGED known
     \/ /\ Faults \/ \A o \in HandleNums : Db2Alive(db2, o)
        /\ Return(t, {})
        /\ UNCHANGED <<glock, db2>>
  /\ UNCHANGED <<table, mutex, calls>>

\* ... and the driver's.
ConnectCtor(t) ==
  /\ call[t].at = "table" /\ call[t].op \in ConnectOps
  /\ table' = Ctor(table, call[t].h, call[t].h)
  /\ glock' = NoThread
  /\ Goto(t, "want")
  /\ UNCHANGED <<mutex, db2, known, calls>>

\* Mutant of ConnectInDb2: the unlock on the error path is missing.
ConnectInDb2NoUnlock(t) ==
  LET h == call[t].h
  IN  /\ call[t].at = "db2" /\ call[t].op \in ConnectOps
      /\ \/ /\ db2' = Db2Connect(db2, h)
            /\ Goto(t, IF call[t].op = "SQL400pConnect" THEN "addhash" ELSE "setup")
            /\ UNCHANGED known
         \/ Faults /\ Return(t, {h}) /\ UNCHANGED db2
      /\ UNCHANGED <<table, mutex, glock, calls>>

\* SQLConnect: on an error the call unlocks and returns, with the handle it
\* allocated in *ohnd.
ConnectInDb2(t) ==
  LET h == call[t].h
  IN  /\ call[t].at = "db2" /\ call[t].op \in ConnectOps
      /\ \/ /\ db2' = Db2Connect(db2, h)
            /\ Goto(t, IF call[t].op = "SQL400pConnect" THEN "addhash" ELSE "setup")
            /\ UNCHANGED <<table, mutex, known>>
         \/ /\ Faults
            /\ TableUnlock(t)
            /\ Return(t, {h})
            /\ UNCHANGED db2
      /\ UNCHANGED <<glock, calls>>

\* init_table_add_hash_both: from here on other threads find the connection.
ConnectAddHash(t) ==
  /\ call[t].at = "addhash" /\ glock = NoThread
  /\ table' = AddHash(table, call[t].h, call[t].key)
  /\ Goto(t, "setup")
  /\ UNCHANGED <<mutex, glock, db2, known, calls>>

\* Isolation, naming and autocommit are set.  Without a library list the call
\* unlocks and returns; with one it allocates a statement (custom_SQL400Cmd),
\* which may fail.
ConnectSetup(t) ==
  LET h == call[t].h
  IN  /\ call[t].at = "setup"
      /\ \/ /\ TableUnlock(t)
            /\ Return(t, {h})
            /\ UNCHANGED <<glock, db2>>
         \/ /\ Libl /\ glock = NoThread
            /\ \E o \in HandleNums :
                 /\ ~Db2Alive(db2, o)
                 /\ db2' = Db2NewStmt(db2, o, h)
                 /\ call' = [call EXCEPT ![t].at = "cmdtable", ![t].o = o]
                 /\ glock' = t
            /\ UNCHANGED <<table, mutex, known>>
      /\ UNCHANGED calls

ConnectCmdCtor(t) ==
  /\ call[t].at = "cmdtable"
  /\ table' = Ctor(table, call[t].o, call[t].h)
  /\ glock' = NoThread
  /\ Goto(t, "cmd")
  /\ UNCHANGED <<mutex, db2, known, calls>>

\* Mutant of ConnectCmd: the statement of the command is not freed.
ConnectCmdKeepsStmt(t) ==
  /\ call[t].at = "cmd"
  /\ table' = MarkIdle(MarkBusy(table, call[t].o, 1, t), call[t].o, 1)
  /\ Goto(t, "unlock")
  /\ UNCHANGED <<mutex, glock, db2, known, calls>>

\* SQLExecDirect of the QCMDEXC call: init_table_lock and init_table_unlock with
\* flag 1 on the mutex the thread owns.
ConnectCmd(t) ==
  /\ call[t].at = "cmd"
  /\ table' = MarkIdle(MarkBusy(table, call[t].o, 1, t), call[t].o, 1)
  /\ Goto(t, "free")
  /\ UNCHANGED <<mutex, glock, db2, known, calls>>

-----------------------------------------------------------------------------
(* SQLFreeHandle(SQL_HANDLE_STMT) of one statement, inside a connect or close *)

FreeStmtInDb2(t) ==
  /\ call[t].at = "free" /\ glock = NoThread
  /\ db2' = Db2FreeStmt(db2, call[t].o)
  /\ glock' = t
  /\ Goto(t, "freed")
  /\ UNCHANGED <<table, mutex, known, calls>>

FreeStmtInTable(t) ==
  /\ call[t].at = "freed"
  /\ table' = Dtor(table, call[t].o)
  /\ glock' = NoThread
  /\ Goto(t, IF call[t].op \in ConnectOps THEN "unlock" ELSE "stmts")
  /\ UNCHANGED <<mutex, db2, known, calls>>

-----------------------------------------------------------------------------
(* custom_SQL400Close, custom_SQL400pClose, custom_SQL400CloseAllStmts       *)

\* SQL400Close asks whether the connection is persistent; the others do not.
CloseChecks(t) ==
  LET closes == call[t].op # "SQL400CloseAllStmts"
  IN  /\ call[t].at = "db2" /\ call[t].op \in CloseOps
      /\ call[t].op = "SQL400Close" => glock = NoThread
      /\ call' = [call EXCEPT ![t].at = "stmts",
                    ![t].active = \/ ~closes
                                  \/ /\ call[t].op = "SQL400Close"
                                     /\ HashActive(table, call[t].h)]
      /\ UNCHANGED <<table, mutex, glock, db2, known, calls>>

\* One turn of the loop of custom_SQL400CloseAllStmts: init_table_find_stmt under
\* no lock but the connection's.
CloseFindStmt(t) ==
  LET s == FindStmt(table, call[t].h)
  IN  /\ call[t].at = "stmts"
      /\ call' = [call EXCEPT ![t].o = s,
                    ![t].at = IF s # 0 THEN "free"
                              ELSE IF call[t].active THEN "unlock" ELSE "dtor"]
      /\ UNCHANGED <<table, mutex, glock, db2, known, calls>>

\* custom_SQL400CloseBoth: the slot is cleared first, outside the global lock, so
\* that SQLDisconnect and SQLFreeConnect find no key.
CloseDtor(t) ==
  /\ call[t].at = "dtor"
  /\ table' = Dtor(table, call[t].h)
  /\ Goto(t, "bye")
  /\ UNCHANGED <<mutex, glock, db2, known, calls>>

\* SQLDisconnect: the check for a key, then the mutex once more, DB2, and the
\* mutex released to the outer lock.
CloseDisconnect(t) ==
  LET h == call[t].h
  IN  /\ call[t].at = "bye" /\ glock = NoThread
      /\ IF HashActive(table, h) THEN UNCHANGED <<table, db2>>
         ELSE /\ \/ db2' = Db2Disconnect(db2, h)
                 \/ Faults /\ UNCHANGED db2
              /\ table' = MarkIdle(MarkBusy(table, h, 0, t), h, 0)
      /\ Goto(t, "byelock")
      /\ UNCHANGED <<mutex, glock, known, calls>>

\* SQLFreeConnect, up to DB2's answer.
CloseFreeInDb2(t) ==
  LET h == call[t].h
  IN  /\ call[t].at = "byelock" /\ glock = NoThread
      /\ IF HashActive(table, h)
         THEN Goto(t, "unlock") /\ UNCHANGED <<db2, glock>>
         ELSE Goto(t, "byetable") /\ db2' = Db2FreeDbc(db2, h) /\ glock' = t
      /\ UNCHANGED <<table, mutex, known, calls>>

CloseFreeInTable(t) ==
  /\ call[t].at = "byetable"
  /\ table' = Dtor(table, call[t].h)
  /\ glock' = NoThread
  /\ Goto(t, "unlock")
  /\ UNCHANGED <<mutex, db2, known, calls>>

\* The unlock at the end of a connect with a library list and of every close.
UnlockReturns(t) ==
  /\ call[t].at = "unlock"
  /\ TableUnlock(t)
  /\ Return(t, IF call[t].op \in ConnectOps \/ call[t].active THEN {call[t].h} ELSE {})
  /\ UNCHANGED <<glock, db2, calls>>

-----------------------------------------------------------------------------
BeginLong(t) ==
  \/ BeginConnectBoth(t, "SQL400Connect", NoKey)
  \/ \E key \in Keys : BeginConnectBoth(t, "SQL400pConnect", key)
  \/ \E op \in CloseOps, h \in HandleNums : BeginClose(t, op, h)

LongStep(t) ==
  \/ Lookup(t)
  \/ ConnectAllocs(t)
  \/ ConnectCtor(t)
  \/ ConnectInDb2(t)
  \/ ConnectAddHash(t)
  \/ ConnectSetup(t)
  \/ ConnectCmdCtor(t)
  \/ ConnectCmd(t)
  \/ FreeStmtInDb2(t)
  \/ FreeStmtInTable(t)
  \/ CloseChecks(t)
  \/ CloseFindStmt(t)
  \/ CloseDtor(t)
  \/ CloseDisconnect(t)
  \/ CloseFreeInDb2(t)
  \/ CloseFreeInTable(t)
  \/ UnlockReturns(t)

LongNext ==
  \/ \E t \in Threads : BeginCall(t) \/ CallStep(t) \/ BeginLong(t) \/ LongStep(t)
  \/ Quiescent

LongSpec == Init /\ [][LongNext]_vars

\* Tidy clients have freed the statements of a connection when DB2 grants its
\* SQLDisconnect, so that the call leaves none behind in the table.
Tidy ==
  \A t \in Threads :
    DisconnectReturns(t) /\ db2' = Db2Disconnect(db2, call[t].h)
      => Db2Stmts(db2, call[t].h) = {}

TidyClients == [][Tidy]_vars

TidySpec == Init /\ [][LongNext /\ Tidy]_vars

LongFairSpec == LongSpec /\ \A t \in Threads : WF_vars(CallStep(t) \/ LongStep(t))

-----------------------------------------------------------------------------
(* Properties                                                                *)

\* Threads that open a key at once may each miss the connections of the others, for
\* the search and the entry are two critical sections; but the connections open
\* under a narrow key are never more than the threads, however often it is opened
\* and closed, because whoever comes later finds one.
KeyedByThreads ==
  \A k \in Keys \ WideKeys :
    Cardinality({h \in Slots : table[h].hKey = k}) =< Cardinality(Threads)

\* A key is in the slot of a connected connection only, so SQL400pConnect never
\* hands out a connection that has been closed or was never connected.
KeyedIsConnected ==
  \A h \in Slots : table[h].hKey # NoKey => table[h].hdbc = h /\ db2[h].connected

\* "persistent connect only close with SQL400pClose" (SQL400Connect.c): no other
\* call, an SQL400Close racing with others included, takes the key off a slot or
\* disconnects a connection that has one.
OnlyPCloseCloses ==
  [][\A h \in Slots :
       /\ table[h].hKey # NoKey
       /\ table'[h].hKey = NoKey \/ ~db2'[h].connected
       => \E t \in Threads : /\ call[t].op = "SQL400pClose"
                            /\ call[t].at = "dtor" /\ call[t].h = h]_vars

\* Without errors from DB2, every handle DB2 knows is a client's or belongs to a
\* call in flight: closing a connection leaves neither its statements nor the
\* connection behind, and a connect frees the statement of its library list.
NothingOrphaned ==
  \A x \in HandleNums : Db2Alive(db2, x) =>
    \/ x \in known
    \/ \E t \in Threads : /\ call[t].at # "idle"
                          /\ \/ x \in {call[t].h, call[t].o}
                             \/ db2[x].parent = call[t].h

\* The sessions that the plain calls and the aggregate functions make together.  An
\* aggregate is one visit to its connection: a connect shows its clients neither the
\* statement of its library list nor, before it returns or enters its key, that it
\* has connected; a close is at work until it has disconnected.
ConnectsBehind(t, h) ==
  /\ call[t].op \in ConnectOps /\ call[t].at \notin {"idle", "lookup", "glock"}
  /\ call[t].h = h
  /\ call[t].key = NoKey \/ call[t].at \in {"table", "want", "db2", "addhash"}

CommandOf(t, x) ==
  call[t].op \in ConnectOps /\ call[t].at \in {"cmdtable", "cmd", "free"} /\ call[t].o = x

Closed(t) ==
  \/ call[t].at \in {"byelock", "byetable"}
  \/ call[t].op \in CloseOps /\ call[t].at = "unlock" /\ ~call[t].active

VisitOwner ==
  [x \in HandleNums |->
     IF Db2Alive(db2, x) /\ (\A t \in Threads : ~CommandOf(t, x)) THEN db2[x].parent ELSE 0]

VisitConnected ==
  {h \in HandleNums : /\ db2[h].kind = "dbc" /\ db2[h].connected
                      /\ \A t \in Threads : ~ConnectsBehind(t, h)}

VisitInside == [t \in Threads |-> IF UnderLock(t) /\ ~Closed(t) THEN call[t].h ELSE 0]

Visits == INSTANCE Db2Sessions WITH
  Handles <- HandleNums, None <- 0, owner <- VisitOwner,
  connected <- VisitConnected, inside <- VisitInside, held <- known

\* SQL400Connect, SQL400Close and the others are to the clients like calls of one
\* step: each works alone on its connection from its lock to its unlock, through all
\* the calls inside it; what it opens is nobody's before it returns or can be found
\* by its key, what it closes is nobody's any more; and the plain calls beside them
\* keep their promises.
ImplementsVisits == Visits!Spec
=============================================================================
