------------------------- MODULE PaseCliCall_sessions -------------------------
(***************************************************************************)
(* The calls of careful clients implement Db2Sessions, for any number of    *)
(* threads, handles and calls: every step is a step of the sessions or       *)
(* leaves them as they are.                                                 *)
(***************************************************************************)
EXTENDS PaseCliCall_proofs

-----------------------------------------------------------------------------
(* The mapping, seen through the invariant                                   *)

\* What can be said of an owner: a handle DB2 knows belongs to a connection,
\* another one to nobody.
LEMMA OwnerFacts ==
  ASSUME IInv
  PROVE  /\ 0 \notin HandleNums
         /\ \A h \in HandleNums :
              /\ Db2Alive(db2, h) => SessionOwner[h] = db2[h].parent
                                     /\ db2[h].parent \in HandleNums /\ SessionOwner[h] # 0
              /\ ~Db2Alive(db2, h) => SessionOwner[h] = 0
              /\ db2[h].kind = "dbc" <=> Db2Alive(db2, h) /\ db2[h].parent = h
         /\ Sessions!Alive = {h \in HandleNums : Db2Alive(db2, h)}
  <1>1. 0 \notin HandleNums BY TableAssumption DEF HandleNums
  <1>2. \A h \in HandleNums : Db2Alive(db2, h) => db2[h].parent \in HandleNums
    BY DEF IInv, Db2Tree
  <1>3. ASSUME NEW h \in HandleNums
        PROVE  db2[h].kind = "dbc" <=> Db2Alive(db2, h) /\ db2[h].parent = h
    <2>1. db2[h].kind \in {"free", "dbc", "stmt"}
      BY SlotTypes DEF IInv, TypeOK, Db2Handle
    <2> QED BY <2>1 DEF IInv, Db2Tree, Db2Alive
  <1>4. \A h \in HandleNums : Db2Alive(db2, h) <=> SessionOwner[h] # 0
    BY <1>1, <1>2 DEF SessionOwner
  <1>5. Sessions!Alive = {h \in HandleNums : Db2Alive(db2, h)}
    BY <1>4 DEF Sessions!Alive
  <1> QED BY <1>1, <1>2, <1>3, <1>4, <1>5 DEF SessionOwner

\* The thread inside DB2 is at work on a handle of the connection it locked.
LEMMA InsideFacts ==
  ASSUME IInv, NEW t \in Threads
  PROVE  /\ call[t].at = "db2" => /\ SessionInside[t] = call[t].h
                                  /\ call[t].h \in HandleNums /\ call[t].h # 0
                                  /\ SessionOwner[call[t].h] = call[t].c
         /\ call[t].at # "db2" => SessionInside[t] = 0
  <1>1. CASE call[t].at = "db2"
    <2>1. HandleOK(t) /\ ~Forgotten(t) BY <1>1, LockFacts
    <2>2. /\ call[t].h \in HandleNums /\ Db2Alive(db2, call[t].h)
          /\ db2[call[t].h].parent = call[t].c
      BY <2>1 DEF HandleOK
    <2>3. SessionOwner[call[t].h] = call[t].c /\ call[t].h # 0
      BY <2>2, OwnerFacts
    <2> QED BY <1>1, <2>2, <2>3 DEF SessionInside
  <1> QED BY <1>1 DEF SessionInside

\* Nobody is at work on a connection whose mutex no thread inside DB2 asked for.
LEMMA NobodyAtWork ==
  ASSUME IInv, NEW c \in HandleNums,
         \A u \in Threads : call[u].at = "db2" => call[u].c # c
  PROVE  ~Sessions!AtWork(c)
  <1> SUFFICES ASSUME NEW u \in Threads, SessionInside[u] # 0,
                      SessionOwner[SessionInside[u]] = c
               PROVE  FALSE
    BY DEF Sessions!AtWork
  <1>1. call[u].at = "db2" BY InsideFacts
  <1> QED BY <1>1, InsideFacts

LEMMA SameOwners ==
  ASSUME db2' = db2
  PROVE  SessionOwner' = SessionOwner /\ SessionConnected' = SessionConnected
  BY DEF SessionOwner, SessionConnected, Db2Alive

\* One thread moves.
LEMMA InsideMoves ==
  ASSUME NEW t \in Threads, Others(t)
  PROVE  SessionInside' =
           [SessionInside EXCEPT ![t] = IF call'[t].at = "db2" THEN call'[t].h ELSE 0]
  BY DEF SessionInside, Others

LEMMA InsideStays ==
  ASSUME NEW t \in Threads, Others(t), call[t].at # "db2", call'[t].at # "db2"
  PROVE  SessionInside' = SessionInside
  BY DEF SessionInside, Others

Step == [Sessions!Next]_Sessions!sessions

\* DB2's handles, the work and what the clients hold are as before.
LEMMA Stutters ==
  ASSUME NEW t \in Threads, Others(t), call[t].at # "db2", call'[t].at # "db2",
         db2' = db2, known' = known
  PROVE  Step
  BY SameOwners, InsideStays DEF Step, Sessions!sessions

-----------------------------------------------------------------------------
(* The steps, one by one                                                     *)

\* A call begins: clients may lose what it gives back.
LEMMA BeginsSession ==
  ASSUME IInv, NEW t \in Threads, NEW op, NEW h, NEW label, Begin(t, op, h, label),
         label # "db2", known' \subseteq known
  PROVE  Step
  <1>1. Others(t) /\ call[t].at = "idle" /\ call'[t].at = label /\ db2' = db2
    BY BeginFacts DEF IInv
  <1>2. SessionInside' = SessionInside BY <1>1, InsideStays
  <1>3. UNCHANGED <<SessionOwner, SessionConnected, SessionInside>>
    BY <1>1, <1>2, SameOwners
  <1> DEFINE given == known \ known'
  <1>4. given \in SUBSET HandleNums BY DEF IInv, KnownAlive
  <1>5. known' = known \ given OBVIOUS
  <1> HIDE DEF given
  <1>6. Sessions!GiveBack(given) BY <1>3, <1>5 DEF Sessions!GiveBack
  <1> QED BY <1>4, <1>6 DEF Step, Sessions!Next

LEMMA BeginCallSession ==
  ASSUME IInv, NEW t \in Threads, BeginCall(t)
  PROVE  Step
  <1>1. PICK op, h, label : Begin(t, op, h, label) /\ label # "db2" /\ known' \subseteq known
    BY DEF BeginCall, BeginAllocConnect, BeginAllocStmt, BeginStmtCall, BeginConnCall,
       BeginConnect, BeginEndTran, BeginFreeStmt, BeginDisconnect, BeginFreeConnect,
       BeginRelease
  <1> QED BY <1>1, BeginsSession

\* pthread_mutex_lock returns: the connection is this thread's.
LEMMA LockSession ==
  ASSUME IInv, NEW t \in Threads, TableLock(t)
  PROVE  Step
  <1> DEFINE h == call[t].h
             c == call[t].c
  <1>1. /\ call[t].at = "want" /\ call'[t].at = "db2" /\ call'[t].h = h /\ Others(t)
        /\ db2' = db2 /\ known' = known
    BY GotoFacts DEF TableLock, IInv
  <1>2. /\ HandleOK(t) /\ ~Forgotten(t) /\ call[t].m = c /\ table[c].thread_init
    BY <1>1, LockFacts
  <1>3. /\ h \in HandleNums /\ c \in HandleNums /\ Db2Alive(db2, h) /\ db2[h].parent = c
    BY <1>2 DEF HandleOK
  <1>4. SessionOwner[h] = c /\ h \in Sessions!Alive BY <1>3, OwnerFacts
  <1>5. MayLock(mutex[c], t) BY <1>2 DEF TableLock
  <1>6. ASSUME NEW u \in Threads, call[u].at = "db2" PROVE call[u].c # c
    <2>1. mutex[call[u].c] = Held(u) /\ Held(u).owner = u BY <1>6, HeldFacts DEF IInv, Mutexes
    <2>2. u # t BY <1>1, <1>6
    <2> QED BY <1>5, <2>1, <2>2, TableAssumption DEF MayLock
  <1>7. ~Sessions!AtWork(c) BY <1>3, <1>6, NobodyAtWork
  <1>8. SessionInside[t] = 0 BY <1>1, InsideFacts
  <1>9. SessionInside' = [SessionInside EXCEPT ![t] = h] BY <1>1, InsideMoves
  <1>10. UNCHANGED <<SessionOwner, SessionConnected, known>> BY <1>1, SameOwners
  <1>11. Sessions!Enter(t, h)
    BY <1>4, <1>7, <1>8, <1>9, <1>10 DEF Sessions!Enter
  <1> QED BY <1>3, <1>11 DEF Step, Sessions!Next

\* A call that was at work returns; what it hands out exists.
LEMMA Leaves ==
  ASSUME IInv, NEW t \in Threads, call[t].at = "db2", Others(t), call'[t].at = "idle",
         NEW back, back \subseteq Sessions!Alive, known' = known \cup back,
         \/ UNCHANGED <<SessionOwner, SessionConnected>>
         \/ /\ Sessions!Connection(call[t].h)
            /\ SessionConnected' = SessionConnected \cup {call[t].h}
            /\ SessionOwner' = SessionOwner
         \/ /\ Sessions!Connection(call[t].h)
            /\ SessionConnected' = SessionConnected \ {call[t].h}
            /\ SessionOwner' = [h \in HandleNums |->
                 IF h \in Sessions!Statements(call[t].h) THEN 0 ELSE SessionOwner[h]]
            /\ known' \cap Sessions!Statements(call[t].h) = {}
  PROVE  Step
  <1>1. SessionInside[t] = call[t].h /\ call[t].h # 0 BY InsideFacts
  <1>2. SessionInside' = [SessionInside EXCEPT ![t] = 0] BY InsideMoves
  <1>3. \E given \in SUBSET Sessions!Alive : known' = known \cup given OBVIOUS
  <1>4. Sessions!Leave(t) BY <1>1, <1>2, <1>3 DEF Sessions!Leave
  <1> QED BY <1>4 DEF Step, Sessions!Next

LEMMA LockedSession ==
  ASSUME IInv, NEW t \in Threads, LockedCallReturns(t)
  PROVE  Step
  <1>1. call[t].at = "db2" /\ Return(t, {}) /\ db2' = db2 BY DEF LockedCallReturns
  <1>2. Others(t) /\ call'[t].at = "idle" /\ known' = known \cup {}
    BY <1>1, ReturnFacts DEF IInv
  <1>3. {} \subseteq Sessions!Alive OBVIOUS
  <1> QED BY <1>1, <1>2, <1>3, SameOwners, Leaves

\* The handle of a call that works on a connection is one.
LEMMA ConnectionInside ==
  ASSUME IInv, NEW t \in Threads, call[t].at = "db2", call[t].op \in {"Connect", "Disconnect"}
  PROVE  /\ call[t].h \in HandleNums /\ call[t].h = call[t].c
         /\ Db2Alive(db2, call[t].h) /\ db2[call[t].h].kind = "dbc"
         /\ Sessions!Connection(call[t].h)
  <1>1. HandleOK(t) /\ ~Forgotten(t) BY LockFacts
  <1>2. /\ call[t].h \in HandleNums /\ call[t].h = call[t].c /\ Db2Alive(db2, call[t].h)
        /\ db2[call[t].h].parent = call[t].h
    BY <1>1 DEF HandleOK, OfStmt
  <1> QED BY <1>2, OwnerFacts DEF Sessions!Connection

LEMMA ConnectSession ==
  ASSUME IInv, NEW t \in Threads, ConnectReturns(t)
  PROVE  Step
  <1> DEFINE c == call[t].h
  <1>1. /\ call[t].at = "db2" /\ call[t].op = "Connect" /\ Return(t, {})
        /\ db2' = Db2Connect(db2, c) \/ db2' = db2
    BY DEF ConnectReturns
  <1>2. Others(t) /\ call'[t].at = "idle" /\ known' = known \cup {}
    BY <1>1, ReturnFacts DEF IInv
  <1>3. {} \subseteq Sessions!Alive OBVIOUS
  <1>4. CASE db2' = db2 BY <1>1, <1>2, <1>3, <1>4, SameOwners, Leaves
  <1>5. CASE db2' = Db2Connect(db2, c)
    <2>1. /\ c \in HandleNums /\ db2[c].kind = "dbc" /\ Sessions!Connection(c)
      BY <1>1, ConnectionInside
    <2>2. \A x \in HandleNums : /\ db2'[x].kind = db2[x].kind
                                /\ db2'[x].parent = db2[x].parent
                                /\ x # c => db2'[x] = db2[x]
      BY <1>5, Db2ConnectFacts, SlotTypes DEF IInv, TypeOK
    <2>3. db2'[c].connected
      BY <1>5, <2>1, SlotTypes DEF IInv, TypeOK, Db2Connect, Db2Handle
    <2>4. SessionOwner' = SessionOwner BY <2>2 DEF SessionOwner, Db2Alive
    <2>5. SessionConnected' = SessionConnected \cup {c}
      BY <2>1, <2>2, <2>3 DEF SessionConnected
    <2> QED BY <1>1, <1>2, <1>3, <2>1, <2>4, <2>5, Leaves
  <1> QED BY <1>1, <1>4, <1>5

LEMMA DisconnectSession ==
  ASSUME IInv, NoStray, NEW t \in Threads, DisconnectReturns(t)
  PROVE  Step
  <1> DEFINE c == call[t].h
             back == KeptUnder(c)
  <1>1. /\ call[t].at = "db2" /\ call[t].op = "Disconnect"
        /\ \/ db2' = Db2Disconnect(db2, c) /\ Return(t, {c})
           \/ db2' = db2 /\ Return(t, back)
    BY DEF DisconnectReturns
  <1>2. /\ c \in HandleNums /\ c = call[t].c /\ db2[c].kind = "dbc" /\ Db2Alive(db2, c)
        /\ Sessions!Connection(c)
    BY <1>1, ConnectionInside
  <1>3. \A x \in back : x \in HandleNums /\ Db2Alive(db2, x)
    <2>1. InFlight(t) /\ ~Forgotten(t) /\ call[t].op \in ReleaseOps
      BY <1>1, LockFacts DEF ReleaseOps
    <2> QED BY <2>1, BackFacts
  <1>4. back \subseteq Sessions!Alive BY <1>3, OwnerFacts
  <1>5. {c} \subseteq Sessions!Alive BY <1>2, OwnerFacts
  <1> HIDE DEF back
  <1>6. CASE db2' = db2 /\ Return(t, back)
    <2>1. Others(t) /\ call'[t].at = "idle" /\ known' = known \cup back
      BY <1>6, ReturnFacts DEF IInv
    <2> QED BY <1>1, <1>4, <1>6, <2>1, SameOwners, Leaves
  <1>7. CASE db2' = Db2Disconnect(db2, c) /\ Return(t, {c})
    <2>1. Others(t) /\ call'[t].at = "idle" /\ known' = known \cup {c}
      BY <1>7, ReturnFacts DEF IInv
    <2>2. \A x \in HandleNums :
            /\ db2[x].kind = "stmt" /\ db2[x].parent = c => db2'[x] = Db2Free
            /\ x # c /\ ~(db2[x].kind = "stmt" /\ db2[x].parent = c) => db2'[x] = db2[x]
            /\ x = c => db2'[x].kind = "dbc" /\ db2'[x].parent = db2[x].parent
      BY <1>2, <1>7, Db2DisconnectFacts, SlotTypes DEF IInv, TypeOK
    <2>3. ~db2'[c].connected
      BY <1>2, <1>7, SlotTypes DEF IInv, TypeOK, Db2Disconnect, Db2Stmts, Db2Handle
    <2>4. \A x \in HandleNums : db2[x].kind \in {"free", "dbc", "stmt"}
      BY SlotTypes DEF IInv, TypeOK, Db2Handle
    <2>5. \A x \in HandleNums :
            x \in Sessions!Statements(c) <=> db2[x].kind = "stmt" /\ db2[x].parent = c
      <3> SUFFICES ASSUME NEW x \in HandleNums
                   PROVE  x \in Sessions!Statements(c)
                            <=> db2[x].kind = "stmt" /\ db2[x].parent = c
        OBVIOUS
      <3>1. x \in Sessions!Statements(c)
              <=> Db2Alive(db2, x) /\ db2[x].parent = c /\ x # c
        BY OwnerFacts DEF Sessions!Statements
      <3>2. db2[x].kind = "dbc" <=> Db2Alive(db2, x) /\ db2[x].parent = x
        BY OwnerFacts
      <3>3. Db2Alive(db2, x) <=> db2[x].kind # "free" BY DEF Db2Alive
      <3> QED BY <1>2, <2>4, <3>1, <3>2, <3>3
    <2>6. SessionOwner' = [x \in HandleNums |->
            IF x \in Sessions!Statements(c) THEN 0 ELSE SessionOwner[x]]
      <3>1. ASSUME NEW x \in HandleNums
            PROVE  (IF Db2Alive(db2', x) THEN db2'[x].parent ELSE 0)
                     = IF x \in Sessions!Statements(c) THEN 0 ELSE SessionOwner[x]
        <4>1. CASE x \in Sessions!Statements(c)
          BY <2>2, <2>5, <4>1 DEF Db2Alive, Db2Free
        <4>2. CASE x \notin Sessions!Statements(c) /\ x # c
          BY <2>2, <2>5, <4>2 DEF SessionOwner, Db2Alive
        <4>3. CASE x = c /\ x \notin Sessions!Statements(c)
          BY <1>2, <2>2, <4>3 DEF SessionOwner, Db2Alive
        <4> QED BY <4>1, <4>2, <4>3
      <3> QED BY <3>1 DEF SessionOwner
    <2>7. SessionConnected' = SessionConnected \ {c}
      <3>1. ASSUME NEW x \in HandleNums
            PROVE  db2'[x].kind = "dbc" /\ db2'[x].connected
                     <=> db2[x].kind = "dbc" /\ db2[x].connected /\ x # c
        BY <1>2, <2>2, <2>3, <3>1 DEF Db2Free
      <3> QED BY <3>1 DEF SessionConnected
    <2>8. known' \cap Sessions!Statements(c) = {}
      <3>1. InFlight(t) /\ call[t].op \in ReleaseOps BY <1>1, LockFacts DEF ReleaseOps
      <3>2. \A x \in known : x \in HandleNums /\ db2[x].parent # c
        BY <1>2, <3>1 DEF IInv, Released, KnownAlive
      <3>3. c \notin Sessions!Statements(c) BY <1>2, <2>5
      <3> QED BY <2>1, <2>5, <3>2, <3>3
    <2> QED BY <1>1, <1>2, <1>5, <2>1, <2>6, <2>7, <2>8, Leaves
  <1> QED BY <1>1, <1>6, <1>7

\* A persistent connection is handed back with its statements.
LEMMA CheckSession ==
  ASSUME IInv, NoStray, NEW t \in Threads, CheckPersistent(t)
  PROVE  Step
  <1> DEFINE back == KeptUnder(call[t].h)
  <1>1. /\ call[t].at = "check" /\ call[t].op \in ReleaseOps /\ db2' = db2
        /\ \/ Return(t, back)
           \/ \E label \in {"want", "glock"} : Goto(t, label) /\ known' = known
    BY DEF CheckPersistent, ReleaseOps
  <1>2. \A x \in back : x \in HandleNums /\ Db2Alive(db2, x)
    <2>1. InFlight(t) /\ ~Forgotten(t) BY <1>1 DEF InFlight, Forgotten, ReleaseOps
    <2> QED BY <1>1, <2>1, BackFacts
  <1>3. back \subseteq Sessions!Alive /\ back \in SUBSET HandleNums BY <1>2, OwnerFacts
  <1> HIDE DEF back
  <1>4. CASE Return(t, back)
    <2>1. Others(t) /\ call'[t].at = "idle" /\ known' = known \cup back
      BY <1>4, ReturnFacts DEF IInv
    <2>2. SessionInside' = SessionInside BY <1>1, <2>1, InsideStays
    <2>3. Sessions!Hand(back) BY <1>1, <1>3, <2>1, <2>2, SameOwners DEF Sessions!Hand
    <2> QED BY <1>3, <2>3 DEF Step, Sessions!Next
  <1>5. ASSUME NEW label \in {"want", "glock"}, Goto(t, label), known' = known PROVE Step
    <2>1. Others(t) /\ call'[t].at = label BY <1>5, GotoFacts DEF IInv
    <2> QED BY <1>1, <1>5, <2>1, Stutters
  <1> QED BY <1>1, <1>4, <1>5

LEMMA AllocSession ==
  ASSUME IInv, NEW t \in Threads, AllocInDb2(t)
  PROVE  Step
  <1>1. CASE Return(t, {}) /\ db2' = db2
    <2>1. Others(t) /\ call'[t].at = "idle" /\ known' = known
      BY <1>1, ReturnFacts DEF IInv
    <2> QED BY <1>1, <2>1, Stutters DEF AllocInDb2
  <1>2. ASSUME NEW o \in HandleNums, ~Db2Alive(db2, o),
               \/ call[t].op = "AllocConnect" /\ db2' = Db2NewDbc(db2, o)
               \/ /\ call[t].op = "AllocStmt" /\ db2[call[t].h].connected
                  /\ db2' = Db2NewStmt(db2, o, call[t].h),
               call' = [call EXCEPT ![t] = WithNew(call[t], o)], known' = known
        PROVE  Step
    <2>1. Others(t) /\ call'[t].at = "table" BY <1>2, WithNewFacts DEF IInv
    <2>2. call[t].at = "glock" BY DEF AllocInDb2
    <2>3. SessionInside' = SessionInside BY <2>1, <2>2, InsideStays
    <2>4. o \notin Sessions!Alive /\ o # 0 BY <1>2, OwnerFacts
    <2>5. o \in Slots /\ db2 \in [Slots -> Db2Handle] BY SlotTypes DEF IInv, TypeOK
    <2>6. CASE call[t].op = "AllocConnect" /\ db2' = Db2NewDbc(db2, o)
      <3>1. db2' = [db2 EXCEPT ![o] = [kind |-> "dbc", parent |-> o, connected |-> FALSE]]
        BY <2>6 DEF Db2NewDbc
      <3>2. /\ db2'[o].kind = "dbc" /\ db2'[o].parent = o /\ ~db2'[o].connected
            /\ \A x \in HandleNums : x # o => db2'[x] = db2[x]
        BY <2>5, <3>1, SlotTypes
      <3>3. SessionOwner' = [SessionOwner EXCEPT ![o] = o]
        BY <3>2 DEF SessionOwner, Db2Alive
      <3>4. SessionConnected' = SessionConnected
        BY <1>2, <3>2 DEF SessionConnected, Db2Alive
      <3>5. Sessions!NewConnection(o)
        BY <1>2, <2>3, <2>4, <3>3, <3>4 DEF Sessions!NewConnection
      <3> QED BY <3>5 DEF Step, Sessions!Next
    <2>7. CASE /\ call[t].op = "AllocStmt" /\ db2[call[t].h].connected
               /\ db2' = Db2NewStmt(db2, o, call[t].h)
      <3> DEFINE c == call[t].h
      <3>1. db2' = [db2 EXCEPT ![o] = [kind |-> "stmt", parent |-> c, connected |-> FALSE]]
        BY <2>7 DEF Db2NewStmt
      <3>2. /\ db2'[o].kind = "stmt" /\ db2'[o].parent = c
            /\ \A x \in HandleNums : x # o => db2'[x] = db2[x]
        BY <2>5, <3>1, SlotTypes
      <3>3. InFlight(t) /\ ~Forgotten(t) BY <2>2, <2>7 DEF InFlight, Forgotten
      <3>4. /\ c \in HandleNums /\ Db2Alive(db2, c) /\ db2[c].parent = c
        BY <2>7, <3>3 DEF IInv, Handles, HandleOK, OfStmt
      <3>5. c \in SessionConnected BY <2>7, <3>4, OwnerFacts DEF SessionConnected
      <3>6. SessionOwner' = [SessionOwner EXCEPT ![o] = c]
        BY <3>2 DEF SessionOwner, Db2Alive
      <3>7. SessionConnected' = SessionConnected
        BY <1>2, <3>2 DEF SessionConnected, Db2Alive
      <3>8. Sessions!NewStatement(o, c)
        BY <1>2, <2>3, <2>4, <3>5, <3>6, <3>7 DEF Sessions!NewStatement
      <3> QED BY <3>4, <3>8 DEF Step, Sessions!Next
    <2> QED BY <1>2, <2>6, <2>7
  <1> QED BY <1>1, <1>2 DEF AllocInDb2

\* The constructor has run: the client has its handle.
LEMMA AllocTableSession ==
  ASSUME IInv, NEW t \in Threads, AllocInTable(t)
  PROVE  Step
  <1> DEFINE o == call[t].o
  <1>1. /\ call[t].at = "table" /\ call[t].op \in AllocOps /\ Return(t, {o}) /\ db2' = db2
    BY DEF AllocInTable, AllocOps
  <1>2. Others(t) /\ call'[t].at = "idle" /\ known' = known \cup {o}
    BY <1>1, ReturnFacts DEF IInv
  <1>3. o \in HandleNums /\ Db2Alive(db2, o) BY <1>1 DEF IInv, NewHandles, NewOK
  <1>4. {o} \subseteq Sessions!Alive BY <1>3, OwnerFacts
  <1>5. SessionInside' = SessionInside BY <1>1, <1>2, InsideStays
  <1>6. Sessions!Hand({o}) BY <1>1, <1>2, <1>4, <1>5, SameOwners DEF Sessions!Hand
  <1>7. {o} \in SUBSET HandleNums BY <1>3
  <1> QED BY <1>6, <1>7 DEF Step, Sessions!Next

\* DB2 ends a handle nobody holds or works on, or refuses.
LEMMA FreeSession ==
  ASSUME IInv, NEW t \in Threads, FreeInDb2(t)
  PROVE  Step
  <1> DEFINE h == call[t].h
  <1>1. /\ call[t].at = "glock" /\ glock = NoThread /\ Goto(t, "table") /\ known' = known
        /\ \/ call[t].op = "FreeStmtDrop" /\ db2' = Db2FreeStmt(db2, h)
           \/ call[t].op = "FreeStmtClose" /\ db2' = db2
           \/ call[t].op = "FreeConnect" /\ db2' = Db2FreeDbc(db2, h)
    BY DEF FreeInDb2
  <1>2. call[t].op \in AllocOps \cup {"FreeStmtDrop", "FreeConnect"}
    BY <1>1 DEF IInv, Phases
  <1>3. Others(t) /\ call'[t].at = "table" BY <1>1, GotoFacts DEF IInv
  <1>4. SessionInside' = SessionInside BY <1>1, <1>3, InsideStays
  <1>5. /\ call[t].op \in {"FreeStmtDrop", "FreeConnect"} /\ db2' = [db2 EXCEPT ![h] = Db2Free]
    <2>1. call[t].op \in {"FreeStmtDrop", "FreeConnect"} BY <1>1, <1>2 DEF AllocOps
    <2>2. /\ call[t].op = "FreeStmtDrop" => db2[h].kind = "stmt"
          /\ call[t].op = "FreeConnect" => db2[h].kind = "dbc" /\ ~db2[h].connected
      BY <1>1, <2>1, ReleaseFacts
    <2> QED BY <1>1, <2>1, <2>2 DEF Db2FreeStmt, Db2FreeDbc
  <1>6. /\ InFlight(t) /\ HandleOK(t) /\ ~Forgotten(t) /\ h \in HandleNums /\ h \notin known
        /\ call[t].op = "FreeStmtDrop" => db2[h].kind = "stmt"
        /\ call[t].op = "FreeConnect" => db2[h].kind = "dbc" /\ ~db2[h].connected
        /\ \A x \in HandleNums : db2[x].kind = "stmt" => db2[x].parent # h
        /\ \A u \in Threads \ {t} : InFlight(u) => call[u].h # h
    BY <1>1, <1>5, ReleaseFacts
  <1>7. /\ db2'[h] = Db2Free /\ \A x \in HandleNums : x # h => db2'[x] = db2[x]
    BY <1>5, <1>6, SlotTypes DEF IInv, TypeOK
  <1>8. Db2Alive(db2, h) /\ db2[h].parent = call[t].c BY <1>6 DEF HandleOK
  <1>9. SessionOwner' = [SessionOwner EXCEPT ![h] = 0]
    <2>1. db2'[h].kind = "free" BY <1>7 DEF Db2Free
    <2> HIDE DEF h
    <2> QED BY <1>6, <1>7, <2>1 DEF SessionOwner, Db2Alive
  <1>10. SessionConnected' = SessionConnected
    BY <1>5, <1>6, <1>7 DEF SessionConnected, Db2Free
  <1>11. h \in Sessions!Alive BY <1>6, <1>8, OwnerFacts
  <1>12. \A u \in Threads : call[u].at = "db2" => InFlight(u) /\ u # t
    BY <1>1, LockFacts
  <1>13. CASE call[t].op = "FreeStmtDrop"
    <2>1. ~Sessions!Connection(h)
      <3>1. db2[h].parent # h BY <1>6, <1>8, <1>13 DEF IInv, Db2Tree
      <3> QED BY <1>6, <1>8, <3>1, OwnerFacts DEF Sessions!Connection
    <2>2. \A u \in Threads : SessionInside[u] # h
      <3> SUFFICES ASSUME NEW u \in Threads PROVE SessionInside[u] # h
        OBVIOUS
      <3>1. h # 0 BY <1>6, OwnerFacts
      <3> QED BY <1>6, <1>12, <3>1, InsideFacts
    <2>3. Sessions!DropStatement(h)
      BY <1>1, <1>4, <1>6, <1>9, <1>10, <1>11, <2>1, <2>2 DEF Sessions!DropStatement
    <2> QED BY <1>6, <2>3 DEF Step, Sessions!Next
  <1>14. CASE call[t].op = "FreeConnect"
    <2>1. db2[h].kind = "dbc" /\ ~db2[h].connected BY <1>6, <1>14
    <2>2. Sessions!Connection(h) /\ SessionOwner[h] = h
      BY <1>6, <1>8, <1>11, <2>1, OwnerFacts DEF Sessions!Connection
    <2>3. Sessions!Statements(h) = {}
      <3> SUFFICES ASSUME NEW x \in Sessions!Statements(h) PROVE FALSE
        OBVIOUS
      <3>1. x \in HandleNums /\ Db2Alive(db2, x) /\ db2[x].parent = h /\ x # h
        BY OwnerFacts DEF Sessions!Statements
      <3>2. db2[x].kind # "dbc" BY <3>1, OwnerFacts
      <3>3. db2[x].kind \in {"free", "dbc", "stmt"}
        BY <3>1, SlotTypes DEF IInv, TypeOK, Db2Handle
      <3> QED BY <1>6, <3>1, <3>2, <3>3 DEF Db2Alive
    <2>4. \A u \in Threads : call[u].at = "db2" => call[u].c # h
      BY <1>6, <1>8, <1>12, <1>14, <2>1, OwnerFacts DEF IInv, Exclusive, ReleaseOps
    <2>5. ~Sessions!AtWork(h) BY <1>6, <2>4, NobodyAtWork
    <2>6. h \notin SessionConnected BY <2>1 DEF SessionConnected
    <2>7. Sessions!DropConnection(h)
      BY <1>1, <1>4, <1>6, <1>9, <1>10, <2>2, <2>3, <2>5, <2>6 DEF Sessions!DropConnection
    <2> QED BY <1>6, <2>7 DEF Step, Sessions!Next
  <1> QED BY <1>5, <1>13, <1>14

-----------------------------------------------------------------------------
LEMMA CallStepSession ==
  ASSUME IInv, NoStray, NEW t \in Threads, CallStep(t)
  PROVE  Step
  <1>1. CASE BareCallReturns(t)
    <2>1. call[t].at = "bare" /\ Return(t, {}) /\ db2' = db2 BY <1>1 DEF BareCallReturns
    <2>2. Others(t) /\ call'[t].at = "idle" /\ known' = known
      BY <2>1, ReturnFacts DEF IInv
    <2> QED BY <2>1, <2>2, Stutters
  <1>2. CASE FreeInTable(t)
    <2>1. call[t].at = "table" /\ Return(t, {}) /\ db2' = db2 BY <1>2 DEF FreeInTable
    <2>2. Others(t) /\ call'[t].at = "idle" /\ known' = known
      BY <2>1, ReturnFacts DEF IInv
    <2> QED BY <2>1, <2>2, Stutters
  <1> QED BY <1>1, <1>2, LockSession, LockedSession, ConnectSession, DisconnectSession,
             CheckSession, AllocSession, AllocTableSession, FreeSession DEF CallStep

LEMMA NextSession ==
  ASSUME IInv, NoStray, [Next]_vars
  PROVE  Step
  <1>1. CASE UNCHANGED vars
    <2>1. db2' = db2 /\ call' = call /\ known' = known BY <1>1 DEF vars
    <2>2. SessionInside' = SessionInside BY <2>1 DEF SessionInside
    <2> QED BY <2>1, <2>2, SameOwners DEF Step, Sessions!sessions
  <1> QED BY <1>1, BeginCallSession, CallStepSession DEF Next, Quiescent

LEMMA InitSession ==
  ASSUME Init
  PROVE  Sessions!Init
  <1>1. IInv BY InitIInv
  <1>2. SessionOwner \in [HandleNums -> HandleNums \cup {0}]
    BY <1>1, OwnerFacts DEF SessionOwner
  <1>3. \A h \in Sessions!Alive : Sessions!Connection(SessionOwner[h])
    <2> SUFFICES ASSUME NEW h \in Sessions!Alive
                 PROVE  Sessions!Connection(SessionOwner[h])
      OBVIOUS
    <2>1. h \in HandleNums /\ Db2Alive(db2, h) /\ SessionOwner[h] = db2[h].parent
          /\ db2[h].parent \in HandleNums
      BY <1>1, OwnerFacts
    <2>2. db2[h].kind \in {"dbc", "stmt"}
      BY <1>1, <2>1, SlotTypes DEF IInv, TypeOK, Db2Handle, Db2Alive
    <2>3. db2[db2[h].parent].kind = "dbc" BY <1>1, <2>1, <2>2 DEF IInv, Db2Tree
    <2> QED BY <1>1, <2>1, <2>3, OwnerFacts DEF Sessions!Connection
  <1>4. SessionConnected \subseteq {h \in HandleNums : Sessions!Connection(h)}
    BY <1>1, OwnerFacts DEF SessionConnected, Sessions!Connection
  <1>5. SessionInside = [t \in Threads |-> 0] BY DEF Init, SessionInside, NoCall, Started
  <1>6. known = Sessions!Alive
    <2>1. \A h \in HandleNums : Db2Alive(db2, h) <=> h \in known
      BY CallAssumption, SlotTypes DEF Init, Db2Alive, Db2Free, OpenedUnder
    <2>2. known \subseteq HandleNums BY <1>1 DEF IInv, KnownAlive
    <2> QED BY <1>1, <2>1, <2>2, OwnerFacts
  <1> QED BY <1>2, <1>3, <1>4, <1>5, <1>6 DEF Sessions!Init

\* The exported calls, made by careful clients, give sessions: work on a connection
\* excludes other work on it, what a client holds stays, nothing in use ends,
\* however the table maps handles to mutexes and numbers are used again.
THEOREM SessionsImplemented ==
  ASSUME CarefulClients
  PROVE  Spec => ImplementsSessions
  <1>1. Init => Sessions!Init BY InitSession
  <1>2. IInv /\ NoStray /\ [Next]_vars => [Sessions!Next]_Sessions!sessions
    BY NextSession DEF Step
  <1>3. Spec => [](IInv /\ NoStray) BY Invariant
  <1> QED BY <1>1, <1>2, <1>3, PTL DEF Spec, ImplementsSessions, Sessions!Spec
=============================================================================
