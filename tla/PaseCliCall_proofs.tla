--------------------------- MODULE PaseCliCall_proofs ---------------------------
(***************************************************************************)
(* Proofs about PaseCliCall for any number of threads, any size of the      *)
(* table, any handles open at the start and any number of calls: what the   *)
(* operators return, type correctness, and the inductive invariant from     *)
(* which the safety properties follow, for careful clients that do not use  *)
(* SQLFreeStmt with an option other than SQL_DROP.                          *)
(***************************************************************************)
EXTENDS PaseCliCall, TLAPS

-----------------------------------------------------------------------------
(* The operators on tables and on DB2's handles return what they should.     *)

LEMMA SlotTypes ==
  /\ Slots \subseteq Nat /\ 0 \in Slots /\ HandleNums \subseteq Slots
  /\ ZeroSlot \in Slot
  /\ FreeMutex \in Mutex
  /\ Db2Free \in Db2Handle
  /\ NoCall \in Call
<1> USE TableAssumption
<1>1. Slots \subseteq Nat /\ 0 \in Slots /\ HandleNums \subseteq Slots
  BY DEF Slots, HandleNums
<1>2. ZeroSlot \in Slot
  BY <1>1 DEF ZeroSlot, Slot
<1>3. FreeMutex \in Mutex /\ Db2Free \in Db2Handle
  BY <1>1 DEF FreeMutex, Mutex, Db2Free, Db2Handle
<1>4. NoCall \in Call
  BY <1>1 DEF NoCall, Started, Call, Labels
<1> QED BY <1>1, <1>2, <1>3, <1>4

LEMMA MutexTypes ==
  ASSUME NEW mx \in Mutex, NEW t \in Threads
  PROVE  /\ MayLock(mx, t) => Locked(mx, t) \in Mutex
         /\ Unlocked(mx, t) \in Mutex
BY TableAssumption DEF Mutex, FreeMutex, MayLock, Locked, Unlocked

LEMMA CtorType ==
  ASSUME NEW tab \in [Slots -> Slot], NEW h \in Slots, NEW c \in Slots
  PROVE  Ctor(tab, h, c) \in [Slots -> Slot]
<1>1. /\ tab[h].thread_init \in BOOLEAN
      /\ tab[h].in_progress \in Int
      /\ tab[h].hstmt \in Slots
  BY DEF Slot
<1> DEFINE first == tab[h].hstmt = 0 /\ ~tab[h].thread_init
           new == [hstmt |-> h, hdbc |-> c, tid |-> NoThread,
                   in_progress |-> IF first THEN 0 ELSE tab[h].in_progress,
                   hKey |-> NoKey, thread_init |-> tab[h].thread_init \/ first]
<1>2. (IF first THEN 0 ELSE tab[h].in_progress) \in Int
  BY <1>1
<1>3. (tab[h].thread_init \/ first) \in BOOLEAN
  OBVIOUS
<1>4. new \in Slot
  BY <1>2, <1>3 DEF Slot
<1>5. Ctor(tab, h, c) = [tab EXCEPT ![h] = new]
  BY DEF Ctor
<1> QED BY <1>4, <1>5

LEMMA DtorType ==
  ASSUME NEW tab \in [Slots -> Slot], NEW h \in Slots
  PROVE  Dtor(tab, h) \in [Slots -> Slot]
<1>1. \A i \in Slots : Cleared(tab[i]) \in Slot
  BY SlotTypes DEF Cleared, Slot, ZeroSlot
<1> QED BY <1>1 DEF Dtor

LEMMA LockIndexType ==
  ASSUME NEW tab \in [Slots -> Slot], NEW h \in Slots, NEW f
  PROVE  LockIndex(tab, h, f) \in Slots
BY DEF LockIndex, Slot

\* Marking a slot busy or idle touches its counter and its thread only.
LEMMA MarkedFields ==
  ASSUME NEW s \in Slot, NEW n \in Int, NEW u \in Threads \cup {NoThread}
  PROVE  /\ Marked(s, n, u) \in Slot
         /\ Marked(s, n, u).hstmt = s.hstmt
         /\ Marked(s, n, u).hdbc = s.hdbc
         /\ Marked(s, n, u).hKey = s.hKey
         /\ Marked(s, n, u).thread_init = s.thread_init
BY DEF Marked, Slot

SameMapping(tab, new) ==
  \A i \in Slots : /\ new[i].hstmt = tab[i].hstmt
                   /\ new[i].hdbc = tab[i].hdbc
                   /\ new[i].hKey = tab[i].hKey
                   /\ new[i].thread_init = tab[i].thread_init

LEMMA MarkBusyFacts ==
  ASSUME NEW tab \in [Slots -> Slot], NEW h \in Slots, NEW f, NEW t \in Threads
  PROVE  /\ MarkBusy(tab, h, f, t) \in [Slots -> Slot]
         /\ SameMapping(tab, MarkBusy(tab, h, f, t))
<1> DEFINE lk == LockIndex(tab, h, f)
           new == Marked(tab[lk], tab[lk].in_progress + 1, t)
<1>1. lk \in Slots
  BY LockIndexType
<1>2. tab[lk] \in Slot /\ tab[lk].in_progress + 1 \in Int
  BY <1>1 DEF Slot
<1>3. MarkBusy(tab, h, f, t) = [tab EXCEPT ![lk] = new]
  BY DEF MarkBusy
<1>4. /\ new \in Slot
      /\ new.hstmt = tab[lk].hstmt /\ new.hdbc = tab[lk].hdbc
      /\ new.hKey = tab[lk].hKey /\ new.thread_init = tab[lk].thread_init
  BY <1>2, MarkedFields
<1> HIDE DEF lk, new
<1> QED BY <1>1, <1>3, <1>4 DEF SameMapping

LEMMA MarkIdleFacts ==
  ASSUME NEW tab \in [Slots -> Slot], NEW h \in Slots, NEW f
  PROVE  /\ MarkIdle(tab, h, f) \in [Slots -> Slot]
         /\ SameMapping(tab, MarkIdle(tab, h, f))
<1> DEFINE lk == LockIndex(tab, h, f)
           less == IF tab[h].in_progress > 0 THEN 1 ELSE 0
           left == tab[h].in_progress - (IF lk = h THEN less ELSE 0)
           tid == IF left = 0 THEN NoThread ELSE tab[lk].tid
           new == Marked(tab[lk], tab[lk].in_progress - less, tid)
<1>1. lk \in Slots
  BY LockIndexType
<1>2. /\ tab[lk] \in Slot /\ tab[lk].in_progress - less \in Int
      /\ tid \in Threads \cup {NoThread}
  BY <1>1 DEF Slot
<1>3. MarkIdle(tab, h, f) = [tab EXCEPT ![lk] = new]
  BY DEF MarkIdle
<1>4. /\ new \in Slot
      /\ new.hstmt = tab[lk].hstmt /\ new.hdbc = tab[lk].hdbc
      /\ new.hKey = tab[lk].hKey /\ new.thread_init = tab[lk].thread_init
  BY <1>2, MarkedFields
<1> HIDE DEF lk, new
<1> QED BY <1>1, <1>3, <1>4 DEF SameMapping

LEMMA Db2Types ==
  ASSUME NEW d \in [Slots -> Db2Handle], NEW h \in Slots, NEW c \in Slots
  PROVE  /\ Db2NewDbc(d, h) \in [Slots -> Db2Handle]
         /\ Db2NewStmt(d, h, c) \in [Slots -> Db2Handle]
         /\ Db2Connect(d, c) \in [Slots -> Db2Handle]
         /\ Db2Disconnect(d, c) \in [Slots -> Db2Handle]
         /\ Db2FreeStmt(d, h) \in [Slots -> Db2Handle]
         /\ Db2FreeDbc(d, h) \in [Slots -> Db2Handle]
<1>1. Db2Free \in Db2Handle
  BY SlotTypes
<1>2. Db2NewDbc(d, h) \in [Slots -> Db2Handle] /\ Db2NewStmt(d, h, c) \in [Slots -> Db2Handle]
  BY DEF Db2NewDbc, Db2NewStmt, Db2Handle
<1>3. Db2Connect(d, c) \in [Slots -> Db2Handle] /\ Db2Disconnect(d, c) \in [Slots -> Db2Handle]
  BY <1>1 DEF Db2Connect, Db2Disconnect, Db2Handle
<1>4. Db2FreeStmt(d, h) \in [Slots -> Db2Handle] /\ Db2FreeDbc(d, h) \in [Slots -> Db2Handle]
  BY <1>1 DEF Db2FreeStmt, Db2FreeDbc
<1> QED BY <1>2, <1>3, <1>4

-----------------------------------------------------------------------------
(* Type correctness                                                          *)

LEMMA InitTypeOK == Init => TypeOK
<1> SUFFICES ASSUME Init PROVE TypeOK
  OBVIOUS
<1> USE SlotTypes, CallAssumption
<1> DEFINE conn(h) == CHOOSE c \in OpenedUnder(h) : TRUE
           key(h) == IF h \in Pooled THEN CHOOSE k \in Keys : TRUE ELSE NoKey
<1>1. ASSUME NEW h \in Slots, OpenedUnder(h) # {}
      PROVE  conn(h) \in Slots /\ key(h) \in Keys \cup {NoKey}
  BY <1>1 DEF OpenedUnder
<1>2. table \in [Slots -> Slot]
  <2>1. ASSUME NEW h \in Slots, OpenedUnder(h) # {}
        PROVE  OpenedSlot(h) \in Slot
    BY <1>1, <2>1 DEF OpenedSlot, Slot
  <2> QED BY <2>1 DEF Init
<1>3. db2 \in [Slots -> Db2Handle]
  BY <1>1 DEF Init, Db2Handle
<1>4. mutex \in [Slots -> Mutex] /\ glock \in Threads \cup {NoThread}
  BY DEF Init
<1>5. call \in [Threads -> Call] /\ calls \in [Threads -> 0 .. MaxCalls]
  BY DEF Init
<1>6. known \in SUBSET Slots
  <2>1. \A p \in Opened : p[1] \in Slots
    OBVIOUS
  <2> QED BY <2>1 DEF Init
<1> QED BY <1>2, <1>3, <1>4, <1>5, <1>6 DEF TypeOK

LEMMA BeginType ==
  ASSUME TypeOK, NEW t \in Threads, NEW op, NEW h \in Slots, NEW label \in Labels,
         Begin(t, op, h, label), known' \in SUBSET Slots
  PROVE  TypeOK'
<1> USE SlotTypes, CallAssumption
<1>1. h \in Slots /\ db2[h].parent \in Slots
      /\ LockIndex(table, h, Flag(op)) \in Slots
  BY LockIndexType DEF TypeOK, Db2Handle
<1>2. op \in CallOps \cup LongOps
  BY DEF Begin
<1>3. call' \in [Threads -> Call]
  BY <1>1, <1>2 DEF Begin, TypeOK, Call, Started
<1>4. calls' \in [Threads -> 0 .. MaxCalls]
  BY DEF Begin, TypeOK
<1> QED BY <1>3, <1>4 DEF Begin, TypeOK

LEMMA ReturnType ==
  ASSUME TypeOK, NEW t \in Threads, NEW back \in SUBSET Slots, Return(t, back)
  PROVE  call' \in [Threads -> Call] /\ known' \in SUBSET Slots
BY SlotTypes DEF TypeOK, Return

LEMMA GotoType ==
  ASSUME TypeOK, NEW t \in Threads, NEW label \in Labels, Goto(t, label)
  PROVE  call' \in [Threads -> Call]
BY DEF TypeOK, Goto, Call

LEMMA WithNewType ==
  ASSUME NEW c \in Call, NEW o \in Slots
  PROVE  WithNew(c, o) \in Call
BY DEF WithNew, Call, Labels

\* A refused release hands nothing back but the connection and its statements.
LEMMA KeptUnderFacts ==
  ASSUME NEW h \in Slots
  PROVE  KeptUnder(h) \subseteq {h} \cup Db2Stmts(db2, h) /\ KeptUnder(h) \in SUBSET Slots
BY DEF KeptUnder, Db2Stmts

LEMMA TableUnlockType ==
  ASSUME TypeOK, NEW t \in Threads, TableUnlock(t)
  PROVE  table' \in [Slots -> Slot] /\ mutex' \in [Slots -> Mutex]
<1> DEFINE h == call[t].h
           f == Flag(call[t].op)
           lk == LockIndex(table, h, f)
<1>1. h \in Slots
  BY DEF TypeOK, Call
<1>2. lk \in Slots /\ MarkIdle(table, h, f) \in [Slots -> Slot]
  BY <1>1, LockIndexType, MarkIdleFacts DEF TypeOK
<1>3. mutex[lk] \in Mutex
  BY <1>2 DEF TypeOK
<1>4. Unlocked(mutex[lk], t) \in Mutex
  BY <1>3, MutexTypes
<1>5. table' = MarkIdle(table, h, f) /\ mutex' = [mutex EXCEPT ![lk] = Unlocked(mutex[lk], t)]
  BY DEF TableUnlock
<1> HIDE DEF lk, f, h
<1> QED BY <1>2, <1>4, <1>5 DEF TypeOK

LEMMA BeginCallType ==
  ASSUME TypeOK, NEW t \in Threads, BeginCall(t)
  PROVE  TypeOK'
<1> USE SlotTypes
<1>1. CASE BeginAllocConnect(t)
  <2>1. known' \in SUBSET Slots
    BY <1>1 DEF BeginAllocConnect, TypeOK
  <2> QED BY <1>1, <2>1, BeginType DEF BeginAllocConnect, Labels
<1>2. ASSUME NEW h \in HandleNums,
             \/ BeginAllocStmt(t, h) \/ BeginStmtCall(t, h) \/ BeginConnCall(t, h)
             \/ BeginConnect(t, h) \/ BeginEndTran(t, h)
      PROVE  TypeOK'
  <2>1. known' \in SUBSET Slots
    BY <1>2 DEF BeginAllocStmt, BeginStmtCall, BeginConnCall, BeginConnect, BeginEndTran, TypeOK
  <2> QED BY <1>2, <2>1, BeginType
          DEF BeginAllocStmt, BeginStmtCall, BeginConnCall, BeginConnect, BeginEndTran, Labels
<1>3. ASSUME NEW h \in HandleNums,
             BeginFreeStmt(t, h) \/ BeginDisconnect(t, h) \/ BeginFreeConnect(t, h)
      PROVE  TypeOK'
  <2>1. known' \in SUBSET Slots
    BY <1>3 DEF BeginFreeStmt, BeginDisconnect, BeginFreeConnect, BeginRelease, TypeOK
  <2> QED BY <1>3, <2>1, BeginType
          DEF BeginFreeStmt, BeginDisconnect, BeginFreeConnect, BeginRelease, Labels
<1> QED BY <1>1, <1>2, <1>3 DEF BeginCall

LEMMA CallStepType ==
  ASSUME TypeOK, NEW t \in Threads, CallStep(t)
  PROVE  TypeOK'
<1> USE SlotTypes
<1> DEFINE h == call[t].h
<1>1. /\ call[t] \in Call /\ h \in Slots /\ call[t].m \in Slots /\ call[t].o \in Slots
      /\ table \in [Slots -> Slot] /\ db2 \in [Slots -> Db2Handle]
  BY DEF TypeOK, Call
<1>2. KeptUnder(h) \in SUBSET Slots
  BY <1>1, KeptUnderFacts
<1>3. CASE TableLock(t)
  <2>1. table' \in [Slots -> Slot]
    BY <1>1, <1>3, MarkBusyFacts DEF TableLock
  <2>2. mutex' \in [Slots -> Mutex]
    BY <1>1, <1>3, MutexTypes DEF TableLock, TypeOK
  <2>3. call' \in [Threads -> Call]
    BY <1>3, GotoType DEF TableLock, Labels
  <2> QED BY <1>3, <2>1, <2>2, <2>3 DEF TableLock, TypeOK
<1>4. CASE LockedCallReturns(t)
  BY <1>4, TableUnlockType, ReturnType DEF LockedCallReturns, TypeOK
<1>5. CASE ConnectReturns(t)
  <2>1. db2' \in [Slots -> Db2Handle]
    BY <1>1, <1>5, Db2Types DEF ConnectReturns
  <2> QED BY <1>5, <2>1, TableUnlockType, ReturnType DEF ConnectReturns, TypeOK
<1>6. CASE BareCallReturns(t)
  BY <1>6, ReturnType DEF BareCallReturns, TypeOK
<1>7. CASE DisconnectReturns(t)
  <2>1. db2' \in [Slots -> Db2Handle]
    <3>1. Db2Disconnect(db2, h) \in [Slots -> Db2Handle]
      BY <1>1, Db2Types
    <3> QED BY <1>1, <1>7, <3>1 DEF DisconnectReturns
  <2>2. call' \in [Threads -> Call] /\ known' \in SUBSET Slots
    BY <1>1, <1>2, <1>7, ReturnType DEF DisconnectReturns
  <2> QED BY <1>7, <2>1, <2>2, TableUnlockType DEF DisconnectReturns, TypeOK
<1>8. CASE CheckPersistent(t)
  <2>1. CASE HashActive(table, h)
    BY <1>1, <1>2, <1>8, <2>1, ReturnType DEF CheckPersistent, TypeOK
  <2>2. CASE ~HashActive(table, h)
    <3>1. call' \in [Threads -> Call]
      BY <1>8, <2>2, GotoType DEF CheckPersistent, Labels
    <3> QED BY <1>8, <2>2, <3>1 DEF CheckPersistent, TypeOK
  <2> QED BY <2>1, <2>2
<1>9. CASE AllocInDb2(t)
  <2>1. CASE Return(t, {}) /\ UNCHANGED <<glock, db2>>
    BY <1>9, <2>1, ReturnType DEF AllocInDb2, TypeOK
  <2>2. ASSUME NEW o \in HandleNums,
               db2' = Db2NewDbc(db2, o) \/ db2' = Db2NewStmt(db2, o, h),
               call' = [call EXCEPT ![t] = WithNew(call[t], o)],
               glock' = t, UNCHANGED known
        PROVE  TypeOK'
    <3>1. db2' \in [Slots -> Db2Handle]
      <4>1. /\ Db2NewDbc(db2, o) \in [Slots -> Db2Handle]
            /\ Db2NewStmt(db2, o, h) \in [Slots -> Db2Handle]
        BY <1>1, Db2Types
      <4> QED BY <2>2, <4>1
    <3>2. call' \in [Threads -> Call]
      <4>1. WithNew(call[t], o) \in Call
        BY <1>1, <2>2, WithNewType
      <4> QED BY <2>2, <4>1 DEF TypeOK
    <3> QED BY <1>9, <2>2, <3>1, <3>2 DEF AllocInDb2, TypeOK
  <2> QED BY <1>9, <2>1, <2>2 DEF AllocInDb2
<1>10. CASE AllocInTable(t)
  <2>1. table' \in [Slots -> Slot]
    BY <1>1, <1>10, CtorType DEF AllocInTable
  <2> QED BY <1>1, <1>10, <2>1, ReturnType DEF AllocInTable, TypeOK
<1>11. CASE FreeInDb2(t)
  <2>1. db2' \in [Slots -> Db2Handle]
    BY <1>1, <1>11, Db2Types DEF FreeInDb2
  <2>2. call' \in [Threads -> Call]
    BY <1>11, GotoType DEF FreeInDb2, Labels
  <2> QED BY <1>11, <2>1, <2>2 DEF FreeInDb2, TypeOK
<1>12. CASE FreeInTable(t)
  <2>1. table' \in [Slots -> Slot]
    BY <1>1, <1>12, DtorType DEF FreeInTable
  <2> QED BY <1>12, <2>1, ReturnType DEF FreeInTable, TypeOK
<1> QED BY <1>3, <1>4, <1>5, <1>6, <1>7, <1>8, <1>9, <1>10, <1>11, <1>12 DEF CallStep

\* Whatever the threads do, the table, the mutexes, DB2's handles and the calls
\* keep their shape: no call takes a mutex outside the table, files a handle under
\* a number outside it or leaves a mutex owned by a thread and counted zero.
THEOREM TypeCorrect == Spec => []TypeOK
<1>1. Init => TypeOK
  BY InitTypeOK
<1>2. TypeOK /\ [Next]_vars => TypeOK'
  <2> SUFFICES ASSUME TypeOK, [Next]_vars PROVE TypeOK'
    OBVIOUS
  <2>1. ASSUME NEW t \in Threads, BeginCall(t) PROVE TypeOK'
    BY <2>1, BeginCallType
  <2>2. ASSUME NEW t \in Threads, CallStep(t) PROVE TypeOK'
    BY <2>2, CallStepType
  <2>3. CASE UNCHANGED vars
    BY <2>3 DEF vars, TypeOK
  <2> QED BY <2>1, <2>2, <2>3 DEF Next, Quiescent
<1> QED BY <1>1, <1>2, PTL DEF Spec

-----------------------------------------------------------------------------
(* The clients the safety theorems are about                                 *)

\* The clients the theorems are about.
CarefulClients == Careful /\ "FreeStmtClose" \notin Ops

AllocOps == {"AllocConnect", "AllocStmt"}
ReleaseOps == {"Disconnect", "FreeConnect"}
LockOps == {"StmtCall", "ConnCall", "Connect", "Disconnect"}

-----------------------------------------------------------------------------
(* The parts of the inductive invariant                                      *)

\* Where a thread can be in each operation.
Phases ==
  \A t \in Threads :
    \/ call[t].at = "idle"
    \/ call[t].at = "check" /\ call[t].op \in ReleaseOps
    \/ call[t].at \in {"want", "db2"} /\ call[t].op \in LockOps
    \/ call[t].at = "bare" /\ call[t].op = "EndTran"
    \/ /\ call[t].at \in {"glock", "table"}
       /\ call[t].op \in AllocOps \cup {"FreeStmtDrop", "FreeConnect"}

\* The global lock belongs to the thread that is about to update the table.
GlobalLock == \A t \in Threads : glock = t <=> call[t].at = "table"

\* A thread inside DB2 holds the mutex of its connection once, and no other
\* mutex is held.
Held(t) == [owner |-> t, count |-> 1]

Mutexes ==
  /\ \A t \in Threads : call[t].at = "db2" => mutex[call[t].c] = Held(t)
  /\ \A s \in Slots :
       \/ mutex[s] = FreeMutex
       \/ \E t \in Threads : call[t].at = "db2" /\ call[t].c = s /\ mutex[s] = Held(t)

\* DB2 has allocated the handle, the table does not file it yet.
Reserved(o) ==
  \E t \in Threads : call[t].at = "table" /\ call[t].op \in AllocOps /\ call[t].o = o

\* DB2's handles form connections with statements under the connected ones.
Db2Tree ==
  \A h \in HandleNums : Db2Alive(db2, h) =>
    /\ db2[h].parent \in HandleNums
    /\ db2[h].kind = "dbc" => db2[h].parent = h
    /\ db2[h].kind = "stmt" => /\ db2[h].parent # h
                               /\ db2[db2[h].parent].kind = "dbc"
                               /\ db2[db2[h].parent].connected

\* The table files every handle DB2 knows but the reserved one.
Filed(h) ==
  /\ table[h].hstmt = h
  /\ table[h].hdbc = db2[h].parent
  /\ table[db2[h].parent].thread_init

AllFiled ==
  /\ \A h \in HandleNums : Db2Alive(db2, h) /\ ~Reserved(h) => Filed(h)
  /\ \A i \in Slots : table[i].hstmt # 0 => table[i].thread_init

KnownAlive == \A h \in known : h \in HandleNums /\ Db2Alive(db2, h) /\ ~Reserved(h)

\* The handle of a call in flight, but for an allocated connection's.
InFlight(t) == call[t].at # "idle" /\ call[t].op # "AllocConnect"

OfStmt == {"StmtCall", "FreeStmtDrop"}

\* Released by DB2, still in the table.
Forgotten(t) == call[t].at = "table" /\ call[t].op \in {"FreeStmtDrop", "FreeConnect"}

HandleOK(t) ==
  /\ call[t].h \in HandleNums /\ call[t].c \in HandleNums
  /\ ~Reserved(call[t].h)
  /\ call[t].op \in OfStmt <=> call[t].h # call[t].c
  /\ call[t].op # "FreeStmtDrop" => call[t].m = call[t].c
  /\ ~Forgotten(t) => /\ Db2Alive(db2, call[t].h)
                      /\ db2[call[t].h].parent = call[t].c
  /\ Forgotten(t) => /\ ~Db2Alive(db2, call[t].h)
                     /\ table[call[t].h].hstmt = call[t].h
                     /\ table[call[t].h].hdbc = call[t].c
  /\ call[t].op = "FreeConnect" => ~db2[call[t].h].connected

Handles == \A t \in Threads : InFlight(t) => HandleOK(t)

\* The handle of an allocation that has not reached the table.
NewOK(t) ==
  /\ call[t].o \in HandleNums /\ Db2Alive(db2, call[t].o)
  /\ db2[call[t].o].parent = IF call[t].op = "AllocConnect" THEN call[t].o ELSE call[t].h

NewHandles ==
  \A t \in Threads : call[t].at = "table" /\ call[t].op \in AllocOps => NewOK(t)

\* Nobody else is in a call on what a thread releases, and no client holds it.
Exclusive ==
  \A t, u \in Threads : t # u /\ InFlight(t) /\ InFlight(u) =>
    /\ call[t].op \in ReleaseOps => call[u].c # call[t].c
    /\ call[t].op = "FreeStmtDrop" => call[u].h # call[t].h

Released ==
  \A t \in Threads : InFlight(t) =>
    /\ call[t].op \in ReleaseOps => \A x \in known : db2[x].parent # call[t].c
    /\ call[t].op = "FreeStmtDrop" => call[t].h \notin known

IInv ==
  /\ TypeOK /\ Phases /\ GlobalLock /\ Mutexes
  /\ Db2Tree /\ AllFiled /\ KnownAlive
  /\ Handles /\ NewHandles /\ Exclusive /\ Released

-----------------------------------------------------------------------------
(* What the pieces of a step do, in the words of the invariant               *)

Others(t) == \A u \in Threads \ {t} : call'[u] = call[u]

LEMMA GotoFacts ==
  ASSUME TypeOK, NEW t \in Threads, NEW label, Goto(t, label)
  PROVE  /\ Others(t)
         /\ call'[t].at = label
         /\ call'[t].op = call[t].op
         /\ call'[t].h = call[t].h
         /\ call'[t].c = call[t].c
         /\ call'[t].m = call[t].m
         /\ call'[t].o = call[t].o
BY DEF TypeOK, Goto, Call, Others

LEMMA ReturnFacts ==
  ASSUME TypeOK, NEW t \in Threads, NEW back, Return(t, back)
  PROVE  /\ Others(t)
         /\ call'[t].at = "idle"
         /\ known' = known \cup back
BY DEF TypeOK, Return, Others, NoCall, Started

LEMMA BeginFacts ==
  ASSUME TypeOK, NEW t \in Threads, NEW op, NEW h, NEW label, Begin(t, op, h, label)
  PROVE  /\ Others(t)
         /\ call[t].at = "idle"
         /\ call'[t].at = label
         /\ call'[t].op = op
         /\ call'[t].h = h
         /\ call'[t].c = db2[h].parent
         /\ call'[t].m = LockIndex(table, h, Flag(op))
         /\ op \in Ops
         /\ UNCHANGED <<table, mutex, glock, db2>>
BY DEF TypeOK, Begin, Others, Started

LEMMA WithNewFacts ==
  ASSUME TypeOK, NEW t \in Threads, NEW o,
         call' = [call EXCEPT ![t] = WithNew(call[t], o)]
  PROVE  /\ Others(t)
         /\ call'[t].at = "table"
         /\ call'[t].op = call[t].op
         /\ call'[t].h = call[t].h
         /\ call'[t].c = call[t].c
         /\ call'[t].m = call[t].m
         /\ call'[t].o = o
<1>1. call[t] \in Call
  BY DEF TypeOK
<1>2. /\ WithNew(call[t], o).at = "table"
      /\ WithNew(call[t], o).op = call[t].op
      /\ WithNew(call[t], o).h = call[t].h
      /\ WithNew(call[t], o).c = call[t].c
      /\ WithNew(call[t], o).m = call[t].m
      /\ WithNew(call[t], o).o = o
  BY <1>1 DEF WithNew, Call
<1> QED BY <1>2 DEF Others, TypeOK

\* The constructor files one handle and leaves the others alone.
LEMMA CtorFacts ==
  ASSUME NEW tab \in [Slots -> Slot], NEW h \in Slots, NEW c \in Slots,
         tab[h].hstmt # 0 => tab[h].thread_init
  PROVE  /\ Ctor(tab, h, c)[h].hstmt = h
         /\ Ctor(tab, h, c)[h].hdbc = c
         /\ Ctor(tab, h, c)[h].thread_init
         /\ \A i \in Slots \ {h} : Ctor(tab, h, c)[i] = tab[i]
<1>1. tab[h].hstmt = 0 \/ tab[h].hstmt # 0
  OBVIOUS
<1> DEFINE first == tab[h].hstmt = 0 /\ ~tab[h].thread_init
           n == IF first THEN 0 ELSE tab[h].in_progress
           i == tab[h].thread_init \/ first
           new == [hstmt |-> h, hdbc |-> c, tid |-> NoThread, in_progress |-> n,
                   hKey |-> NoKey, thread_init |-> i]
<1>2. i = TRUE
  BY <1>1 DEF Slot
<1>3. Ctor(tab, h, c) = [tab EXCEPT ![h] = new]
  BY DEF Ctor
<1> HIDE DEF n, i
<1> QED BY <1>2, <1>3

\* The destructor clears the handle and, for a connection, the slots filed under
\* it, and touches no mutex.
LEMMA DtorFacts ==
  ASSUME NEW tab \in [Slots -> Slot], NEW h \in Slots
  PROVE  \A i \in Slots :
           /\ Dtor(tab, h)[i].thread_init = tab[i].thread_init
           /\ Dtor(tab, h)[i].hstmt \in {0, tab[i].hstmt}
           /\ i # h /\ (tab[h].hdbc # tab[h].hstmt \/ tab[i].hdbc # tab[h].hdbc)
              => Dtor(tab, h)[i] = tab[i]
<1> TAKE i \in Slots
<1>1. /\ Cleared(tab[i]).thread_init = tab[i].thread_init
      /\ Cleared(tab[i]).hstmt = 0
  BY DEF Cleared, ZeroSlot
<1>2. Dtor(tab, h)[i] \in {Cleared(tab[i]), tab[i]}
  BY DEF Dtor
<1>3. i # h /\ (tab[h].hdbc # tab[h].hstmt \/ tab[i].hdbc # tab[h].hdbc)
      => Dtor(tab, h)[i] = tab[i]
  BY DEF Dtor, StmtsOf
<1> QED BY <1>1, <1>2, <1>3

LEMMA Db2ConnectFacts ==
  ASSUME NEW d \in [Slots -> Db2Handle], NEW c
  PROVE  \A x \in Slots : /\ Db2Connect(d, c)[x].kind = d[x].kind
                          /\ Db2Connect(d, c)[x].parent = d[x].parent
                          /\ x # c => Db2Connect(d, c)[x] = d[x]
                          /\ d[x].connected => Db2Connect(d, c)[x].connected
BY DEF Db2Connect, Db2Handle

\* A thread that does not move keeps its handle when nobody changes the handle's
\* entries.
LEMMA HandleFrame ==
  ASSUME NEW u \in Threads, call'[u] = call[u], HandleOK(u),
         ~Reserved(call[u].h)',
         db2'[call[u].h] = db2[call[u].h],
         Forgotten(u) => /\ table'[call[u].h].hstmt = table[call[u].h].hstmt
                         /\ table'[call[u].h].hdbc = table[call[u].h].hdbc
  PROVE  HandleOK(u)'
<1>1. Forgotten(u)' <=> Forgotten(u)
  BY DEF Forgotten
<1> QED BY <1>1 DEF HandleOK, Db2Alive

LEMMA NewFrame ==
  ASSUME NEW u \in Threads, call'[u] = call[u], NewOK(u),
         db2'[call[u].o] = db2[call[u].o]
  PROVE  NewOK(u)'
BY DEF NewOK, Db2Alive

-----------------------------------------------------------------------------
(* A call begins                                                             *)

\* What a thread begins on is alive and filed, and no release in flight covers it.
Undisturbed(t, op, h) ==
  /\ h \in HandleNums /\ Db2Alive(db2, h) /\ ~Reserved(h)
  /\ op \in OfStmt <=> db2[h].kind = "stmt"
  /\ \A u \in Threads \ {t} : InFlight(u) =>
       /\ call[u].op \in ReleaseOps => call[u].c # db2[h].parent
       /\ call[u].op = "FreeStmtDrop" => call[u].h # h

LEMMA StartKeeps ==
  ASSUME IInv, TypeOK', NEW t \in Threads, NEW op, NEW h, NEW label,
         Begin(t, op, h, label),
         \/ label = "check" /\ op \in ReleaseOps
         \/ label = "want" /\ op \in LockOps
         \/ label = "bare" /\ op = "EndTran"
         \/ label = "glock" /\ op \in AllocOps \cup {"FreeStmtDrop"},
         known' \subseteq known,
         op # "AllocConnect" => Undisturbed(t, op, h),
         op \in ReleaseOps => ~InUseByOthers(t, h) /\ \A x \in known' : db2[x].parent # h,
         op = "FreeStmtDrop" => ~InUseByOthers(t, h) /\ h \notin known',
         op = "FreeConnect" => ~db2[h].connected
  PROVE  IInv'
<1> USE DEF AllocOps, ReleaseOps, LockOps
<1>1. /\ Others(t) /\ call[t].at = "idle"
      /\ call'[t].at = label /\ call'[t].op = op /\ call'[t].h = h
      /\ call'[t].c = db2[h].parent
      /\ call'[t].m = LockIndex(table, h, Flag(op))
      /\ UNCHANGED <<table, mutex, glock, db2>>
  BY BeginFacts DEF IInv
<1>2. label \in {"check", "want", "bare", "glock"}
  OBVIOUS
<1>3. \A o : Reserved(o)' <=> Reserved(o)
  BY <1>1, <1>2 DEF Reserved, Others
<1>4. Phases'
  BY <1>1 DEF IInv, Phases, Others
<1>5. GlobalLock'
  BY <1>1, <1>2 DEF IInv, GlobalLock, Others
<1>6. Mutexes'
  BY <1>1, <1>2 DEF IInv, Mutexes, Others
<1>7. Db2Tree'
  BY <1>1 DEF IInv, Db2Tree
<1>8. AllFiled'
  BY <1>1, <1>3 DEF IInv, AllFiled, Filed
<1>9. KnownAlive'
  BY <1>1, <1>3 DEF IInv, KnownAlive
<1>10. op # "AllocConnect" =>
         /\ h \in HandleNums /\ Db2Alive(db2, h) /\ ~Reserved(h)
         /\ db2[h].parent \in HandleNums
         /\ op \in OfStmt <=> h # db2[h].parent
         /\ op \notin OfStmt => db2[h].kind = "dbc"
         /\ op # "FreeStmtDrop" => LockIndex(table, h, Flag(op)) = db2[h].parent
  <2> SUFFICES ASSUME op # "AllocConnect" PROVE
         /\ h \in HandleNums /\ Db2Alive(db2, h) /\ ~Reserved(h)
         /\ db2[h].parent \in HandleNums
         /\ op \in OfStmt <=> h # db2[h].parent
         /\ op \notin OfStmt => db2[h].kind = "dbc"
         /\ op # "FreeStmtDrop" => LockIndex(table, h, Flag(op)) = db2[h].parent
    OBVIOUS
  <2>1. h \in HandleNums /\ Db2Alive(db2, h) /\ ~Reserved(h)
    BY DEF Undisturbed
  <2>2. /\ db2[h].parent \in HandleNums /\ (db2[h].kind = "stmt" <=> h # db2[h].parent)
        /\ db2[h].kind # "stmt" => db2[h].kind = "dbc"
    BY <2>1, SlotTypes DEF IInv, TypeOK, Db2Tree, Db2Alive, Db2Handle
  <2>3. table[h].hdbc = db2[h].parent
    BY <2>1 DEF IInv, AllFiled, Filed
  <2> QED BY <2>1, <2>2, <2>3 DEF LockIndex, Flag, OfStmt, Undisturbed
<1>11. Handles'
  <2>1. ASSUME NEW u \in Threads \ {t}, InFlight(u)' PROVE HandleOK(u)'
    <3>1. call'[u] = call[u] /\ InFlight(u)
      BY <1>1, <2>1 DEF InFlight, Others
    <3>2. HandleOK(u)
      BY <3>1 DEF IInv, Handles
    <3>3. ~Reserved(call[u].h)'
      BY <1>1, <1>2, <3>2 DEF Reserved, Others, HandleOK
    <3> QED BY <1>1, <3>1, <3>2, <3>3, HandleFrame
  <2>2. ASSUME op # "AllocConnect" PROVE HandleOK(t)'
    <3>1. ~Forgotten(t)'
      BY <1>1, <1>2 DEF Forgotten
    <3>2. ~Reserved(call[t].h)'
      BY <1>1, <1>2, <1>10, <2>2 DEF Reserved, Others
    <3>3. op = "FreeConnect" => ~db2[h].connected
      OBVIOUS
    <3> QED BY <1>1, <1>10, <2>2, <3>1, <3>2, <3>3 DEF HandleOK, Db2Alive
  <2> QED BY <1>1, <2>1, <2>2 DEF Handles, InFlight
<1>12. NewHandles'
  <2>1. ASSUME NEW u \in Threads, call'[u].at = "table", call'[u].op \in AllocOps PROVE NewOK(u)'
    <3>1. call'[u] = call[u]
      BY <1>1, <1>2, <2>1 DEF Others
    <3> QED BY <1>1, <2>1, <3>1, NewFrame DEF IInv, NewHandles
  <2> QED BY <2>1 DEF NewHandles
<1>13. Exclusive'
  <2>1. ASSUME NEW u \in Threads, u # t, InFlight(u), op # "AllocConnect"
        PROVE  /\ op \in ReleaseOps => call[u].c # db2[h].parent
               /\ op = "FreeStmtDrop" => call[u].h # h
               /\ call[u].op \in ReleaseOps => call[u].c # db2[h].parent
               /\ call[u].op = "FreeStmtDrop" => call[u].h # h
    <3>1. call[u].at # "idle" /\ u \in Threads \ {t}
      BY <2>1 DEF InFlight
    <3>2. op \in ReleaseOps => call[u].c # db2[h].parent
      BY <1>10, <2>1, <3>1 DEF InUseByOthers, OfStmt
    <3>3. op = "FreeStmtDrop" => call[u].h # h
      BY <2>1, <3>1 DEF InUseByOthers, OfStmt, Undisturbed
    <3>4. /\ call[u].op \in ReleaseOps => call[u].c # db2[h].parent
          /\ call[u].op = "FreeStmtDrop" => call[u].h # h
      BY <2>1, <3>1 DEF Undisturbed
    <3> QED BY <3>2, <3>3, <3>4
  <2>2. ASSUME NEW u \in Threads, NEW v \in Threads, u # v, InFlight(u)', InFlight(v)'
        PROVE  /\ call'[u].op \in ReleaseOps => call'[v].c # call'[u].c
               /\ call'[u].op = "FreeStmtDrop" => call'[v].h # call'[u].h
    <3>1. CASE u = t
      BY <1>1, <2>1, <2>2, <3>1 DEF InFlight, Others
    <3>2. CASE v = t
      BY <1>1, <2>1, <2>2, <3>2 DEF InFlight, Others
    <3>3. CASE u # t /\ v # t
      BY <1>1, <2>2, <3>3 DEF InFlight, Others, IInv, Exclusive
    <3> QED BY <3>1, <3>2, <3>3
  <2> QED BY <2>2 DEF Exclusive
<1>14. Released'
  <2>1. ASSUME NEW u \in Threads \ {t}, InFlight(u)'
        PROVE  /\ call'[u].op \in ReleaseOps => \A x \in known' : db2'[x].parent # call'[u].c
               /\ call'[u].op = "FreeStmtDrop" => call'[u].h \notin known'
    BY <1>1, <2>1 DEF InFlight, Others, IInv, Released
  <2>2. ASSUME op # "AllocConnect"
        PROVE  /\ op \in ReleaseOps => \A x \in known' : db2[x].parent # db2[h].parent
               /\ op = "FreeStmtDrop" => h \notin known'
    <3>1. op \in ReleaseOps => db2[h].parent = h /\ db2[h].kind = "dbc"
      BY <1>10, <2>2 DEF OfStmt
    <3> QED BY <2>2, <3>1
  <2> QED BY <1>1, <2>1, <2>2 DEF Released, InFlight
<1> QED BY <1>4, <1>5, <1>6, <1>7, <1>8, <1>9, <1>11, <1>12, <1>13, <1>14 DEF IInv

\* A handle some client holds can be used.
LEMMA BeginKeeps ==
  ASSUME IInv, TypeOK', NEW t \in Threads, NEW op, NEW h, NEW label,
         Begin(t, op, h, label),
         \/ label = "check" /\ op \in ReleaseOps
         \/ label = "want" /\ op \in LockOps
         \/ label = "bare" /\ op = "EndTran"
         \/ label = "glock" /\ op \in AllocOps \cup {"FreeStmtDrop"},
         known' \subseteq known,
         op # "AllocConnect" => h \in known /\ (op \in OfStmt <=> db2[h].kind = "stmt"),
         op \in ReleaseOps => ~InUseByOthers(t, h) /\ known' = known \ GivenBack(h),
         op = "FreeStmtDrop" => ~InUseByOthers(t, h) /\ known' = known \ {h},
         op = "FreeConnect" => ~db2[h].connected
  PROVE  IInv'
<1>1. op # "AllocConnect" => Undisturbed(t, op, h)
  BY DEF IInv, KnownAlive, Released, Undisturbed
<1>2. op \in ReleaseOps => \A x \in known' : db2[x].parent # h
  <2> SUFFICES ASSUME op \in ReleaseOps, NEW x \in known' PROVE db2[x].parent # h
    OBVIOUS
  <2>1. Undisturbed(t, op, h) /\ op \notin OfStmt
    BY <1>1 DEF ReleaseOps, OfStmt
  <2>2. db2[h].kind = "dbc"
    BY <2>1, SlotTypes DEF Undisturbed, IInv, TypeOK, Db2Alive, Db2Handle
  <2> QED BY <2>2 DEF GivenBack
<1> QED BY <1>1, <1>2, StartKeeps

-----------------------------------------------------------------------------
(* The resource locks                                                        *)

\* A thread on its way into or out of DB2 under a lock: the index it computes is
\* its connection, whose mutex is initialised.
LEMMA LockFacts ==
  ASSUME IInv, NEW t \in Threads, call[t].at \in {"want", "db2"}
  PROVE  /\ InFlight(t) /\ ~Forgotten(t) /\ HandleOK(t)
         /\ call[t].op \in LockOps
         /\ call[t].m = call[t].c
         /\ LockIndex(table, call[t].h, Flag(call[t].op)) = call[t].c
         /\ table[call[t].c].thread_init
<1>1. call[t].op \in LockOps /\ InFlight(t) /\ ~Forgotten(t)
  BY DEF IInv, Phases, LockOps, InFlight, Forgotten
<1>2. HandleOK(t)
  BY <1>1 DEF IInv, Handles
<1>3. Filed(call[t].h)
  BY <1>1, <1>2 DEF IInv, AllFiled, HandleOK
<1>4. /\ table[call[t].h].hdbc = call[t].c
      /\ table[call[t].c].thread_init
  BY <1>1, <1>2, <1>3 DEF HandleOK, Filed
<1> QED BY <1>1, <1>2, <1>4 DEF HandleOK, LockIndex, Flag, OfStmt, LockOps

LEMMA HeldFacts ==
  /\ \A u \in Threads : Held(u).owner = u /\ Held(u) # FreeMutex
  /\ \A u, v \in Threads : Held(u) = Held(v) => u = v
<1>1. \A u \in Threads : Held(u).owner = u /\ FreeMutex.owner = NoThread
  BY DEF Held, FreeMutex
<1> QED BY <1>1, TableAssumption

LEMMA LockKeeps ==
  ASSUME IInv, NEW t \in Threads, TableLock(t)
  PROVE  Mutexes' /\ SameMapping(table, table')
<1> DEFINE c == call[t].c
<1>1. /\ call[t].at = "want" /\ call'[t].at = "db2" /\ call'[t].c = c /\ Others(t)
  BY GotoFacts DEF TableLock, IInv
<1>2. call[t].m = c /\ table[c].thread_init /\ c \in Slots
  BY <1>1, LockFacts, SlotTypes DEF HandleOK
<1>3. mutex' = [mutex EXCEPT ![c] = Locked(mutex[c], t)] /\ MayLock(mutex[c], t)
  BY <1>2 DEF TableLock
<1>4. mutex[c] = FreeMutex
  <2>1. \A u \in Threads : mutex[c] = Held(u) => u = t
    BY <1>3, HeldFacts, TableAssumption DEF MayLock
  <2> QED BY <1>1, <1>2, <2>1 DEF IInv, Mutexes
<1>5. Locked(mutex[c], t) = Held(t)
  BY <1>4 DEF Locked, FreeMutex, Held
<1>6. mutex' = [mutex EXCEPT ![c] = Held(t)] /\ mutex \in [Slots -> Mutex]
  BY <1>3, <1>5 DEF IInv, TypeOK
<1>7. \A u \in Threads : call[u].at = "db2" => call[u].c # c
  BY <1>4, HeldFacts DEF IInv, Mutexes
<1>8. Mutexes'
  <2>1. ASSUME NEW u \in Threads, call'[u].at = "db2" PROVE mutex'[call'[u].c] = Held(u)
    <3>1. CASE u = t
      BY <1>1, <1>2, <1>6, <3>1
    <3>2. CASE u # t
      BY <1>1, <1>6, <1>7, <2>1, <3>2 DEF Others, IInv, Mutexes
    <3> QED BY <3>1, <3>2
  <2>2. ASSUME NEW s \in Slots
        PROVE  \/ mutex'[s] = FreeMutex
               \/ \E u \in Threads : call'[u].at = "db2" /\ call'[u].c = s /\ mutex'[s] = Held(u)
    <3>1. CASE s = c
      BY <1>1, <1>2, <1>6, <3>1
    <3>2. CASE s # c
      BY <1>1, <1>6, <3>2 DEF Others, IInv, Mutexes
    <3> QED BY <3>1, <3>2
  <2> QED BY <2>1, <2>2 DEF Mutexes
<1>9. SameMapping(table, table')
  <2>1. call[t].h \in Slots
    BY DEF IInv, TypeOK, Call
  <2> QED BY <2>1, MarkBusyFacts DEF TableLock, IInv, TypeOK
<1> QED BY <1>8, <1>9

LEMMA UnlockKeeps ==
  ASSUME IInv, NEW t \in Threads, call[t].at = "db2", TableUnlock(t),
         Others(t), call'[t].at = "idle"
  PROVE  Mutexes' /\ SameMapping(table, table')
<1> DEFINE c == call[t].c
<1>1. LockIndex(table, call[t].h, Flag(call[t].op)) = c /\ c \in Slots
  BY LockFacts, SlotTypes DEF HandleOK
<1>2. mutex' = [mutex EXCEPT ![c] = Unlocked(mutex[c], t)]
  BY <1>1 DEF TableUnlock
<1>3. mutex[c] = Held(t)
  BY DEF IInv, Mutexes
<1>4. Unlocked(mutex[c], t) = FreeMutex
  BY <1>3 DEF Unlocked, Held
<1>5. mutex' = [mutex EXCEPT ![c] = FreeMutex] /\ mutex \in [Slots -> Mutex]
  BY <1>2, <1>4 DEF IInv, TypeOK
<1>6. \A u \in Threads : call[u].at = "db2" /\ u # t => call[u].c # c
  BY <1>3, HeldFacts DEF IInv, Mutexes
<1>7. Mutexes'
  <2>1. ASSUME NEW u \in Threads, call'[u].at = "db2" PROVE mutex'[call'[u].c] = Held(u)
    BY <1>5, <1>6, <2>1 DEF Others, IInv, Mutexes
  <2>2. ASSUME NEW s \in Slots
        PROVE  \/ mutex'[s] = FreeMutex
               \/ \E u \in Threads : call'[u].at = "db2" /\ call'[u].c = s /\ mutex'[s] = Held(u)
    BY <1>5 DEF Others, IInv, Mutexes
  <2> QED BY <2>1, <2>2 DEF Mutexes
<1>8. SameMapping(table, table')
  <2>1. call[t].h \in Slots
    BY DEF IInv, TypeOK, Call
  <2> QED BY <2>1, MarkIdleFacts DEF TableUnlock, IInv, TypeOK
<1> QED BY <1>7, <1>8

-----------------------------------------------------------------------------
(* Steps that leave DB2's handles, but for one that connects, and the table's *)
(* entries alone                                                             *)

LEMMA MoveKeeps ==
  ASSUME IInv, TypeOK', Mutexes', SameMapping(table, table'), glock' = glock,
         NEW t \in Threads, Others(t), call[t].at \notin {"idle", "table"},
         \/ call'[t].at = "idle"
         \/ /\ call'[t].op = call[t].op /\ call'[t].h = call[t].h
            /\ call'[t].c = call[t].c /\ call'[t].m = call[t].m
            /\ \/ call'[t].at \in {"want", "db2"} /\ call[t].op \in LockOps
               \/ call'[t].at = "glock" /\ call[t].op = "FreeConnect",
         \/ db2' = db2
         \/ call'[t].at = "idle" /\ InFlight(t) /\ db2' = Db2Connect(db2, call[t].c),
         NEW back, known' = known \cup back,
         \A x \in back : /\ call[t].op \in ReleaseOps /\ call'[t].at = "idle"
                         /\ x \in HandleNums
                         /\ Db2Alive(db2, x) /\ db2[x].parent = call[t].c
  PROVE  IInv'
<1>1. \A o : Reserved(o)' <=> Reserved(o)
  BY DEF Reserved, Others
<1>2. /\ \A x \in Slots : db2'[x].kind = db2[x].kind /\ db2'[x].parent = db2[x].parent
      /\ \A x \in Slots : x # call[t].c \/ call'[t].at # "idle" => db2'[x] = db2[x]
      /\ \A x \in Slots : db2[x].connected => db2'[x].connected
  <2>1. CASE db2' = db2
    BY <2>1
  <2>2. CASE call'[t].at = "idle" /\ db2' = Db2Connect(db2, call[t].c)
    BY <2>2, Db2ConnectFacts DEF IInv, TypeOK
  <2> QED BY <2>1, <2>2
<1>3. \A x \in HandleNums : Db2Alive(db2, x)' <=> Db2Alive(db2, x)
  BY <1>2, SlotTypes DEF Db2Alive
<1>4. Phases'
  BY DEF IInv, Phases, Others, LockOps
<1>5. GlobalLock'
  BY DEF IInv, GlobalLock, Others, LockOps
<1>6. Db2Tree'
  <2>1. ASSUME NEW h \in HandleNums, Db2Alive(db2, h)
        PROVE  /\ db2'[h].parent \in HandleNums
               /\ db2'[h].kind = "dbc" => db2'[h].parent = h
               /\ db2'[h].kind = "stmt" => /\ db2'[h].parent # h
                                           /\ db2'[db2'[h].parent].kind = "dbc"
                                           /\ db2'[db2'[h].parent].connected
    <3>1. db2'[h].kind = db2[h].kind /\ db2'[h].parent = db2[h].parent
      BY <1>2, SlotTypes
    <3>2. db2[h].parent \in HandleNums /\ db2[h].parent \in Slots
      BY <2>1, SlotTypes DEF IInv, Db2Tree
    <3>3. /\ db2'[db2[h].parent].kind = db2[db2[h].parent].kind
          /\ db2[db2[h].parent].connected => db2'[db2[h].parent].connected
      BY <1>2, <3>2
    <3> QED BY <2>1, <3>1, <3>2, <3>3 DEF IInv, Db2Tree
  <2> QED BY <1>3, <2>1 DEF Db2Tree
<1>7. AllFiled'
  <2>1. ASSUME NEW h \in HandleNums, Filed(h), Db2Alive(db2, h) PROVE Filed(h)'
    <3>1. db2[h].parent \in Slots /\ h \in Slots
      BY <2>1, SlotTypes DEF IInv, Db2Tree
    <3> QED BY <1>2, <2>1, <3>1 DEF Filed, SameMapping
  <2>2. \A i \in Slots : table'[i].hstmt # 0 => table'[i].thread_init
    BY DEF SameMapping, IInv, AllFiled
  <2> QED BY <1>1, <1>3, <2>1, <2>2 DEF IInv, AllFiled
<1>8. KnownAlive'
  <2>1. \A x \in back : ~Reserved(x)
    <3> SUFFICES ASSUME NEW x \in back, Reserved(x) PROVE FALSE
      OBVIOUS
    <3>1. PICK u \in Threads : call[u].at = "table" /\ call[u].op \in AllocOps /\ call[u].o = x
      BY DEF Reserved
    <3>2. db2[x].parent = (IF call[u].op = "AllocConnect" THEN x ELSE call[u].h) /\ u # t
      BY <3>1 DEF IInv, NewHandles, NewOK
    <3>3. InFlight(t) /\ HandleOK(t) /\ call[t].h = call[t].c
      BY <3>1 DEF InFlight, ReleaseOps, IInv, Handles, HandleOK, OfStmt
    <3>4. CASE call[u].op = "AllocConnect"
      BY <3>1, <3>2, <3>3, <3>4 DEF HandleOK, Reserved
    <3>5. CASE call[u].op = "AllocStmt"
      <4>1. InFlight(u) /\ HandleOK(u) /\ call[u].h = call[u].c
        BY <3>1, <3>5 DEF InFlight, IInv, Handles, HandleOK, OfStmt
      <4> QED BY <3>2, <3>3, <3>5, <4>1 DEF IInv, Exclusive
    <3> QED BY <3>1, <3>4, <3>5 DEF AllocOps
  <2> QED BY <1>1, <1>3, <2>1 DEF IInv, KnownAlive
<1>9. Handles'
  <2>1. ASSUME NEW u \in Threads \ {t}, InFlight(u)' PROVE HandleOK(u)'
    <3>1. call'[u] = call[u] /\ InFlight(u)
      BY <2>1 DEF InFlight, Others
    <3>2. HandleOK(u) /\ call[u].h \in Slots
      BY <3>1, SlotTypes DEF IInv, Handles, HandleOK
    <3>3. ~Reserved(call[u].h)'
      BY <3>1, <3>2 DEF Reserved, Others, HandleOK
    <3>4. call[u].op = "FreeConnect" => ~db2'[call[u].h].connected
      <4> SUFFICES ASSUME call[u].op = "FreeConnect" PROVE ~db2'[call[u].h].connected
        OBVIOUS
      <4>1. call[u].h = call[u].c /\ ~db2[call[u].h].connected
        BY <3>2 DEF HandleOK, OfStmt
      <4>2. InFlight(t) => call[t].c # call[u].c
        BY <2>1, <3>1 DEF IInv, Exclusive, ReleaseOps
      <4> QED BY <1>2, <3>2, <4>1, <4>2
    <3> QED BY <1>2, <1>3, <3>1, <3>2, <3>3, <3>4 DEF HandleOK, SameMapping, Forgotten
  <2>2. ASSUME InFlight(t)' PROVE HandleOK(t)'
    <3>1. /\ call'[t].at # "idle" /\ InFlight(t) /\ HandleOK(t)
          /\ call'[t].op = call[t].op /\ call'[t].h = call[t].h
          /\ call'[t].c = call[t].c /\ call'[t].m = call[t].m
      BY <2>2 DEF InFlight, IInv, Handles
    <3>2. ~Forgotten(t) /\ ~Forgotten(t)'
      BY <3>1 DEF Forgotten
    <3>3. ~Reserved(call[t].h)'
      BY <3>1 DEF Reserved, Others, HandleOK
    <3> QED BY <1>2, <1>3, <3>1, <3>2, <3>3, SlotTypes DEF HandleOK
  <2> QED BY <2>1, <2>2 DEF Handles
<1>10. NewHandles'
  <2>1. ASSUME NEW u \in Threads, call'[u].at = "table", call'[u].op \in AllocOps PROVE NewOK(u)'
    <3>1. call'[u] = call[u]
      BY <2>1 DEF Others
    <3>2. NewOK(u)
      BY <2>1, <3>1 DEF IInv, NewHandles
    <3> QED BY ZenonT(60), <1>2, <1>3, <3>1, <3>2, SlotTypes DEF NewOK
  <2> QED BY <2>1 DEF NewHandles
<1>11. Exclusive'
  BY DEF IInv, Exclusive, InFlight, Others
<1>12. Released'
  <2>1. ASSUME NEW u \in Threads, InFlight(u)'
        PROVE  /\ InFlight(u)
               /\ call'[u].op = call[u].op /\ call'[u].h = call[u].h /\ call'[u].c = call[u].c
               /\ u = t => back = {}
    BY <2>1 DEF InFlight, Others
  <2>2. ASSUME NEW u \in Threads, InFlight(u)', call'[u].op \in ReleaseOps, NEW x \in known'
        PROVE  db2'[x].parent # call'[u].c
    <3>1. CASE x \in known
      <4>1. x \in Slots
        BY <3>1 DEF IInv, TypeOK
      <4> QED BY <1>2, <2>1, <2>2, <3>1, <4>1 DEF IInv, Released
    <3>2. CASE x \in back
      <4>1. u # t /\ InFlight(t) /\ x \in Slots
        BY <2>1, <2>2, <3>2, SlotTypes DEF InFlight, ReleaseOps
      <4> QED BY <1>2, <2>1, <2>2, <3>2, <4>1 DEF IInv, Exclusive
    <3> QED BY <3>1, <3>2
  <2>3. ASSUME NEW u \in Threads, InFlight(u)', call'[u].op = "FreeStmtDrop"
        PROVE  call'[u].h \notin known'
    <3>1. call[u].h \notin known
      BY <2>1, <2>3 DEF IInv, Released
    <3>2. ASSUME call[u].h \in back PROVE FALSE
      <4>1. u # t /\ InFlight(t) /\ InFlight(u)
        BY <2>1, <2>3, <3>2 DEF InFlight, ReleaseOps
      <4>2. HandleOK(u) /\ db2[call[u].h].parent = call[u].c
        <5>1. HandleOK(u) /\ Db2Alive(db2, call[u].h)
          BY <3>2, <4>1 DEF IInv, Handles
        <5> QED BY <5>1 DEF HandleOK
      <4>3. db2[call[u].h].parent = call[t].c /\ call[t].op \in ReleaseOps
        BY <3>2
      <4> QED BY <4>1, <4>2, <4>3 DEF IInv, Exclusive
    <3> QED BY <2>1, <2>3, <3>1, <3>2
  <2> QED BY <2>2, <2>3 DEF Released
<1> QED BY <1>4, <1>5, <1>6, <1>7, <1>8, <1>9, <1>10, <1>11, <1>12 DEF IInv

-----------------------------------------------------------------------------
(* DB2 disconnects a connection, with its statements                         *)

\* A step that hands no handle back.
LEMMA QuietMoveKeeps ==
  ASSUME IInv, TypeOK', Mutexes', SameMapping(table, table'), glock' = glock,
         NEW t \in Threads, Others(t), call[t].at \notin {"idle", "table"},
         \/ call'[t].at = "idle"
         \/ /\ call'[t].op = call[t].op /\ call'[t].h = call[t].h
            /\ call'[t].c = call[t].c /\ call'[t].m = call[t].m
            /\ \/ call'[t].at \in {"want", "db2"} /\ call[t].op \in LockOps
               \/ call'[t].at = "glock" /\ call[t].op = "FreeConnect",
         \/ db2' = db2
         \/ call'[t].at = "idle" /\ InFlight(t) /\ db2' = Db2Connect(db2, call[t].c),
         known' = known
  PROVE  IInv'
<1> DEFINE back == {}
<1>1. known' = known \cup back
  OBVIOUS
<1>2. \A x \in back : /\ call[t].op \in ReleaseOps /\ call'[t].at = "idle"
                      /\ x \in HandleNums
                      /\ Db2Alive(db2, x) /\ db2[x].parent = call[t].c
  OBVIOUS
<1> HIDE DEF back
<1> QED BY <1>1, <1>2, MoveKeeps

LEMMA Db2DisconnectFacts ==
  ASSUME NEW d \in [Slots -> Db2Handle], NEW c \in Slots, d[c].kind = "dbc"
  PROVE  \A x \in Slots :
           /\ d[x].kind = "stmt" /\ d[x].parent = c => Db2Disconnect(d, c)[x] = Db2Free
           /\ x # c /\ ~(d[x].kind = "stmt" /\ d[x].parent = c)
              => Db2Disconnect(d, c)[x] = d[x]
           /\ x = c => /\ Db2Disconnect(d, c)[x].kind = "dbc"
                       /\ Db2Disconnect(d, c)[x].parent = d[x].parent
BY DEF Db2Disconnect, Db2Stmts, Db2Handle

LEMMA DisconnectKeeps ==
  ASSUME IInv, TypeOK', NEW t \in Threads,
         call[t].at = "db2", call[t].op = "Disconnect",
         db2' = Db2Disconnect(db2, call[t].h), Return(t, {call[t].h}),
         TableUnlock(t), glock' = glock
  PROVE  IInv'
<1> DEFINE c == call[t].c
<1>1. Others(t) /\ call'[t].at = "idle" /\ known' = known \cup {call[t].h}
  BY ReturnFacts DEF IInv
<1>2. /\ InFlight(t) /\ ~Forgotten(t) /\ HandleOK(t) /\ call[t].h = c
      /\ c \in HandleNums /\ c \in Slots /\ Db2Alive(db2, c) /\ db2[c].parent = c
      /\ ~Reserved(c)
  BY LockFacts, SlotTypes DEF HandleOK, OfStmt
<1>3. db2[c].kind = "dbc"
  BY <1>2 DEF IInv, TypeOK, Db2Tree, Db2Alive, Db2Handle
<1>4. \A x \in Slots :
        /\ db2[x].kind = "stmt" /\ db2[x].parent = c => db2'[x] = Db2Free
        /\ x # c /\ ~(db2[x].kind = "stmt" /\ db2[x].parent = c) => db2'[x] = db2[x]
        /\ x = c => db2'[x].kind = "dbc" /\ db2'[x].parent = c
  BY <1>2, <1>3, Db2DisconnectFacts DEF IInv, TypeOK
<1>5. Mutexes' /\ SameMapping(table, table')
  BY <1>1, UnlockKeeps
<1>6. \A o : Reserved(o)' <=> Reserved(o)
  BY <1>1 DEF Reserved, Others
<1>7. \A x \in Slots : Db2Alive(db2, x)' =>
        /\ Db2Alive(db2, x) /\ db2'[x].kind = db2[x].kind /\ db2'[x].parent = db2[x].parent
        /\ db2[x].kind = "stmt" => db2[x].parent # c
        /\ x # c => db2'[x] = db2[x]
  BY <1>2, <1>3, <1>4 DEF Db2Alive, Db2Free
<1>8. Phases' /\ GlobalLock'
  BY <1>1 DEF IInv, Phases, GlobalLock, Others
<1>9. Db2Tree'
  <2>1. ASSUME NEW h \in HandleNums, Db2Alive(db2, h)'
        PROVE  /\ db2'[h].parent \in HandleNums
               /\ db2'[h].kind = "dbc" => db2'[h].parent = h
               /\ db2'[h].kind = "stmt" => /\ db2'[h].parent # h
                                           /\ db2'[db2'[h].parent].kind = "dbc"
                                           /\ db2'[db2'[h].parent].connected
    <3>1. /\ Db2Alive(db2, h) /\ db2'[h].kind = db2[h].kind /\ db2'[h].parent = db2[h].parent
          /\ db2[h].kind = "stmt" => db2[h].parent # c
      BY <1>7, <2>1, SlotTypes
    <3>2. db2[h].parent \in HandleNums /\ db2[h].parent \in Slots
      BY <3>1, SlotTypes DEF IInv, Db2Tree
    <3>3. db2[h].kind = "stmt" => db2'[db2[h].parent] = db2[db2[h].parent]
      BY <1>4, <3>1, <3>2 DEF IInv, Db2Tree
    <3> QED BY <3>1, <3>2, <3>3 DEF IInv, Db2Tree
  <2> QED BY <2>1 DEF Db2Tree
<1>10. AllFiled'
  <2>1. ASSUME NEW h \in HandleNums, Db2Alive(db2, h)', ~Reserved(h)' PROVE Filed(h)'
    <3>1. Db2Alive(db2, h) /\ db2'[h].parent = db2[h].parent /\ h \in Slots
      BY <1>7, <2>1, SlotTypes
    <3>2. Filed(h) /\ db2[h].parent \in Slots
      BY <1>6, <2>1, <3>1, SlotTypes DEF IInv, AllFiled, Db2Tree
    <3> QED BY <1>5, <3>1, <3>2 DEF Filed, SameMapping
  <2>2. \A i \in Slots : table'[i].hstmt # 0 => table'[i].thread_init
    BY <1>5 DEF SameMapping, IInv, AllFiled
  <2> QED BY <2>1, <2>2 DEF AllFiled
<1>11. \A x \in known : x \in Slots /\ x # c /\ db2'[x] = db2[x]
  <2>1. \A x \in known : x \in Slots /\ x \in HandleNums /\ Db2Alive(db2, x) /\ db2[x].parent # c
    BY <1>2, SlotTypes DEF IInv, KnownAlive, Released, ReleaseOps
  <2> QED BY <1>2, <1>4, <2>1
<1>12. KnownAlive'
  <2>1. ASSUME NEW x \in known' PROVE x \in HandleNums /\ Db2Alive(db2, x)' /\ ~Reserved(x)'
    <3>1. CASE x \in known
      BY <1>6, <1>11, <3>1 DEF IInv, KnownAlive, Db2Alive
    <3>2. CASE x = c
      BY <1>2, <1>4, <1>6, <3>2 DEF Db2Alive
    <3> QED BY <1>1, <1>2, <3>1, <3>2
  <2> QED BY <2>1 DEF KnownAlive
<1>13. ASSUME NEW u \in Threads \ {t}, InFlight(u)
       PROVE  /\ call'[u] = call[u] /\ HandleOK(u) /\ call[u].c # c /\ call[u].h \in Slots
              /\ db2'[call[u].h] = db2[call[u].h]
  <2>1. call'[u] = call[u] /\ HandleOK(u) /\ call[u].c # c /\ call[u].h \in Slots
    BY <1>1, <1>2, <1>13, SlotTypes DEF Others, IInv, Handles, HandleOK, Exclusive, ReleaseOps
  <2>2. CASE ~Forgotten(u)
    BY <1>2, <1>4, <2>1, <2>2 DEF HandleOK
  <2>3. CASE Forgotten(u)
    BY <1>2, <1>4, <2>1, <2>3 DEF HandleOK, Db2Alive
  <2> QED BY <2>1, <2>2, <2>3
<1>14. Handles'
  <2>1. ASSUME NEW u \in Threads, InFlight(u)' PROVE HandleOK(u)'
    <3>1. u # t /\ InFlight(u)
      BY <1>1, <2>1 DEF InFlight, Others
    <3>2. ~Reserved(call[u].h)'
      BY <1>1, <1>13, <3>1 DEF Reserved, Others, HandleOK
    <3> QED BY <1>5, <1>13, <3>1, <3>2, HandleFrame DEF SameMapping
  <2> QED BY <2>1 DEF Handles
<1>15. NewHandles'
  <2>1. ASSUME NEW u \in Threads, call'[u].at = "table", call'[u].op \in AllocOps PROVE NewOK(u)'
    <3>1. call'[u] = call[u] /\ NewOK(u) /\ u # t
      BY <1>1, <2>1 DEF Others, IInv, NewHandles
    <3>2. call[u].o # c /\ call[u].o \in Slots
      BY <1>2, <2>1, <3>1, SlotTypes DEF Reserved, NewOK
    <3>3. db2[call[u].o].parent # c
      <4>1. CASE call[u].op = "AllocConnect"
        BY <3>1, <3>2, <4>1 DEF NewOK
      <4>2. CASE call[u].op = "AllocStmt"
        <5>1. InFlight(u) /\ call[u].c # c
          BY <1>13, <2>1, <3>1, <4>2 DEF InFlight
        <5>2. call[u].h = call[u].c
          BY <1>13, <3>1, <4>2, <5>1 DEF HandleOK, OfStmt
        <5> QED BY <3>1, <4>2, <5>1, <5>2 DEF NewOK
      <4> QED BY <2>1, <3>1, <4>1, <4>2 DEF AllocOps
    <3> QED BY <1>4, <3>1, <3>2, <3>3, NewFrame
  <2> QED BY <2>1 DEF NewHandles
<1>16. Exclusive'
  BY <1>1 DEF IInv, Exclusive, InFlight, Others
<1>17. Released'
  <2>1. ASSUME NEW u \in Threads, InFlight(u)'
        PROVE  /\ call'[u].op \in ReleaseOps => \A x \in known' : db2'[x].parent # call'[u].c
               /\ call'[u].op = "FreeStmtDrop" => call'[u].h \notin known'
    <3>1. u # t /\ InFlight(u) /\ call'[u] = call[u] /\ call[u].c # c
      BY <1>1, <1>13, <2>1 DEF InFlight, Others
    <3>2. call[u].op = "FreeStmtDrop" => call[u].h # c
      BY <1>2, <3>1 DEF IInv, Exclusive
    <3>3. call[u].op \in ReleaseOps => \A x \in known : db2'[x].parent # call[u].c
      BY <1>11, <3>1 DEF IInv, Released
    <3>4. call[u].op = "FreeStmtDrop" => call[u].h \notin known
      BY <3>1 DEF IInv, Released
    <3> QED BY <1>1, <1>2, <1>4, <3>1, <3>2, <3>3, <3>4
  <2> QED BY <2>1 DEF Released
<1> QED BY <1>5, <1>8, <1>9, <1>10, <1>12, <1>14, <1>15, <1>16, <1>17 DEF IInv

-----------------------------------------------------------------------------
(* Allocation                                                                *)

LEMMA NobodyAtTable ==
  ASSUME IInv
  PROVE  /\ glock = NoThread => \A u \in Threads : call[u].at # "table"
         /\ \A t, u \in Threads : call[t].at = "table" /\ u # t => call[u].at # "table"
BY TableAssumption DEF IInv, GlobalLock

LEMMA AllocDb2Keeps ==
  ASSUME IInv, TypeOK', NEW t \in Threads, NEW o \in HandleNums,
         call[t].at = "glock", ~Db2Alive(db2, o), glock = NoThread, glock' = t,
         \/ call[t].op = "AllocConnect" /\ db2' = Db2NewDbc(db2, o)
         \/ /\ call[t].op = "AllocStmt" /\ db2[call[t].h].connected
            /\ db2' = Db2NewStmt(db2, o, call[t].h),
         call' = [call EXCEPT ![t] = WithNew(call[t], o)],
         UNCHANGED <<table, mutex, known>>
  PROVE  IInv'
<1> DEFINE h == call[t].h
           parent == IF call[t].op = "AllocConnect" THEN o ELSE h
<1>1. /\ Others(t) /\ call'[t].at = "table" /\ call'[t].op = call[t].op
      /\ call'[t].h = h /\ call'[t].c = call[t].c /\ call'[t].m = call[t].m
      /\ call'[t].o = o
  BY WithNewFacts DEF IInv
<1>2. call[t].op \in AllocOps /\ o \in Slots
  BY SlotTypes DEF AllocOps
<1>3. \A u \in Threads : call[u].at # "table"
  BY NobodyAtTable
<1>4. \A x : ~Reserved(x) /\ (Reserved(x)' <=> x = o)
  BY <1>1, <1>2, <1>3 DEF Reserved, Others
<1>5. /\ db2'[o].kind = IF call[t].op = "AllocConnect" THEN "dbc" ELSE "stmt"
      /\ db2'[o].parent = parent
      /\ \A x \in Slots : x # o => db2'[x] = db2[x]
  BY <1>2 DEF Db2NewDbc, Db2NewStmt, IInv, TypeOK
<1>6. Db2Alive(db2, o)' /\ \A x \in Slots : x # o => (Db2Alive(db2, x)' <=> Db2Alive(db2, x))
  BY <1>5 DEF Db2Alive
<1>7. call[t].op = "AllocStmt" =>
        /\ h \in HandleNums /\ h \in Slots /\ h # o /\ db2[h].kind = "dbc" /\ db2[h].connected
        /\ InFlight(t) /\ HandleOK(t) /\ h = call[t].c
  <2> SUFFICES ASSUME call[t].op = "AllocStmt"
               PROVE  /\ h \in HandleNums /\ h \in Slots /\ h # o
                      /\ db2[h].kind = "dbc" /\ db2[h].connected
                      /\ InFlight(t) /\ HandleOK(t) /\ h = call[t].c
    OBVIOUS
  <2>1. InFlight(t) /\ HandleOK(t) /\ ~Forgotten(t) /\ h = call[t].c
    BY DEF InFlight, Forgotten, IInv, Handles, HandleOK, OfStmt
  <2>2. h \in HandleNums /\ h \in Slots /\ Db2Alive(db2, h) /\ db2[h].parent = h
    BY <2>1, SlotTypes DEF HandleOK
  <2>3. db2[h].kind = "dbc"
    BY <2>2 DEF IInv, TypeOK, Db2Tree, Db2Alive, Db2Handle
  <2> QED BY <2>1, <2>2, <2>3
<1>8. Phases' /\ GlobalLock' /\ Mutexes'
  BY <1>1, <1>2, <1>3 DEF IInv, Phases, GlobalLock, Mutexes, Others, AllocOps
<1>9. Db2Tree'
  <2>1. ASSUME NEW x \in HandleNums, Db2Alive(db2, x)'
        PROVE  /\ db2'[x].parent \in HandleNums
               /\ db2'[x].kind = "dbc" => db2'[x].parent = x
               /\ db2'[x].kind = "stmt" => /\ db2'[x].parent # x
                                           /\ db2'[db2'[x].parent].kind = "dbc"
                                           /\ db2'[db2'[x].parent].connected
    <3>1. CASE x = o
      BY <1>2, <1>5, <1>7, <3>1 DEF AllocOps
    <3>2. CASE x # o
      <4>1. Db2Alive(db2, x) /\ db2'[x] = db2[x] /\ db2[x].parent \in HandleNums
        BY <1>5, <1>6, <2>1, <3>2, SlotTypes DEF IInv, Db2Tree
      <4>2. db2[x].kind = "stmt" => db2[db2[x].parent].kind = "dbc"
        BY <4>1 DEF IInv, Db2Tree
      <4>3. db2[x].kind = "stmt" => db2[x].parent # o
        BY <4>2 DEF Db2Alive
      <4>4. db2[x].kind = "stmt" => db2'[db2[x].parent] = db2[db2[x].parent]
        BY <1>5, <4>1, <4>3, SlotTypes
      <4> QED BY <4>1, <4>4 DEF IInv, Db2Tree
    <3> QED BY <3>1, <3>2
  <2> QED BY <2>1 DEF Db2Tree
<1>10. AllFiled'
  <2>1. ASSUME NEW x \in HandleNums, Db2Alive(db2, x)', ~Reserved(x)' PROVE Filed(x)'
    <3>1. x # o /\ db2'[x] = db2[x] /\ Db2Alive(db2, x)
      BY <1>4, <1>5, <1>6, <2>1, SlotTypes
    <3> QED BY <1>4, <3>1 DEF IInv, AllFiled, Filed
  <2> QED BY <2>1 DEF IInv, AllFiled
<1>11. \A x \in known : x # o /\ x \in Slots /\ db2'[x] = db2[x]
  BY <1>5, SlotTypes DEF IInv, KnownAlive
<1>12. KnownAlive'
  BY <1>4, <1>6, <1>11 DEF IInv, KnownAlive
<1>13. ASSUME NEW u \in Threads, InFlight(u)
       PROVE  /\ HandleOK(u) /\ ~Forgotten(u) /\ call[u].h # o /\ call[u].h \in Slots
              /\ db2'[call[u].h] = db2[call[u].h]
  <2>1. HandleOK(u) /\ ~Forgotten(u)
    BY <1>3, <1>13 DEF IInv, Handles, Forgotten
  <2>2. call[u].h # o /\ call[u].h \in Slots
    BY <2>1, SlotTypes DEF HandleOK
  <2> QED BY <1>5, <2>1, <2>2
<1>14. Handles'
  <2>1. ASSUME NEW u \in Threads, InFlight(u)', u # t PROVE HandleOK(u)'
    <3>1. call'[u] = call[u] /\ InFlight(u)
      BY <1>1, <2>1 DEF InFlight, Others
    <3>2. ~Reserved(call[u].h)'
      BY <1>4, <1>13, <3>1
    <3> QED BY <1>13, <3>1, <3>2, HandleFrame
  <2>2. ASSUME InFlight(t)' PROVE HandleOK(t)'
    <3>1. call[t].op = "AllocStmt" /\ InFlight(t) /\ ~Forgotten(t)' /\ ~Forgotten(t)
      BY <1>1, <1>2, <1>3, <2>2 DEF InFlight, Forgotten, AllocOps
    <3>2. ~Reserved(call[t].h)'
      BY <1>1, <1>4, <1>7, <3>1
    <3>3. Db2Alive(db2, call[t].h)'
      BY <1>1, <1>6, <1>7, <1>13, <3>1 DEF HandleOK
    <3> QED BY <1>1, <1>7, <1>13, <3>1, <3>2, <3>3 DEF HandleOK, OfStmt
  <2> QED BY <2>1, <2>2 DEF Handles
<1>15. NewHandles'
  <2>1. \A u \in Threads : u # t => call'[u].at # "table"
    BY <1>1, <1>3 DEF Others
  <2>2. NewOK(t)'
    BY <1>1, <1>5, <1>6 DEF NewOK
  <2> QED BY <2>1, <2>2 DEF NewHandles
<1>16. Exclusive'
  BY <1>1 DEF IInv, Exclusive, InFlight, Others
<1>17. Released'
  <2>1. \A u \in Threads : InFlight(u)' => InFlight(u) /\ call'[u].op = call[u].op
                              /\ call'[u].h = call[u].h /\ call'[u].c = call[u].c
    BY <1>1 DEF InFlight, Others
  <2> QED BY <1>11, <2>1 DEF IInv, Released
<1> QED BY <1>8, <1>9, <1>10, <1>12, <1>14, <1>15, <1>16, <1>17 DEF IInv

LEMMA AllocTableKeeps ==
  ASSUME IInv, TypeOK', NEW t \in Threads, AllocInTable(t)
  PROVE  IInv'
<1> DEFINE o == call[t].o
           parent == IF call[t].op = "AllocConnect" THEN o ELSE call[t].h
<1>1. /\ Others(t) /\ call[t].at = "table" /\ call'[t].at = "idle"
      /\ known' = known \cup {o} /\ glock' = NoThread /\ UNCHANGED <<mutex, db2>>
      /\ call[t].op \in AllocOps
  BY ReturnFacts DEF AllocInTable, IInv, AllocOps
<1>2. \A u \in Threads : u # t => call[u].at # "table"
  BY <1>1, NobodyAtTable
<1>3. \A x : (Reserved(x) <=> x = o) /\ ~Reserved(x)'
  BY <1>1, <1>2 DEF Reserved, Others
<1>4. o \in HandleNums /\ o \in Slots /\ Db2Alive(db2, o) /\ db2[o].parent = parent
  BY <1>1, SlotTypes DEF IInv, NewHandles, NewOK
<1>5. parent \in HandleNums /\ parent \in Slots
  BY <1>4, SlotTypes DEF IInv, Db2Tree
<1>6. /\ table'[o].hstmt = o /\ table'[o].hdbc = parent /\ table'[o].thread_init
      /\ \A i \in Slots : i # o => table'[i] = table[i]
  BY <1>1, <1>4, <1>5, CtorFacts DEF AllocInTable, IInv, TypeOK, AllFiled
<1>7. call[t].op = "AllocStmt" =>
        /\ InFlight(t) /\ HandleOK(t) /\ call[t].h = call[t].c /\ call[t].h # o
        /\ table[call[t].h].thread_init
  <2> SUFFICES ASSUME call[t].op = "AllocStmt"
               PROVE  /\ InFlight(t) /\ HandleOK(t) /\ call[t].h = call[t].c /\ call[t].h # o
                      /\ table[call[t].h].thread_init
    OBVIOUS
  <2>1. InFlight(t) /\ HandleOK(t) /\ ~Forgotten(t) /\ call[t].h = call[t].c
    BY <1>1 DEF InFlight, Forgotten, IInv, Handles, HandleOK, OfStmt
  <2>2. Filed(call[t].h) /\ db2[call[t].h].parent = call[t].h
    BY <2>1 DEF HandleOK, IInv, AllFiled
  <2> QED BY <1>3, <2>1, <2>2 DEF Filed, HandleOK
<1>8. Phases' /\ GlobalLock' /\ Mutexes'
  BY <1>1, <1>2, TableAssumption DEF IInv, Phases, GlobalLock, Mutexes, Others
<1>9. Db2Tree'
  BY <1>1 DEF IInv, Db2Tree
<1>10. AllFiled'
  <2>1. /\ table'[o].hstmt = o /\ table'[o].hdbc = db2'[o].parent
        /\ table'[db2'[o].parent].thread_init
    <3>1. table'[parent].thread_init
      BY <1>1, <1>5, <1>6, <1>7 DEF AllocOps
    <3> QED BY <1>1, <1>4, <1>6, <3>1
  <2>2. ASSUME NEW x \in HandleNums, Db2Alive(db2, x), x # o PROVE Filed(x)'
    <3>1. Filed(x) /\ x \in Slots /\ db2[x].parent \in Slots
      BY <1>3, <2>2, SlotTypes DEF IInv, AllFiled, Db2Tree
    <3>2. table'[db2[x].parent].thread_init
      BY <1>6, <3>1 DEF Filed
    <3> QED BY <1>1, <1>6, <2>2, <3>1, <3>2 DEF Filed
  <2>3. \A i \in Slots : table'[i].hstmt # 0 => table'[i].thread_init
    BY <1>6 DEF IInv, AllFiled
  <2>4. ASSUME NEW x \in HandleNums, Db2Alive(db2, x)' PROVE Filed(x)'
    <3>1. CASE x = o
      BY <2>1, <3>1 DEF Filed
    <3>2. CASE x # o
      BY <1>1, <2>2, <2>4, <3>2 DEF Db2Alive
    <3> QED BY <3>1, <3>2
  <2> QED BY <2>3, <2>4 DEF AllFiled
<1>11. KnownAlive'
  BY <1>1, <1>3, <1>4 DEF IInv, KnownAlive
<1>12. ASSUME NEW u \in Threads, InFlight(u)'
       PROVE  /\ u # t /\ InFlight(u) /\ call'[u] = call[u] /\ HandleOK(u) /\ call[u].h # o
              /\ ~Forgotten(u)
  <2>1. u # t /\ InFlight(u) /\ call'[u] = call[u]
    BY <1>1, <1>12 DEF InFlight, Others
  <2> QED BY <1>2, <1>3, <2>1 DEF IInv, Handles, HandleOK, Forgotten
<1>13. Handles'
  <2>1. ASSUME NEW u \in Threads, InFlight(u)' PROVE HandleOK(u)'
    <3>1. ~Reserved(call[u].h)'
      BY <1>3
    <3> QED BY <1>1, <1>12, <2>1, <3>1, HandleFrame
  <2> QED BY <2>1 DEF Handles
<1>14. NewHandles'
  BY <1>1, <1>2 DEF NewHandles, Others
<1>15. Exclusive'
  BY <1>1, <1>12 DEF IInv, Exclusive
<1>16. Released'
  <2>1. ASSUME NEW u \in Threads, InFlight(u)'
        PROVE  /\ call'[u].op \in ReleaseOps => \A x \in known' : db2'[x].parent # call'[u].c
               /\ call'[u].op = "FreeStmtDrop" => call'[u].h \notin known'
    <3>1. call[u].op \in ReleaseOps => db2[o].parent # call[u].c
      <4>1. CASE call[t].op = "AllocConnect"
        BY <1>4, <1>12, <2>1, <4>1 DEF HandleOK, OfStmt, ReleaseOps
      <4>2. CASE call[t].op = "AllocStmt"
        BY <1>4, <1>7, <1>12, <2>1, <4>2 DEF IInv, Exclusive
      <4> QED BY <1>1, <4>1, <4>2 DEF AllocOps
    <3> QED BY <1>1, <1>12, <2>1, <3>1 DEF IInv, Released
  <2> QED BY <2>1 DEF Released
<1> QED BY <1>8, <1>9, <1>10, <1>11, <1>13, <1>14, <1>15, <1>16 DEF IInv

-----------------------------------------------------------------------------
(* Release                                                                   *)

\* The handle a thread is about to release: DB2 will not refuse, nothing hangs
\* on it and nobody else uses it.
LEMMA ReleaseFacts ==
  ASSUME IInv, NEW t \in Threads, call[t].at = "glock",
         call[t].op \in {"FreeStmtDrop", "FreeConnect"}, glock = NoThread
  PROVE  /\ InFlight(t) /\ HandleOK(t) /\ ~Forgotten(t)
         /\ call[t].h \in HandleNums /\ call[t].h \in Slots
         /\ call[t].h \notin known
         /\ call[t].op = "FreeStmtDrop" => db2[call[t].h].kind = "stmt"
         /\ call[t].op = "FreeConnect" => /\ db2[call[t].h].kind = "dbc"
                                          /\ ~db2[call[t].h].connected
         /\ \A x \in HandleNums : db2[x].kind = "stmt" => db2[x].parent # call[t].h
         /\ \A u \in Threads \ {t} : InFlight(u) => call[u].h # call[t].h
<1> DEFINE h == call[t].h
<1>1. InFlight(t) /\ HandleOK(t) /\ ~Forgotten(t)
  BY DEF InFlight, Forgotten, IInv, Handles
<1>2. /\ h \in HandleNums /\ h \in Slots /\ Db2Alive(db2, h) /\ db2[h].parent = call[t].c
      /\ call[t].op = "FreeStmtDrop" <=> h # call[t].c
  BY <1>1, SlotTypes DEF HandleOK, OfStmt
<1>3. db2[h].kind \in {"dbc", "stmt"}
  BY <1>2 DEF IInv, TypeOK, Db2Alive, Db2Handle
<1>4. /\ call[t].op = "FreeStmtDrop" => db2[h].kind = "stmt"
      /\ call[t].op = "FreeConnect" => db2[h].kind = "dbc" /\ ~db2[h].connected
  BY <1>1, <1>2, <1>3 DEF IInv, Db2Tree, HandleOK
<1>5. h \notin known
  BY <1>1, <1>2 DEF IInv, Released, ReleaseOps
<1>6. ASSUME NEW x \in HandleNums, db2[x].kind = "stmt" PROVE db2[x].parent # h
  BY <1>4, <1>6 DEF IInv, Db2Tree, Db2Alive
<1>7. ASSUME NEW u \in Threads \ {t}, InFlight(u) PROVE call[u].h # h
  <2>1. CASE call[t].op = "FreeStmtDrop"
    BY <1>1, <1>7, <2>1 DEF IInv, Exclusive
  <2>2. CASE call[t].op = "FreeConnect"
    <3>1. HandleOK(u) /\ ~Forgotten(u) /\ call[u].c # call[t].c
      BY <1>1, <1>7, <2>2, NobodyAtTable
         DEF IInv, Handles, Forgotten, Exclusive, ReleaseOps
    <3> QED BY <1>2, <2>2, <3>1 DEF HandleOK
  <2> QED BY <2>1, <2>2
<1> QED BY <1>1, <1>2, <1>4, <1>5, <1>6, <1>7

LEMMA FreeDb2Keeps ==
  ASSUME IInv, TypeOK', NEW t \in Threads, FreeInDb2(t)
  PROVE  IInv'
<1>0. PICK h : h = call[t].h
  OBVIOUS
<1>1. /\ Others(t) /\ call'[t].at = "table" /\ call'[t].op = call[t].op
      /\ call'[t].h = h /\ call'[t].c = call[t].c /\ call'[t].m = call[t].m
      /\ call[t].at = "glock" /\ glock = NoThread /\ glock' = t
      /\ UNCHANGED <<table, mutex, known>>
  BY <1>0, GotoFacts DEF FreeInDb2, IInv
<1>2. call[t].op \in {"FreeStmtDrop", "FreeConnect"}
  BY <1>1 DEF FreeInDb2, IInv, Phases, AllocOps
<1>3. /\ InFlight(t) /\ HandleOK(t) /\ ~Forgotten(t)
      /\ h \in HandleNums /\ h \in Slots /\ h \notin known
      /\ call[t].op = "FreeStmtDrop" => db2[h].kind = "stmt"
      /\ call[t].op = "FreeConnect" => db2[h].kind = "dbc" /\ ~db2[h].connected
      /\ \A x \in HandleNums : db2[x].kind = "stmt" => db2[x].parent # h
      /\ \A u \in Threads \ {t} : InFlight(u) => call[u].h # h
  BY <1>0, <1>1, <1>2, ReleaseFacts
<1>4. db2' = [db2 EXCEPT ![h] = Db2Free]
  BY <1>0, <1>2, <1>3 DEF FreeInDb2, Db2FreeStmt, Db2FreeDbc
<1>5. db2'[h] = Db2Free /\ \A x \in Slots : x # h => db2'[x] = db2[x]
  BY <1>3, <1>4 DEF IInv, TypeOK
<1>6. \A x \in Slots : Db2Alive(db2, x)' => x # h /\ Db2Alive(db2, x)
  BY <1>5 DEF Db2Alive, Db2Free
<1>7. \A u \in Threads : call[u].at # "table"
  BY <1>1, NobodyAtTable
<1>8. \A x : ~Reserved(x) /\ ~Reserved(x)'
  BY <1>1, <1>2, <1>7 DEF Reserved, Others, AllocOps
<1>9. Phases' /\ GlobalLock' /\ Mutexes'
  BY <1>1, <1>2, <1>7 DEF IInv, Phases, GlobalLock, Mutexes, Others
<1>10. Db2Tree'
  <2>1. ASSUME NEW x \in HandleNums, Db2Alive(db2, x)'
        PROVE  /\ db2'[x].parent \in HandleNums
               /\ db2'[x].kind = "dbc" => db2'[x].parent = x
               /\ db2'[x].kind = "stmt" => /\ db2'[x].parent # x
                                           /\ db2'[db2'[x].parent].kind = "dbc"
                                           /\ db2'[db2'[x].parent].connected
    <3>1. /\ Db2Alive(db2, x) /\ db2'[x] = db2[x] /\ db2[x].parent \in HandleNums
          /\ db2[x].parent \in Slots
      BY <1>5, <1>6, <2>1, SlotTypes DEF IInv, Db2Tree
    <3>2. db2[x].kind = "stmt" => db2'[db2[x].parent] = db2[db2[x].parent]
      BY <1>3, <1>5, <3>1
    <3> QED BY <3>1, <3>2 DEF IInv, Db2Tree
  <2> QED BY <2>1 DEF Db2Tree
<1>11. AllFiled'
  <2>1. ASSUME NEW x \in HandleNums, Db2Alive(db2, x)' PROVE Filed(x)'
    <3>1. Db2Alive(db2, x) /\ db2'[x] = db2[x]
      BY <1>5, <1>6, <2>1, SlotTypes
    <3> QED BY <1>1, <1>8, <3>1 DEF IInv, AllFiled, Filed
  <2> QED BY <1>1, <2>1 DEF IInv, AllFiled
<1>12. \A x \in known : x # h /\ x \in Slots /\ db2'[x] = db2[x]
  BY <1>3, <1>5, SlotTypes DEF IInv, KnownAlive
<1>13. KnownAlive'
  BY <1>1, <1>8, <1>12 DEF IInv, KnownAlive, Db2Alive
<1>14. Handles'
  <2>1. ASSUME NEW u \in Threads, InFlight(u)', u # t PROVE HandleOK(u)'
    <3>1. call'[u] = call[u] /\ InFlight(u) /\ HandleOK(u) /\ ~Forgotten(u)
      BY <1>1, <1>7, <2>1 DEF InFlight, Others, IInv, Handles, Forgotten
    <3>2. db2'[call[u].h] = db2[call[u].h]
      BY <1>3, <1>5, <2>1, <3>1, SlotTypes DEF HandleOK
    <3>3. ~Reserved(call[u].h)'
      BY <1>8
    <3> QED BY <3>1, <3>2, <3>3, HandleFrame
  <2>2. HandleOK(t)'
    <3>1. Forgotten(t)'
      BY <1>1, <1>2 DEF Forgotten
    <3>2. ~Db2Alive(db2, call[t].h)' /\ ~db2'[h].connected
      BY <1>1, <1>5 DEF Db2Alive, Db2Free
    <3>3. Db2Alive(db2, h) /\ db2[h].parent = call[t].c
      BY <1>0, <1>3 DEF HandleOK
    <3>4. Filed(h)
      BY <1>3, <1>8, <3>3 DEF IInv, AllFiled
    <3>5. ~Reserved(call[t].h)'
      BY <1>8
    <3> QED BY <1>0, <1>1, <1>3, <3>1, <3>2, <3>3, <3>4, <3>5 DEF HandleOK, Filed
  <2> QED BY <2>1, <2>2 DEF Handles
<1>15. NewHandles'
  BY <1>1, <1>2, <1>7 DEF NewHandles, Others, AllocOps
<1>16. \A u \in Threads : InFlight(u)' => InFlight(u) /\ call'[u].op = call[u].op
                              /\ call'[u].h = call[u].h /\ call'[u].c = call[u].c
  BY <1>0, <1>1 DEF InFlight, Others
<1>17. Exclusive'
  BY <1>16 DEF IInv, Exclusive
<1>18. Released'
  BY <1>1, <1>12, <1>16 DEF IInv, Released
<1> QED BY <1>9, <1>10, <1>11, <1>13, <1>14, <1>15, <1>17, <1>18 DEF IInv

LEMMA FreeTableKeeps ==
  ASSUME IInv, TypeOK', NEW t \in Threads, FreeInTable(t)
  PROVE  IInv'
<1>0. PICK h : h = call[t].h
  OBVIOUS
<1>1. /\ Others(t) /\ call[t].at = "table" /\ call'[t].at = "idle"
      /\ known' = known /\ glock' = NoThread /\ UNCHANGED <<mutex, db2>>
      /\ table' = Dtor(table, h)
  BY <1>0, ReturnFacts DEF FreeInTable, IInv
<1>2. call[t].op \in {"FreeStmtDrop", "FreeConnect"}
  BY <1>1 DEF FreeInTable, IInv, Phases, AllocOps
<1>3. /\ InFlight(t) /\ Forgotten(t) /\ HandleOK(t) /\ h \in HandleNums /\ h \in Slots
      /\ ~Db2Alive(db2, h) /\ table[h].hstmt = h /\ table[h].hdbc = call[t].c
      /\ call[t].op = "FreeStmtDrop" <=> h # call[t].c
  BY <1>0, <1>1, <1>2, SlotTypes DEF InFlight, Forgotten, IInv, Handles, HandleOK, OfStmt
<1>4. \A i \in Slots :
        /\ table'[i].thread_init = table[i].thread_init
        /\ table'[i].hstmt \in {0, table[i].hstmt}
        /\ i # h /\ (table[h].hdbc # table[h].hstmt \/ table[i].hdbc # table[h].hdbc)
           => table'[i] = table[i]
  BY <1>1, <1>3, DtorFacts DEF IInv, TypeOK
<1>5. \A u \in Threads : u # t => call[u].at # "table"
  BY <1>1, NobodyAtTable
<1>6. \A x : ~Reserved(x) /\ ~Reserved(x)'
  BY <1>1, <1>2, <1>5 DEF Reserved, Others, AllocOps
<1>7. Phases' /\ GlobalLock' /\ Mutexes' /\ Db2Tree'
  BY <1>1, <1>5, TableAssumption DEF IInv, Phases, GlobalLock, Mutexes, Others, Db2Tree
<1>8. AllFiled'
  <2>1. ASSUME NEW x \in HandleNums, Db2Alive(db2, x) PROVE Filed(x)'
    <3>1. Filed(x) /\ x \in Slots /\ db2[x].parent \in Slots /\ x # h
      BY <1>3, <1>6, <2>1, SlotTypes DEF IInv, AllFiled, Db2Tree
    <3>2. db2[x].parent # h
      <4>1. db2[x].kind \in {"dbc", "stmt"}
        BY <2>1, <3>1 DEF IInv, TypeOK, Db2Alive, Db2Handle
      <4>2. db2[h].kind # "dbc"
        BY <1>3 DEF Db2Alive
      <4> QED BY <2>1, <3>1, <4>1, <4>2 DEF IInv, Db2Tree
    <3>3. table'[x] = table[x]
      BY <1>2, <1>3, <1>4, <3>1, <3>2 DEF Filed
    <3> QED BY <1>1, <1>4, <3>1, <3>3 DEF Filed
  <2>2. \A i \in Slots : table'[i].hstmt # 0 => table'[i].thread_init
    BY <1>4 DEF IInv, AllFiled
  <2> QED BY <1>1, <2>1, <2>2 DEF AllFiled, Db2Alive
<1>9. KnownAlive'
  BY <1>1, <1>6 DEF IInv, KnownAlive
<1>10. ASSUME NEW u \in Threads, InFlight(u)'
       PROVE  /\ InFlight(u) /\ call'[u] = call[u] /\ HandleOK(u) /\ ~Forgotten(u)
  <2>1. u # t /\ InFlight(u) /\ call'[u] = call[u]
    BY <1>1, <1>10 DEF InFlight, Others
  <2> QED BY <1>5, <2>1 DEF IInv, Handles, Forgotten
<1>11. Handles'
  <2>1. ASSUME NEW u \in Threads, InFlight(u)' PROVE HandleOK(u)'
    <3>1. ~Reserved(call[u].h)'
      BY <1>6
    <3> QED BY <1>1, <1>10, <2>1, <3>1, HandleFrame
  <2> QED BY <2>1 DEF Handles
<1>12. NewHandles'
  BY <1>1, <1>5 DEF NewHandles, Others
<1>13. Exclusive' /\ Released'
  BY <1>1, <1>10 DEF IInv, Exclusive, Released
<1> QED BY <1>7, <1>8, <1>9, <1>11, <1>12, <1>13 DEF IInv

-----------------------------------------------------------------------------
(* Every step keeps the invariant                                            *)

LEMMA BeginCallKeeps ==
  ASSUME IInv, CarefulClients, NEW t \in Threads, BeginCall(t)
  PROVE  IInv'
<1>1. TypeOK'
  BY BeginCallType DEF IInv
<1>2. \A h \in known : h \in HandleNums /\ (db2[h].kind = "dbc" \/ db2[h].kind = "stmt")
  BY SlotTypes DEF IInv, KnownAlive, Db2Alive, TypeOK, Db2Handle
<1>3. Careful /\ "FreeStmtClose" \notin Ops
  BY DEF CarefulClients
<1>4. CASE BeginAllocConnect(t)
  BY <1>1, <1>4, BeginKeeps DEF BeginAllocConnect, AllocOps, OfStmt, ReleaseOps
<1> SUFFICES ASSUME NEW h \in HandleNums,
                    \/ BeginAllocStmt(t, h)
                    \/ BeginStmtCall(t, h)
                    \/ BeginConnCall(t, h)
                    \/ BeginConnect(t, h)
                    \/ BeginEndTran(t, h)
                    \/ BeginFreeStmt(t, h)
                    \/ BeginDisconnect(t, h)
                    \/ BeginFreeConnect(t, h)
             PROVE  IInv'
  BY <1>4 DEF BeginCall
<1>5. CASE BeginAllocStmt(t, h)
  BY <1>1, <1>5, BeginKeeps DEF BeginAllocStmt, AllocOps, OfStmt, ReleaseOps
<1>6. CASE BeginStmtCall(t, h)
  BY <1>1, <1>6, BeginKeeps DEF BeginStmtCall, LockOps, OfStmt, ReleaseOps
<1>7. CASE BeginConnCall(t, h)
  BY <1>1, <1>7, BeginKeeps DEF BeginConnCall, LockOps, OfStmt, ReleaseOps
<1>8. CASE BeginConnect(t, h)
  BY <1>1, <1>8, BeginKeeps DEF BeginConnect, LockOps, OfStmt, ReleaseOps
<1>9. CASE BeginEndTran(t, h)
  BY <1>1, <1>9, BeginKeeps DEF BeginEndTran, OfStmt, ReleaseOps
<1>10. CASE BeginFreeStmt(t, h)
  <2>1. ~Begin(t, "FreeStmtClose", h, "glock")
    BY <1>3 DEF Begin
  <2>2. /\ h \in known /\ db2[h].kind = "stmt" /\ ~InUseByOthers(t, h)
        /\ Begin(t, "FreeStmtDrop", h, "glock") /\ known' = known \ {h}
    BY <1>3, <1>10, <2>1 DEF BeginFreeStmt
  <2> QED BY <1>1, <2>2, BeginKeeps DEF OfStmt, ReleaseOps
<1>11. ASSUME NEW op \in ReleaseOps, BeginRelease(t, op, h),
              op = "FreeConnect" => ~db2[h].connected
       PROVE  IInv'
  BY <1>1, <1>3, <1>11, BeginKeeps DEF BeginRelease, OfStmt, ReleaseOps
<1>12. CASE BeginDisconnect(t, h)
  BY <1>11, <1>12 DEF BeginDisconnect, ReleaseOps
<1>13. CASE BeginFreeConnect(t, h)
  BY <1>3, <1>11, <1>13 DEF BeginFreeConnect, ReleaseOps
<1> QED BY <1>5, <1>6, <1>7, <1>8, <1>9, <1>10, <1>12, <1>13

\* DB2 numbers its handles from 2: neither the slot of the environment nor slot 0
\* ever names a connection or a statement.
NoStray == \A i \in Slots \ HandleNums : ~Db2Alive(db2, i)

LEMMA InitNoStray == Init => NoStray
<1> SUFFICES ASSUME Init PROVE NoStray
  OBVIOUS
<1>1. \A i \in Slots \ HandleNums : OpenedUnder(i) = {}
  BY CallAssumption DEF OpenedUnder
<1> QED BY <1>1 DEF Init, NoStray, Db2Alive, Db2Free

LEMMA StepNoStray ==
  ASSUME TypeOK, NoStray, [Next]_vars
  PROVE  NoStray'
<1>1. CASE UNCHANGED vars
  BY <1>1 DEF NoStray, Db2Alive, vars
<1>2. ASSUME NEW t \in Threads, BeginCall(t)
      PROVE  db2' = db2
  BY <1>2 DEF BeginCall, BeginAllocConnect, BeginAllocStmt, BeginStmtCall, BeginConnCall,
     BeginConnect, BeginEndTran, BeginFreeStmt, BeginDisconnect, BeginFreeConnect,
     BeginRelease, Begin
<1>3. ASSUME NEW t \in Threads, CallStep(t)
      PROVE  \/ db2' = db2
             \/ \E o \in HandleNums : \/ db2' = Db2NewDbc(db2, o)
                                      \/ db2' = Db2NewStmt(db2, o, call[t].h)
             \/ db2' = Db2Connect(db2, call[t].h)
             \/ db2' = Db2Disconnect(db2, call[t].h)
             \/ db2' = Db2FreeStmt(db2, call[t].h)
             \/ db2' = Db2FreeDbc(db2, call[t].h)
  BY <1>3 DEF CallStep, TableLock, LockedCallReturns, ConnectReturns, BareCallReturns,
     DisconnectReturns, CheckPersistent, AllocInDb2, AllocInTable, FreeInDb2, FreeInTable
<1>4. ASSUME NEW t \in Threads, CallStep(t), NEW i \in Slots \ HandleNums
      PROVE  ~Db2Alive(db2', i)
  <2>1. db2 \in [Slots -> Db2Handle] /\ ~Db2Alive(db2, i)
    BY DEF TypeOK, NoStray
  <2>2. \A c : Db2Connect(db2, c)[i].kind = db2[i].kind
    BY <2>1, Db2ConnectFacts
  <2>3. \A c : Db2Disconnect(db2, c)[i].kind \in {"free", db2[i].kind}
    BY <2>1 DEF Db2Disconnect, Db2Free, Db2Handle
  <2>4. \A o \in HandleNums : /\ Db2NewDbc(db2, o)[i] = db2[i]
                              /\ \A c : Db2NewStmt(db2, o, c)[i] = db2[i]
    BY <2>1 DEF Db2NewDbc, Db2NewStmt
  <2>5. \A c : /\ Db2FreeStmt(db2, c)[i].kind \in {"free", db2[i].kind}
               /\ Db2FreeDbc(db2, c)[i].kind \in {"free", db2[i].kind}
    BY <2>1 DEF Db2FreeStmt, Db2FreeDbc, Db2Free
  <2> QED BY <1>3, <1>4, <2>1, <2>2, <2>3, <2>4, <2>5 DEF Db2Alive
<1> QED BY <1>1, <1>2, <1>4 DEF Next, Quiescent, NoStray

\* What a refused release hands back: the connection and its statements.
LEMMA BackFacts ==
  ASSUME IInv, NoStray,
         NEW t \in Threads, InFlight(t), call[t].op \in ReleaseOps, ~Forgotten(t)
  PROVE  \A x \in {call[t].h} \cup Db2Stmts(db2, call[t].h) \cup KeptUnder(call[t].h) :
           x \in HandleNums /\ Db2Alive(db2, x) /\ db2[x].parent = call[t].c
<1>1. HandleOK(t)
  BY DEF IInv, Handles
<1>2. call[t].h = call[t].c /\ call[t].h \in HandleNums
      /\ Db2Alive(db2, call[t].h) /\ db2[call[t].h].parent = call[t].c
  BY <1>1 DEF HandleOK, OfStmt, ReleaseOps
<1>3. ASSUME NEW x \in Db2Stmts(db2, call[t].h)
      PROVE  x \in HandleNums /\ Db2Alive(db2, x) /\ db2[x].parent = call[t].c
  <2>1. x \in Slots /\ db2[x].kind = "stmt" /\ db2[x].parent = call[t].c
    BY <1>2, <1>3 DEF Db2Stmts
  <2>2. Db2Alive(db2, x)
    BY <2>1 DEF Db2Alive
  <2> QED BY <2>1, <2>2 DEF NoStray
<1> QED BY <1>2, <1>3, KeptUnderFacts, SlotTypes

\* Each step of a call, by the lemmas on its kind.
LEMMA CallStepKeeps ==
  ASSUME IInv, NoStray, NEW t \in Threads, CallStep(t)
  PROVE  IInv'
<1>1. TypeOK /\ TypeOK'
  BY CallStepType DEF IInv
<1>3. CASE TableLock(t)
  <2>1. Mutexes' /\ SameMapping(table, table')
    BY <1>3, LockKeeps
  <2>2. /\ Others(t) /\ call'[t].at = "db2" /\ call'[t].op = call[t].op
        /\ call'[t].h = call[t].h /\ call'[t].c = call[t].c /\ call'[t].m = call[t].m
    BY <1>1, <1>3, GotoFacts DEF TableLock
  <2>3. call[t].at = "want" /\ call[t].op \in LockOps
    BY <1>3, LockFacts DEF TableLock
  <2>4. glock' = glock /\ db2' = db2 /\ known' = known
    BY <1>3 DEF TableLock
  <2> QED BY <1>1, <2>1, <2>2, <2>3, <2>4, QuietMoveKeeps
<1>4. ASSUME call[t].at = "db2", TableUnlock(t), Return(t, {}), glock' = glock,
             \/ db2' = db2
             \/ db2' = Db2Connect(db2, call[t].c)
      PROVE  IInv'
  <2>1. Others(t) /\ call'[t].at = "idle" /\ known' = known
    BY <1>1, <1>4, ReturnFacts
  <2>2. Mutexes' /\ SameMapping(table, table')
    BY <1>4, <2>1, UnlockKeeps
  <2>3. InFlight(t)
    BY <1>4, LockFacts
  <2> QED BY <1>1, <1>4, <2>1, <2>2, <2>3, QuietMoveKeeps
<1>5. CASE LockedCallReturns(t)
  BY <1>4, <1>5 DEF LockedCallReturns
<1>6. CASE ConnectReturns(t)
  <2>1. call[t].at = "db2" /\ call[t].op = "Connect"
    BY <1>6 DEF ConnectReturns
  <2>2. call[t].h = call[t].c
    BY <2>1, LockFacts DEF HandleOK, OfStmt
  <2> QED BY <1>4, <1>6, <2>2 DEF ConnectReturns
<1>7. ASSUME call[t].at \in {"bare", "check", "glock"}, call'[t].at # "db2",
             Others(t), UNCHANGED <<table, mutex>>
      PROVE  Mutexes' /\ SameMapping(table, table')
  <2>1. table' = table /\ mutex' = mutex
    BY <1>7
  <2>2. \A u \in Threads : \/ u # t /\ call'[u] = call[u]
                           \/ u = t /\ call[u].at # "db2" /\ call'[u].at # "db2"
    BY <1>7 DEF Others
  <2>3. SameMapping(table, table')
    BY <2>1 DEF SameMapping
  <2>4. ASSUME NEW u \in Threads, call'[u].at = "db2"
        PROVE  mutex'[call'[u].c] = Held(u)
    BY <2>1, <2>2, <2>4 DEF IInv, Mutexes
  <2>5. ASSUME NEW s \in Slots, mutex'[s] # FreeMutex
        PROVE  \E u \in Threads : call'[u].at = "db2" /\ call'[u].c = s /\ mutex'[s] = Held(u)
    <3>1. PICK u \in Threads : call[u].at = "db2" /\ call[u].c = s /\ mutex[s] = Held(u)
      BY <2>1, <2>5 DEF IInv, Mutexes
    <3> QED BY <2>1, <2>2, <3>1
  <2> QED BY <2>3, <2>4, <2>5 DEF Mutexes, Held
<1>8. CASE BareCallReturns(t)
  <2>1. Others(t) /\ call'[t].at = "idle" /\ known' = known
    BY <1>1, <1>8, ReturnFacts DEF BareCallReturns
  <2>2. Mutexes' /\ SameMapping(table, table')
    BY <1>7, <1>8, <2>1 DEF BareCallReturns
  <2> QED BY <1>1, <1>8, <2>1, <2>2, QuietMoveKeeps DEF BareCallReturns
<1>9. CASE DisconnectReturns(t)
  <2> DEFINE back == KeptUnder(call[t].h)
  <2>1. call[t].at = "db2" /\ call[t].op = "Disconnect" /\ TableUnlock(t) /\ glock' = glock
    BY <1>9 DEF DisconnectReturns
  <2>2. CASE db2' = Db2Disconnect(db2, call[t].h) /\ Return(t, {call[t].h})
    BY <1>1, <2>1, <2>2, DisconnectKeeps
  <2>3. CASE db2' = db2 /\ Return(t, back)
    <3>1. Others(t) /\ call'[t].at = "idle" /\ known' = known \cup back
      BY <1>1, <2>3, ReturnFacts
    <3>2. Mutexes' /\ SameMapping(table, table')
      BY <2>1, <3>1, UnlockKeeps
    <3>3. call[t].op \in ReleaseOps
      BY <2>1 DEF ReleaseOps
    <3>4. \A x \in back : x \in HandleNums /\ Db2Alive(db2, x) /\ db2[x].parent = call[t].c
      BY <2>1, <3>3, LockFacts, BackFacts
    <3> HIDE DEF back
    <3> QED BY <1>1, <2>1, <2>3, <3>1, <3>2, <3>3, <3>4, MoveKeeps
  <2> QED BY <1>9, <2>2, <2>3 DEF DisconnectReturns
<1>10. CASE CheckPersistent(t)
  <2> DEFINE back == KeptUnder(call[t].h)
  <2>1. /\ call[t].at = "check" /\ call[t].op \in ReleaseOps
        /\ UNCHANGED <<table, mutex, glock, db2>>
    BY <1>10 DEF CheckPersistent, ReleaseOps
  <2>2. CASE Return(t, back)
    <3>1. Others(t) /\ call'[t].at = "idle" /\ known' = known \cup back
      BY <1>1, <2>2, ReturnFacts
    <3>2. Mutexes' /\ SameMapping(table, table')
      BY <1>7, <2>1, <3>1
    <3>3. InFlight(t) /\ ~Forgotten(t)
      BY <2>1 DEF InFlight, Forgotten, ReleaseOps
    <3>4. \A x \in back : x \in HandleNums /\ Db2Alive(db2, x) /\ db2[x].parent = call[t].c
      BY <2>1, <3>3, BackFacts
    <3> HIDE DEF back
    <3> QED BY <1>1, <2>1, <3>1, <3>2, <3>4, MoveKeeps
  <2>3. ASSUME NEW label, Goto(t, label), UNCHANGED known,
               \/ label = "want" /\ call[t].op = "Disconnect"
               \/ label = "glock" /\ call[t].op = "FreeConnect"
        PROVE  IInv'
    <3>1. /\ Others(t) /\ call'[t].at = label /\ call'[t].op = call[t].op
          /\ call'[t].h = call[t].h /\ call'[t].c = call[t].c /\ call'[t].m = call[t].m
      BY <1>1, <2>3, GotoFacts
    <3>2. Mutexes' /\ SameMapping(table, table')
      BY <1>7, <2>1, <2>3, <3>1
    <3>3. /\ \/ call'[t].at = "want" /\ call[t].op \in LockOps
             \/ call'[t].at = "glock" /\ call[t].op = "FreeConnect"
          /\ known' = known
      BY <2>3, <3>1 DEF LockOps
    <3> QED BY <1>1, <2>1, <3>1, <3>2, <3>3, QuietMoveKeeps
  <2> QED BY <1>10, <2>1, <2>2, <2>3 DEF CheckPersistent, ReleaseOps
<1>11. CASE AllocInDb2(t)
  <2>1. CASE Return(t, {}) /\ UNCHANGED <<glock, db2>>
    <3>1. Others(t) /\ call'[t].at = "idle" /\ known' = known
      BY <1>1, <2>1, ReturnFacts
    <3>2. call[t].at = "glock" /\ UNCHANGED <<table, mutex>>
      BY <1>11 DEF AllocInDb2
    <3>3. Mutexes' /\ SameMapping(table, table')
      BY <1>7, <3>1, <3>2
    <3> QED BY <1>1, <2>1, <3>1, <3>2, <3>3, QuietMoveKeeps
  <2> QED BY <1>1, <1>11, <2>1, AllocDb2Keeps DEF AllocInDb2
<1> QED BY <1>1, <1>3, <1>5, <1>6, <1>8, <1>9, <1>10, <1>11, AllocTableKeeps, FreeDb2Keeps,
           FreeTableKeeps DEF CallStep

-----------------------------------------------------------------------------
(* The initial state                                                         *)

LEMMA InitIInv == Init => IInv
<1> SUFFICES ASSUME Init PROVE IInv
  OBVIOUS
<1> USE SlotTypes
<1> DEFINE conn(h) == CHOOSE c \in OpenedUnder(h) : TRUE
<1>1. TypeOK
  BY InitTypeOK
<1>2. /\ \A t \in Threads : call[t].at = "idle"
      /\ glock = NoThread
      /\ \A s \in Slots : mutex[s] = FreeMutex
  BY DEF Init, NoCall, Started
<1>3. ASSUME NEW h \in Slots, OpenedUnder(h) # {}
      PROVE  /\ h \in HandleNums /\ conn(h) \in HandleNums
             /\ OpenedUnder(conn(h)) # {} /\ conn(conn(h)) = conn(h)
  <2>1. conn(h) \in OpenedUnder(h)
    BY <1>3
  <2>2. <<h, conn(h)>> \in Opened /\ h \in HandleNums /\ conn(h) \in HandleNums
    BY <2>1, CallAssumption DEF OpenedUnder
  <2>3. <<conn(h), conn(h)>> \in Opened
    BY <2>2, CallAssumption
  <2>4. OpenedUnder(conn(h)) = {conn(h)}
    <3> HIDE DEF conn
    <3> DEFINE c == conn(h)
    <3>1. \A p \in Opened : p[1] = c => p = <<c, c>>
      BY <2>3, CallAssumption
    <3>2. {q \in Opened : q[1] = c} = {<<c, c>>}
      BY <2>3, <3>1
    <3>3. OpenedUnder(c) = {p[2] : p \in {<<c, c>>}}
      BY <3>2 DEF OpenedUnder
    <3>4. {p[2] : p \in {<<c, c>>}} = {c}
      OBVIOUS
    <3> QED BY <3>3, <3>4
  <2>5. \A x : OpenedUnder(x) # {} => conn(x) \in OpenedUnder(x)
    OBVIOUS
  <2> HIDE DEF conn
  <2>6. conn(conn(h)) \in OpenedUnder(conn(h))
    BY <2>4, <2>5
  <2> QED BY <2>2, <2>4, <2>6
<1>4. ASSUME NEW h \in Slots, Db2Alive(db2, h)
      PROVE  /\ OpenedUnder(h) # {}
             /\ db2[h].parent = conn(h)
             /\ db2[h].kind = IF conn(h) = h THEN "dbc" ELSE "stmt"
             /\ db2[h].connected <=> conn(h) = h
             /\ table[h].hstmt = h /\ table[h].hdbc = conn(h) /\ table[h].thread_init
  BY <1>4 DEF Init, Db2Alive, Db2Free, OpenedSlot
<1>5. ASSUME NEW h \in Slots, OpenedUnder(h) # {}
      PROVE  Db2Alive(db2, h)
  BY <1>5 DEF Init, Db2Alive
<1>6. ASSUME NEW h \in Slots, Db2Alive(db2, h)
      PROVE  /\ conn(h) \in HandleNums /\ Db2Alive(db2, conn(h))
             /\ conn(conn(h)) = conn(h)
  BY <1>3, <1>4, <1>5, <1>6
<1>7. Db2Tree
  <2>1. ASSUME NEW h \in HandleNums, Db2Alive(db2, h)
        PROVE  /\ db2[h].parent \in HandleNums
               /\ db2[h].kind = "dbc" => db2[h].parent = h
               /\ db2[h].kind = "stmt" => /\ db2[h].parent # h
                                          /\ db2[db2[h].parent].kind = "dbc"
                                          /\ db2[db2[h].parent].connected
    <3> HIDE DEF conn
    <3>1. h \in Slots /\ conn(h) \in Slots
      BY <1>6, <2>1
    <3> QED BY ZenonT(60), <1>4, <1>6, <2>1, <3>1
  <2> QED BY <2>1 DEF Db2Tree
<1>8. AllFiled
  <2>1. ASSUME NEW h \in HandleNums, Db2Alive(db2, h) PROVE Filed(h)
    <3> HIDE DEF conn
    <3>1. h \in Slots /\ conn(h) \in Slots
      BY <1>6, <2>1
    <3> QED BY <1>4, <1>6, <2>1, <3>1 DEF Filed
  <2>2. ASSUME NEW i \in Slots, table[i].hstmt # 0 PROVE table[i].thread_init
    BY <2>2 DEF Init, ZeroSlot, OpenedSlot
  <2> QED BY <2>1, <2>2 DEF AllFiled
<1>9. KnownAlive
  <2>1. ASSUME NEW h \in known PROVE h \in HandleNums /\ OpenedUnder(h) # {}
    BY <2>1, CallAssumption DEF Init, OpenedUnder
  <2> QED BY <1>2, <1>5, <2>1 DEF KnownAlive, Reserved
<1>10. Phases /\ GlobalLock /\ Mutexes
  BY <1>2, TableAssumption DEF Phases, GlobalLock, Mutexes
<1>11. Handles /\ NewHandles /\ Exclusive /\ Released
  BY <1>2 DEF Handles, NewHandles, Exclusive, Released, InFlight
<1> QED BY <1>1, <1>7, <1>8, <1>9, <1>10, <1>11 DEF IInv

-----------------------------------------------------------------------------
(* Theorems                                                                  *)

LEMMA NextKeeps ==
  ASSUME IInv, NoStray, CarefulClients, [Next]_vars
  PROVE  IInv'
<1>1. ASSUME NEW t \in Threads, BeginCall(t) PROVE IInv'
  BY <1>1, BeginCallKeeps
<1>2. ASSUME NEW t \in Threads, CallStep(t) PROVE IInv'
  BY <1>2, CallStepKeeps
<1>3. CASE UNCHANGED vars
  <2>1. TypeOK'
    BY <1>3 DEF vars, IInv, TypeOK
  <2>2. /\ Phases' /\ GlobalLock' /\ Mutexes'
        /\ Db2Tree' /\ AllFiled' /\ KnownAlive'
    BY <1>3 DEF vars, IInv, Phases, GlobalLock, Mutexes, Db2Tree, AllFiled, KnownAlive,
       Reserved, Filed, Db2Alive
  <2>3. Handles' /\ NewHandles' /\ Exclusive' /\ Released'
    BY <1>3 DEF vars, IInv, Handles, NewHandles, Exclusive, Released, HandleOK, NewOK,
       InFlight, Forgotten, Reserved, Db2Alive
  <2> QED BY <2>1, <2>2, <2>3 DEF IInv
<1> QED BY <1>1, <1>2, <1>3 DEF Next, Quiescent

\* The inductive invariant: the table maps every handle in use to the mutex of its
\* connection from the moment a call chose it until the call has released it,
\* because what a careful client passes is filed and what it releases is its own.
THEOREM Invariant ==
  ASSUME CarefulClients
  PROVE  Spec => [](IInv /\ NoStray)
<1>1. Init => IInv /\ NoStray
  BY InitIInv, InitNoStray
<1>2. IInv /\ NoStray /\ [Next]_vars => (IInv /\ NoStray)'
  <2> SUFFICES ASSUME IInv, NoStray, [Next]_vars PROVE IInv' /\ NoStray'
    OBVIOUS
  <2>1. TypeOK
    BY DEF IInv
  <2> QED BY <2>1, NextKeeps, StepNoStray
<1> QED BY <1>1, <1>2, PTL DEF Spec

\* However many threads and connections there are, no two threads are inside DB2
\* on one connection through calls that take its mutex (init_table_lock).
THEOREM OneAtATime ==
  ASSUME CarefulClients
  PROVE  Spec => []OneCallPerConnection
<1>1. IInv => OneCallPerConnection
  <2> SUFFICES ASSUME IInv, NEW t \in Threads, NEW u \in Threads,
                      t # u, UnderLock(t), UnderLock(u), call[t].c = call[u].c
               PROVE  FALSE
    BY DEF OneCallPerConnection
  <2>1. call[t].at = "db2" /\ call[u].at = "db2"
    BY DEF UnderLock, IInv, Phases
  <2>2. Held(t) = Held(u)
    BY <2>1 DEF IInv, Mutexes
  <2> QED BY <2>2, HeldFacts
<1> QED BY <1>1, Invariant, PTL

\* A thread back at its client holds no mutex and not the global lock: what
\* init_table_unlock releases is what init_table_lock took, although both look the
\* index up in a table that others changed in between.
THEOREM NothingKept ==
  ASSUME CarefulClients
  PROVE  Spec => []NothingHeldAfterReturn
<1>1. IInv => NothingHeldAfterReturn
  <2> SUFFICES ASSUME IInv, NEW t \in Threads, call[t].at = "idle"
               PROVE  glock # t /\ \A s \in Slots : mutex[s].owner # t
    BY DEF NothingHeldAfterReturn
  <2>1. glock # t
    BY DEF IInv, GlobalLock
  <2>2. ASSUME NEW s \in Slots PROVE mutex[s].owner # t
    <3>1. CASE mutex[s] = FreeMutex
      BY <3>1, TableAssumption DEF FreeMutex
    <3>2. ASSUME NEW u \in Threads, call[u].at = "db2", mutex[s] = Held(u)
          PROVE  mutex[s].owner # t
      BY <3>2, HeldFacts
    <3> QED BY <3>1, <3>2 DEF IInv, Mutexes
  <2> QED BY <2>1, <2>2
<1> QED BY <1>1, Invariant, PTL

\* Between two holders of the global lock IBMiTable files every handle DB2 knows
\* under its own connection, with an initialised mutex, however numbers are reused.
THEOREM TableAgrees ==
  ASSUME CarefulClients
  PROVE  Spec => []TableAgreesWithDb2
<1>1. IInv => TableAgreesWithDb2
  <2> SUFFICES ASSUME IInv, glock = NoThread, NEW h \in HandleNums, Db2Alive(db2, h)
               PROVE  Filed(h)
    BY DEF TableAgreesWithDb2, Filed
  <2>1. ~Reserved(h)
    BY NobodyAtTable DEF Reserved
  <2> QED BY <2>1 DEF IInv, AllFiled
<1> QED BY <1>1, Invariant, PTL

\* A handle a client holds is alive in DB2 and filed under its own, connected,
\* connection: no other client's release took it away.
THEOREM KnownLive ==
  ASSUME CarefulClients
  PROVE  Spec => []KnownHandlesAreLive
<1>1. IInv => KnownHandlesAreLive
  <2> SUFFICES ASSUME IInv, NEW h \in known
               PROVE  /\ Db2Alive(db2, h)
                      /\ table[h].hstmt = h /\ table[h].hdbc = db2[h].parent
                      /\ db2[h].kind = "stmt" => db2[db2[h].parent].connected
    BY DEF KnownHandlesAreLive
  <2>1. h \in HandleNums /\ Db2Alive(db2, h) /\ Filed(h)
    BY DEF IInv, KnownAlive, AllFiled
  <2> QED BY <2>1 DEF IInv, Db2Tree, Filed
<1> QED BY <1>1, Invariant, PTL
=============================================================================
