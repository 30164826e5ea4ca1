-------------------------- MODULE SQL400Connect_proofs --------------------------
(***************************************************************************)
(* The safety of the aggregate functions beside the plain calls, for any    *)
(* number of threads, any table, any keys and any handles open at the       *)
(* start: the inductive invariant of SQL400Connect and its proof.           *)
(*                                                                          *)
(* The clients are careful (they release or close nothing another thread     *)
(* uses, and open no key that another thread is closing, but they may open   *)
(* one key in several threads at once), do not use SQLFreeStmt with an option *)
(* other than SQL_DROP, and are tidy: they free the statements of a           *)
(* connection before they disconnect it with SQLDisconnect.                   *)
(***************************************************************************)
EXTENDS SQL400Connect, PaseCliCall_proofs, FiniteSetTheorems, WellFoundedInduction

-----------------------------------------------------------------------------
(* What a thread has to do with which handle                                 *)

Aggregates == ConnectOps \cup CloseOps

\* Its call names a handle: not yet in a connect that looks for one, no more in
\* a close that has released its own.
Named(t) ==
  /\ call[t].at # "idle" /\ call[t].op # "AllocConnect"
  /\ ~(call[t].op \in ConnectOps /\ call[t].at \in {"lookup", "glock"})

Claims(t) ==
  /\ Named(t)
  /\ ~(call[t].op \in CloseOps /\ call[t].at = "unlock" /\ ~call[t].active)

\* It opens a connection nobody can find by a key.
Opens(t) ==
  /\ call[t].op \in ConnectOps
  /\ call[t].key = NoKey \/ call[t].at \in {"table", "want", "db2", "addhash"}

\* Nobody else may be in a call on its connection.  A disconnect that will find
\* a key owns nothing, and a connect that has entered one owns nothing any more:
\* others may find the connection by that key.
Owns(t) ==
  /\ Claims(t)
  /\ \/ call[t].op \in CloseOps
     \/ Opens(t)
     \/ /\ call[t].op \in ReleaseOps
        /\ call[t].at # "check" \/ table[call[t].h].hKey = NoKey

\* It runs the command of a library list in a statement of its own.
Commands(t) ==
  call[t].op \in ConnectOps /\ call[t].at \in {"cmdtable", "cmd", "free", "freed"}

Drops(t) == call[t].at # "idle" /\ call[t].op = "FreeStmtDrop"

\* Allocated by DB2, not yet in the table; released by DB2, still in the table.
New(t, x) ==
  \/ call[t].at = "table" /\ call[t].op \in AllocOps /\ call[t].o = x
  \/ call[t].at = "table" /\ call[t].op \in ConnectOps /\ call[t].h = x
  \/ call[t].at = "cmdtable" /\ call[t].o = x

Left(t, x) ==
  \/ call[t].at = "table" /\ call[t].op \in {"FreeStmtDrop", "FreeConnect"} /\ call[t].h = x
  \/ call[t].at = "freed" /\ call[t].o = x

-----------------------------------------------------------------------------
(* The parts of the inductive invariant                                      *)

Places ==
  \A t \in Threads :
    \/ call[t].at = "idle"
    \/ call[t].at = "check" /\ call[t].op \in ReleaseOps
    \/ call[t].at \in {"want", "db2"} /\ call[t].op \in LockOps \cup Aggregates
    \/ call[t].at = "bare" /\ call[t].op = "EndTran"
    \/ /\ call[t].at \in {"glock", "table"}
       /\ call[t].op \in AllocOps \cup {"FreeStmtDrop", "FreeConnect"} \cup ConnectOps
    \/ call[t].at \in {"lookup", "addhash"} /\ call[t].op = "SQL400pConnect"
    \/ call[t].at \in {"setup", "cmdtable", "cmd"} /\ call[t].op \in ConnectOps
    \/ call[t].at \in {"stmts", "dtor", "bye", "byelock", "byetable"} /\ call[t].op \in CloseOps
    \/ call[t].at \in {"free", "freed", "unlock"} /\ call[t].op \in Aggregates

AtTable == {"table", "cmdtable", "freed", "byetable"}

TableOwner == \A t \in Threads : glock = t <=> call[t].at \in AtTable

Sections ==
  /\ \A t \in Threads : UnderLock(t) => mutex[call[t].c] = Held(t)
  /\ \A s \in Slots :
       \/ mutex[s] = FreeMutex
       \/ \E t \in Threads : UnderLock(t) /\ call[t].c = s /\ mutex[s] = Held(t)

\* DB2's side.
Tree ==
  /\ \A x \in Slots : Db2Alive(db2, x) => x \in HandleNums
  /\ Db2Tree

\* The table's side: what it files is alive and under its connection, and what is
\* alive is filed if its connection is.
SlotOK(i) ==
  /\ table[i].hstmt = 0 => table[i].hdbc = 0 /\ table[i].hKey = NoKey
  /\ table[i].hstmt # 0 =>
       /\ i \in HandleNums /\ table[i].hstmt = i /\ table[i].thread_init
       /\ table[i].hdbc \in HandleNums
       /\ table[table[i].hdbc].hstmt # 0 /\ table[table[i].hdbc].hdbc = table[i].hdbc
  /\ table[i].hstmt # 0 /\ (\A t \in Threads : ~Left(t, i)) =>
       Db2Alive(db2, i) /\ db2[i].parent = table[i].hdbc
  /\ Db2Alive(db2, i) /\ (\A t \in Threads : ~New(t, i)) /\ table[db2[i].parent].hstmt # 0 =>
       table[i].hstmt # 0

Filing ==
  /\ \A i \in Slots : SlotOK(i)
  /\ \A t \in Threads, x \in Slots : New(t, x) => table[x].hstmt = 0 /\ ~db2[x].connected

\* The keys.
Keyed ==
  \A h \in Slots : table[h].hKey # NoKey =>
    /\ table[h].hstmt # 0 /\ table[h].hdbc = h
    /\ db2[h].kind = "dbc" /\ db2[h].connected

KeysApart ==
  \A t, u \in Threads :
    /\ t # u /\ call[t].op \in ConnectOps /\ call[u].op \in CloseOps
    /\ call[t].key # NoKey
    => call[t].key # call[u].key

\* What a thread may rely on.
Usable(x) == x \in HandleNums /\ Db2Alive(db2, x) /\ table[x].hstmt # 0

HandleIsGood(t) ==
  /\ Named(t) =>
       /\ call[t].h \in HandleNums /\ call[t].c \in HandleNums
       /\ call[t].op \in OfStmt <=> call[t].h # call[t].c
       /\ call[t].op # "FreeStmtDrop" => call[t].m = call[t].c
  /\ Claims(t) /\ call[t].at # "byetable" /\ ~Left(t, call[t].h) =>
       Db2Alive(db2, call[t].h) /\ db2[call[t].h].parent = call[t].c
  /\ Left(t, call[t].h) => ~Db2Alive(db2, call[t].h)
  /\ /\ Claims(t) /\ call[t].at \notin {"bye", "byelock", "byetable"}
     /\ ~(call[t].at = "table" /\ call[t].op \in ConnectOps)
     => table[call[t].h].hstmt # 0 /\ table[call[t].h].hdbc = call[t].c
  /\ call[t].at \in {"bye", "byelock", "byetable"} => table[call[t].h].hstmt = 0

OtherIsGood(t) ==
  /\ call[t].at = "table" /\ call[t].op \in AllocOps =>
       /\ call[t].o \in HandleNums /\ Db2Alive(db2, call[t].o)
       /\ db2[call[t].o].parent = IF call[t].op = "AllocConnect" THEN call[t].o ELSE call[t].h
  /\ call[t].at \in {"cmdtable", "cmd", "free"} =>
       /\ call[t].o \in HandleNums /\ db2[call[t].o].kind = "stmt"
       /\ db2[call[t].o].parent = call[t].h
  /\ call[t].at \in {"cmd", "free", "freed"} => table[call[t].o].hstmt # 0
  /\ call[t].at = "freed" =>
       /\ call[t].o \in HandleNums /\ ~Db2Alive(db2, call[t].o)
       /\ table[call[t].o].hdbc = call[t].h /\ call[t].o # call[t].h

StateIsGood(t) ==
  /\ Named(t) /\ call[t].op = "FreeConnect" => ~db2[call[t].h].connected
  /\ Named(t) /\ call[t].op \in ReleaseOps /\ call[t].at # "check" =>
       table[call[t].h].hKey = NoKey
  /\ Claims(t) /\ call[t].op \in Aggregates => table[call[t].h].hKey \in {NoKey, call[t].key}
  /\ /\ call[t].op \in ConnectOps
     /\ call[t].at \in {"addhash", "setup", "cmdtable", "cmd", "free", "freed", "unlock"}
     => db2[call[t].h].connected
  /\ call[t].op = "SQL400pConnect" => call[t].key \in Keys
  /\ call[t].op = "SQL400Connect" => call[t].key = NoKey
  /\ Claims(t) /\ Opens(t) => table[call[t].h].hKey = NoKey
  /\ call[t].op \in CloseOps /\ call[t].at \in {"stmts", "free", "freed", "dtor"} =>
       /\ call[t].op = "SQL400CloseAllStmts" => call[t].active
       /\ call[t].op = "SQL400Close" /\ table[call[t].h].hKey # NoKey => call[t].active
  /\ call[t].at \in {"dtor", "bye", "byelock", "byetable"} => ~call[t].active

ThreadsGood == \A t \in Threads : HandleIsGood(t) /\ OtherIsGood(t) /\ StateIsGood(t)

\* What a client holds can be used, and who releases or drops something is alone.
KnownGood == \A x \in known : Usable(x)

Alone ==
  \A t, u \in Threads : t # u /\ Claims(u) =>
    /\ Owns(t) => call[u].c # call[t].h
    /\ Claims(t) /\ call[t].op \in ReleaseOps /\ call[u].op \in ConnectOps =>
         call[u].c # call[t].h
    /\ Drops(t) => call[u].h # call[t].h
    /\ Commands(t) => call[u].h # call[t].o
    /\ ~New(t, call[u].h)

TakenBack ==
  \A t \in Threads :
    /\ Owns(t) => \A x \in known : db2[x].parent # call[t].h
    /\ Drops(t) => call[t].h \notin known
    /\ Commands(t) => call[t].o \notin known

LongInv ==
  /\ TypeOK /\ Places /\ TableOwner /\ Sections
  /\ Tree /\ Filing /\ Keyed /\ KeysApart
  /\ ThreadsGood /\ KnownGood /\ Alone /\ TakenBack

-----------------------------------------------------------------------------
(* What the invariant says of one handle                                     *)

Good(t) == HandleIsGood(t) /\ OtherIsGood(t) /\ StateIsGood(t)

World == Tree /\ Filing /\ Keyed

\* The handles a thread's call relies on.
Uses(u, x) ==
  \/ Claims(u) /\ x = call[u].h
  \/ call[u].at \in {"cmdtable", "cmd", "free", "freed"} /\ x = call[u].o
  \/ call[u].at = "table" /\ call[u].op \in AllocOps /\ x = call[u].o

LEMMA TreeFacts ==
  ASSUME TypeOK, Tree, NEW x \in Slots, Db2Alive(db2, x)
  PROVE  /\ x \in HandleNums
         /\ db2[x].parent \in HandleNums /\ db2[x].parent \in Slots
         /\ db2[db2[x].parent].kind = "dbc" /\ Db2Alive(db2, db2[x].parent)
         /\ db2[db2[x].parent].parent = db2[x].parent
         /\ db2[x].kind = "dbc" <=> db2[x].parent = x
         /\ db2[x].kind = "stmt" <=> db2[x].parent # x
         /\ db2[x].kind = "stmt" => db2[db2[x].parent].connected
<1>1. x \in HandleNums
  BY DEF Tree
<1>2. /\ db2[x].parent \in HandleNums
      /\ db2[x].kind = "dbc" => db2[x].parent = x
      /\ db2[x].kind = "stmt" => /\ db2[x].parent # x
                                 /\ db2[db2[x].parent].kind = "dbc"
                                 /\ db2[db2[x].parent].connected
  BY <1>1 DEF Tree, Db2Tree
<1>3. db2[x].kind \in {"dbc", "stmt"}
  BY DEF TypeOK, Db2Handle, Db2Alive
<1>4. db2[x].parent \in Slots
  BY <1>2, SlotTypes
<1>5. db2[db2[x].parent].kind = "dbc" /\ Db2Alive(db2, db2[x].parent)
  BY <1>2, <1>3 DEF Db2Alive
<1>6. db2[db2[x].parent].parent = db2[x].parent
  BY <1>2, <1>5 DEF Tree, Db2Tree
<1> QED BY <1>1, <1>2, <1>3, <1>4, <1>5, <1>6

LEMMA LeftFacts ==
  ASSUME LongInv, NEW v \in Threads, NEW x, Left(v, x)
  PROVE  /\ glock = v /\ x \in HandleNums
         /\ ~Db2Alive(db2, x)
         /\ table[x].hstmt # 0
         /\ Uses(v, x)
<1>1. glock = v
  BY DEF LongInv, TableOwner, AtTable, Left
<1>2. CASE call[v].at = "table" /\ call[v].op \in {"FreeStmtDrop", "FreeConnect"} /\ call[v].h = x
  <2>1. Claims(v)
    BY <1>2 DEF Claims, Named, ConnectOps, CloseOps
  <2> QED BY <1>1, <1>2, <2>1 DEF LongInv, ThreadsGood, HandleIsGood, Uses, Claims, ConnectOps
<1>3. CASE call[v].at = "freed" /\ call[v].o = x
  BY <1>1, <1>3 DEF LongInv, ThreadsGood, OtherIsGood, Uses
<1> QED BY <1>2, <1>3 DEF Left

LEMMA NewFacts ==
  ASSUME LongInv, NEW v \in Threads, NEW x, New(v, x)
  PROVE  /\ glock = v /\ x \in HandleNums
         /\ Db2Alive(db2, x) /\ ~db2[x].connected
         /\ table[x].hstmt = 0
         /\ Uses(v, x)
         /\ \/ db2[x].parent = x
            \/ Claims(v) /\ db2[x].parent = call[v].h /\ call[v].op \in Aggregates \cup {"AllocStmt"}
<1> DEFINE Home == \/ db2[x].parent = x
                   \/ /\ Claims(v) /\ db2[x].parent = call[v].h
                      /\ call[v].op \in Aggregates \cup {"AllocStmt"}
           Born == x \in HandleNums /\ Db2Alive(db2, x) /\ Uses(v, x) /\ Home
<1>1. glock = v
  BY DEF LongInv, TableOwner, AtTable, New
<1>2. ASSUME call[v].at = "table", call[v].op \in AllocOps, call[v].o = x PROVE Born
  <2>1. Claims(v) \/ call[v].op = "AllocConnect"
    BY <1>2 DEF Claims, Named, ConnectOps, CloseOps, AllocOps
  <2> QED BY <1>2, <2>1 DEF LongInv, ThreadsGood, OtherIsGood, Uses, AllocOps
<1>3. ASSUME call[v].at = "table", call[v].op \in ConnectOps, call[v].h = x PROVE Born
  <2>1. Named(v) /\ Claims(v) /\ ~Left(v, x)
    BY <1>3 DEF Claims, Named, ConnectOps, CloseOps, Left
  <2>2. call[v].h = call[v].c
    BY <1>3, <2>1 DEF LongInv, ThreadsGood, HandleIsGood, OfStmt, ConnectOps
  <2> QED BY <1>3, <2>1, <2>2 DEF LongInv, ThreadsGood, HandleIsGood, Uses
<1>4. ASSUME call[v].at = "cmdtable", call[v].o = x PROVE Born
  <2>1. call[v].op \in ConnectOps
    BY <1>4 DEF LongInv, Places
  <2>2. Claims(v) /\ call[v].op \in Aggregates
    BY <1>4, <2>1 DEF Claims, Named, ConnectOps, CloseOps, Aggregates
  <2> QED BY <1>4, <2>2 DEF LongInv, ThreadsGood, OtherIsGood, Uses, Db2Alive
<1>5. Born
  BY <1>2, <1>3, <1>4 DEF New
<1>6. table[x].hstmt = 0 /\ ~db2[x].connected
  BY <1>5, SlotTypes DEF LongInv, Filing
<1> QED BY <1>1, <1>5, <1>6

LEMMA FiledFacts ==
  ASSUME LongInv, NEW x \in Slots, table[x].hstmt # 0
  PROVE  /\ x \in HandleNums /\ table[x].hstmt = x /\ table[x].thread_init
         /\ table[x].hdbc \in HandleNums /\ table[x].hdbc \in Slots
         /\ table[table[x].hdbc].hstmt = table[x].hdbc
         /\ table[table[x].hdbc].hdbc = table[x].hdbc
         /\ \A v \in Threads : ~New(v, x)
         /\ (Db2Alive(db2, x) \/ \A v \in Threads : ~Left(v, x)) =>
              Db2Alive(db2, x) /\ db2[x].parent = table[x].hdbc
<1>1. SlotOK(x)
  BY DEF LongInv, Filing
<1>2. table[x].hdbc \in HandleNums /\ table[x].hdbc \in Slots
  BY <1>1, SlotTypes DEF SlotOK
<1>3. SlotOK(table[x].hdbc)
  BY <1>2 DEF LongInv, Filing
<1>4. Db2Alive(db2, x) => \A v \in Threads : ~Left(v, x)
  BY LeftFacts
<1>5. \A v \in Threads : ~New(v, x)
  BY NewFacts
<1> QED BY <1>1, <1>2, <1>3, <1>4, <1>5 DEF SlotOK

LEMMA UsableFacts ==
  ASSUME LongInv, NEW x, Usable(x)
  PROVE  /\ x \in Slots
         /\ table[x].hstmt = x /\ table[x].hdbc = db2[x].parent
         /\ Usable(db2[x].parent)
         /\ db2[x].kind = "dbc" <=> db2[x].parent = x
         /\ db2[x].kind = "stmt" <=> db2[x].parent # x
         /\ table[x].thread_init /\ table[db2[x].parent].thread_init
         /\ \A v \in Threads : ~New(v, x) /\ ~Left(v, x)
<1>1. x \in Slots /\ table[x].hstmt # 0 /\ Db2Alive(db2, x) /\ TypeOK /\ Tree
  BY SlotTypes DEF Usable, LongInv
<1>2. /\ table[x].hstmt = x /\ table[x].thread_init
      /\ table[x].hdbc = db2[x].parent
      /\ table[x].hdbc \in HandleNums /\ table[x].hdbc \in Slots
      /\ table[table[x].hdbc].hstmt = table[x].hdbc
      /\ \A v \in Threads : ~New(v, x)
  BY <1>1, FiledFacts
<1>3. table[table[x].hdbc].hstmt # 0
  BY <1>2 DEF HandleNums
<1>4. table[table[x].hdbc].thread_init
  BY <1>2, <1>3, FiledFacts
<1>5. \A v \in Threads : ~Left(v, x)
  BY <1>1, LeftFacts
<1> QED BY <1>1, <1>2, <1>3, <1>4, <1>5, TreeFacts DEF Usable

LEMMA ClaimFacts ==
  ASSUME LongInv, NEW u \in Threads, Claims(u)
  PROVE  /\ call[u].h \in HandleNums /\ call[u].c \in HandleNums
         /\ call[u].h \in Slots /\ call[u].c \in Slots
         /\ call[u].op \in OfStmt <=> call[u].h # call[u].c
         /\ Owns(u) => call[u].h = call[u].c
         /\ Drops(u) => call[u].h # call[u].c
         /\ call[u].at # "byetable" /\ ~Left(u, call[u].h) =>
              Db2Alive(db2, call[u].h) /\ db2[call[u].h].parent = call[u].c
         /\ Left(u, call[u].h) => ~Db2Alive(db2, call[u].h)
         /\ call[u].at \in {"bye", "byelock", "byetable"} => table[call[u].h].hstmt = 0
         /\ table[call[u].h].hstmt # 0 => table[call[u].h].hdbc = call[u].c
         /\ call[u].op \in OfStmt => table[call[u].h].hstmt # 0 /\ call[u].at # "byetable"
<1> USE DEF OfStmt, ConnectOps, CloseOps, ReleaseOps, Aggregates
<1>1. HandleIsGood(u) /\ Named(u)
  BY DEF LongInv, ThreadsGood, Claims
<1>2. call[u].h \in HandleNums /\ call[u].c \in HandleNums
  BY <1>1 DEF HandleIsGood
<1>3. call[u].op \in OfStmt <=> call[u].h # call[u].c
  BY <1>1 DEF HandleIsGood
<1>4. Owns(u) => call[u].op \notin OfStmt
  BY DEF Owns, Opens
<1>5. Drops(u) => call[u].op \in OfStmt
  BY DEF Drops
<1>6. ~(call[u].at \in {"bye", "byelock", "byetable"}) \/ call[u].op \in CloseOps
  BY DEF LongInv, Places
<1>7. call[u].at = "table" /\ call[u].op \in ConnectOps => table[call[u].h].hstmt = 0
  <2> SUFFICES ASSUME call[u].at = "table", call[u].op \in ConnectOps
               PROVE  table[call[u].h].hstmt = 0
    OBVIOUS
  <2>1. New(u, call[u].h)
    BY DEF New
  <2> QED BY <2>1, NewFacts
<1>8. /\ call[u].at \in {"bye", "byelock", "byetable"} => table[call[u].h].hstmt = 0
      /\ table[call[u].h].hstmt # 0 => table[call[u].h].hdbc = call[u].c
  BY <1>1, <1>7 DEF HandleIsGood
<1>9. call[u].op \in OfStmt => table[call[u].h].hstmt # 0 /\ call[u].at # "byetable"
  BY <1>1, <1>6 DEF HandleIsGood
<1>10. /\ call[u].at # "byetable" /\ ~Left(u, call[u].h) =>
            Db2Alive(db2, call[u].h) /\ db2[call[u].h].parent = call[u].c
       /\ Left(u, call[u].h) => ~Db2Alive(db2, call[u].h)
  BY <1>1 DEF HandleIsGood
<1> QED BY <1>2, <1>3, <1>4, <1>5, <1>8, <1>9, <1>10, SlotTypes

\* The other handle of a call that is neither new nor released.
LEMMA OtherFacts ==
  ASSUME LongInv, NEW u \in Threads, call[u].at \in {"cmdtable", "cmd", "free", "freed"}
  PROVE  /\ Claims(u) /\ (Owns(u) \/ Commands(u))
         /\ call[u].h = call[u].c /\ call[u].h \in Slots /\ UnderLock(u)
         /\ call[u].o \in HandleNums /\ call[u].o \in Slots
         /\ call[u].o # call[u].h
         /\ call[u].at # "freed" => /\ db2[call[u].o].kind = "stmt" /\ Db2Alive(db2, call[u].o)
                                    /\ db2[call[u].o].parent = call[u].h
                                    /\ db2[call[u].h].connected
         /\ call[u].at # "cmdtable" => /\ table[call[u].o].hstmt # 0
                                       /\ table[call[u].o].hdbc = call[u].h
<1>1. call[u].op \in Aggregates
  BY DEF LongInv, Places, Aggregates
<1>2. /\ Claims(u) /\ (Owns(u) \/ Commands(u)) /\ UnderLock(u)
      /\ call[u].h = call[u].c /\ call[u].h \in Slots
  <2>1. Claims(u) /\ (Owns(u) \/ Commands(u)) /\ UnderLock(u)
    BY <1>1 DEF Owns, Opens, Commands, Claims, Named, UnderLock, Aggregates, ConnectOps, CloseOps
  <2>2. call[u].op \notin OfStmt
    BY <1>1 DEF Aggregates, ConnectOps, CloseOps, OfStmt
  <2> QED BY <2>1, <2>2, ClaimFacts
<1>3. OtherIsGood(u) /\ TypeOK /\ Tree
  BY DEF LongInv, ThreadsGood
<1>4. call[u].o \in HandleNums /\ call[u].o \in Slots
  BY <1>3, SlotTypes DEF OtherIsGood
<1>5. call[u].at # "freed" => /\ db2[call[u].o].kind = "stmt" /\ Db2Alive(db2, call[u].o)
                              /\ db2[call[u].o].parent = call[u].h
  BY <1>3 DEF OtherIsGood, Db2Alive
<1>6. call[u].at # "freed" => call[u].o # call[u].h /\ db2[call[u].h].connected
  BY <1>3, <1>4, <1>5, TreeFacts
<1>7. call[u].at # "cmdtable" => table[call[u].o].hstmt # 0
  BY <1>3 DEF OtherIsGood
<1>8. call[u].at \in {"cmd", "free"} => table[call[u].o].hdbc = call[u].h
  BY <1>4, <1>5, <1>7, FiledFacts
<1> QED BY <1>2, <1>3, <1>4, <1>5, <1>6, <1>7, <1>8 DEF OtherIsGood

-----------------------------------------------------------------------------
(* What a thread may change is nobody else's                                 *)

\* A handle of the connection a thread owns, the statement it drops, the one it
\* has just allocated.
Mine(t, y) ==
  \/ Owns(t) /\ (y = call[t].h \/ (table[y].hstmt # 0 /\ table[y].hdbc = call[t].h))
  \/ Drops(t) /\ y = call[t].h
  \/ Commands(t) /\ y = call[t].o
  \/ New(t, y)

LEMMA OwnsAlone ==
  ASSUME LongInv, NEW t \in Threads, NEW u \in Threads, t # u, Owns(t)
  PROVE  ~Uses(u, call[t].h) /\ call[t].h \notin known
<1> DEFINE h == call[t].h
<1>1. Claims(t) /\ h = call[t].c /\ h \in Slots
  BY ClaimFacts DEF Owns, Opens
<1>2. ASSUME Claims(u), call[u].h = h PROVE FALSE
  <2>1. call[u].c # h
    BY <1>2 DEF LongInv, Alone
  <2>2. table[h].hstmt # 0 /\ call[u].op \in OfStmt /\ call[u].at # "byetable"
    BY <1>2, <2>1, ClaimFacts
  <2>3. table[h].hdbc = call[u].c /\ table[h].hdbc = call[t].c
    BY <1>1, <1>2, <2>2, ClaimFacts
  <2> QED BY <1>1, <2>1, <2>3
<1>3. ASSUME call[u].at \in {"cmd", "free", "freed"}, call[u].o = h PROVE FALSE
  <2>1. table[h].hstmt # 0 /\ table[h].hdbc = call[u].h /\ h # call[u].h
    BY <1>3, OtherFacts
  <2>2. table[h].hdbc = h
    BY <1>1, <2>1, ClaimFacts
  <2> QED BY <2>1, <2>2
<1>4. ~New(u, h)
  BY <1>1 DEF LongInv, Alone
<1>5. ~Uses(u, h)
  BY <1>2, <1>3, <1>4 DEF Uses, New
<1>6. ASSUME h \in known PROVE FALSE
  <2>1. Usable(h)
    BY <1>6 DEF LongInv, KnownGood
  <2>2. table[h].hdbc = db2[h].parent
    BY <2>1, UsableFacts
  <2>3. table[h].hdbc = h
    BY <1>1, <2>1, ClaimFacts DEF Usable
  <2> QED BY <1>6, <2>2, <2>3 DEF LongInv, TakenBack
<1> QED BY <1>5, <1>6

LEMMA OwnsFiled ==
  ASSUME LongInv, NEW t \in Threads, NEW u \in Threads, t # u, Owns(t),
         NEW y \in Slots, table[y].hstmt # 0, table[y].hdbc = call[t].h
  PROVE  ~Uses(u, y) /\ y \notin known
<1>1. ASSUME Claims(u), call[u].h = y PROVE FALSE
  <2>1. table[y].hdbc = call[u].c
    BY <1>1, ClaimFacts
  <2> QED BY <1>1, <2>1 DEF LongInv, Alone
<1>2. ASSUME call[u].at \in {"cmd", "free", "freed"}, call[u].o = y PROVE FALSE
  <2>1. Claims(u) /\ table[y].hdbc = call[u].h
    BY <1>2, OtherFacts
  <2>2. call[u].h = call[u].c
    BY <1>2, OtherFacts, ClaimFacts
  <2> QED BY <2>1, <2>2 DEF LongInv, Alone
<1>3. ~New(u, y)
  BY NewFacts
<1>4. ~Uses(u, y)
  BY <1>1, <1>2, <1>3 DEF Uses, New
<1>5. ASSUME y \in known PROVE FALSE
  <2>1. Usable(y)
    BY <1>5 DEF LongInv, KnownGood
  <2>2. db2[y].parent = call[t].h
    BY <2>1, UsableFacts
  <2> QED BY <1>5, <2>2 DEF LongInv, TakenBack
<1> QED BY <1>4, <1>5

LEMMA DropsAlone ==
  ASSUME LongInv, NEW t \in Threads, NEW u \in Threads, t # u, Drops(t)
  PROVE  ~Uses(u, call[t].h) /\ call[t].h \notin known
<1> DEFINE h == call[t].h
<1>1. Claims(t)
  BY DEF Drops, Claims, Named, ConnectOps, CloseOps
<1>2. table[h].hstmt # 0 /\ table[h].hdbc = call[t].c
  BY <1>1, ClaimFacts DEF Drops, OfStmt
<1>3. ASSUME Claims(u), call[u].h = h PROVE FALSE
  BY <1>3 DEF LongInv, Alone
<1>4. ASSUME call[u].at \in {"cmd", "free", "freed"}, call[u].o = h PROVE FALSE
  <2>1. (Owns(u) \/ Commands(u)) /\ table[h].hdbc = call[u].h
    BY <1>4, OtherFacts
  <2> QED BY <1>1, <1>2, <1>4, <2>1 DEF LongInv, Alone
<1>5. ~New(u, h)
  BY <1>1 DEF LongInv, Alone
<1>6. ~Uses(u, h)
  BY <1>3, <1>4, <1>5 DEF Uses, New
<1> QED BY <1>6 DEF LongInv, TakenBack

LEMMA OneUnderLock ==
  ASSUME LongInv, NEW t \in Threads, NEW u \in Threads, t # u, UnderLock(t), UnderLock(u)
  PROVE  call[t].c # call[u].c
<1>1. mutex[call[t].c] = Held(t) /\ mutex[call[u].c] = Held(u)
  BY DEF LongInv, Sections
<1>2. Held(t).owner = t /\ Held(u).owner = u
  BY DEF Held
<1> QED BY <1>1, <1>2

LEMMA CommandsAlone ==
  ASSUME LongInv, NEW t \in Threads, NEW u \in Threads, t # u, Commands(t)
  PROVE  ~Uses(u, call[t].o) /\ call[t].o \notin known
<1> DEFINE o == call[t].o
<1>1. /\ call[t].h = call[t].c /\ UnderLock(t) /\ o \in Slots
      /\ call[t].at # "cmdtable" => table[o].hstmt # 0 /\ table[o].hdbc = call[t].h
  BY OtherFacts DEF Commands
<1>2. call[t].at = "cmdtable" => New(t, o)
  BY DEF New
<1>3. ASSUME Claims(u), call[u].h = o PROVE FALSE
  BY <1>3 DEF LongInv, Alone
<1>4. ~New(u, o)
  BY <1>1, <1>2, NewFacts
<1>5. ASSUME call[u].at \in {"cmd", "free", "freed"}, call[u].o = o PROVE FALSE
  <2>1. /\ call[u].h = call[u].c /\ UnderLock(u)
        /\ table[o].hstmt # 0 /\ table[o].hdbc = call[u].h
    BY <1>5, OtherFacts
  <2>2. call[t].at # "cmdtable"
    BY <1>2, <2>1, NewFacts
  <2> QED BY <1>1, <2>1, <2>2, OneUnderLock
<1>6. ~Uses(u, o)
  BY <1>3, <1>4, <1>5 DEF Uses, New
<1> QED BY <1>6 DEF LongInv, TakenBack

LEMMA Apart ==
  ASSUME LongInv, NEW t \in Threads, NEW u \in Threads, t # u, NEW y \in Slots, Mine(t, y)
  PROVE  ~Uses(u, y) /\ y \notin known
<1>1. CASE New(t, y)
  <2>1. table[y].hstmt = 0 /\ glock = t
    BY <1>1, NewFacts
  <2>2. ~(Claims(u) /\ call[u].h = y)
    BY <1>1 DEF LongInv, Alone
  <2>3. call[u].at \notin {"table", "cmdtable", "freed"}
    BY <2>1 DEF LongInv, TableOwner, AtTable
  <2>4. ~Uses(u, y)
    BY <2>1, <2>2, <2>3, OtherFacts DEF Uses
  <2> QED BY <2>1, <2>4 DEF LongInv, KnownGood, Usable
<1> QED BY <1>1, OwnsAlone, OwnsFiled, DropsAlone, CommandsAlone DEF Mine

\* While nobody updates the table, the same of DB2's handles.
LEMMA FreeLock ==
  ASSUME LongInv, glock = NoThread
  PROVE  /\ \A u \in Threads : call[u].at \notin AtTable
         /\ \A u \in Threads, x \in Slots : ~New(u, x) /\ ~Left(u, x)
         /\ \A u \in Threads : Claims(u) =>
              /\ Db2Alive(db2, call[u].h) /\ db2[call[u].h].parent = call[u].c
              /\ Db2Alive(db2, call[u].c)
         /\ \A u \in Threads, x \in Slots : Uses(u, x) =>
              /\ Db2Alive(db2, x)
              /\ db2[x].parent = IF x = call[u].h THEN call[u].c ELSE call[u].h
              /\ Claims(u)
         /\ \A x \in Slots : table[x].hstmt # 0 =>
              Db2Alive(db2, x) /\ db2[x].parent = table[x].hdbc
<1>1. \A u \in Threads : call[u].at \notin AtTable
  BY TableAssumption DEF LongInv, TableOwner
<1>2. \A u \in Threads, x \in Slots : ~New(u, x) /\ ~Left(u, x)
  BY <1>1 DEF AtTable, New, Left
<1>3. \A u \in Threads : Claims(u) =>
              /\ Db2Alive(db2, call[u].h) /\ db2[call[u].h].parent = call[u].c
              /\ Db2Alive(db2, call[u].c)
  <2> SUFFICES ASSUME NEW u \in Threads, Claims(u)
               PROVE  /\ Db2Alive(db2, call[u].h) /\ db2[call[u].h].parent = call[u].c
                      /\ Db2Alive(db2, call[u].c)
    OBVIOUS
  <2>1. call[u].at # "byetable" /\ ~Left(u, call[u].h) /\ call[u].h \in Slots
    BY <1>1, <1>2, ClaimFacts DEF AtTable
  <2>2. Db2Alive(db2, call[u].h) /\ db2[call[u].h].parent = call[u].c
    BY <2>1, ClaimFacts
  <2> QED BY <2>1, <2>2, TreeFacts DEF LongInv
<1>4. \A u \in Threads, x \in Slots : Uses(u, x) =>
              /\ Db2Alive(db2, x)
              /\ db2[x].parent = IF x = call[u].h THEN call[u].c ELSE call[u].h
              /\ Claims(u)
  <2> SUFFICES ASSUME NEW u \in Threads, NEW x \in Slots, Uses(u, x)
               PROVE  /\ Db2Alive(db2, x)
                      /\ db2[x].parent = IF x = call[u].h THEN call[u].c ELSE call[u].h
                      /\ Claims(u)
    OBVIOUS
  <2>1. CASE Claims(u) /\ x = call[u].h
    BY <1>3, <2>1
  <2>2. CASE call[u].at \in {"cmd", "free"} /\ x = call[u].o
    BY <2>2, OtherFacts
  <2> QED BY <1>1, <2>1, <2>2 DEF Uses, AtTable
<1>5. \A x \in Slots : table[x].hstmt # 0 => Db2Alive(db2, x) /\ db2[x].parent = table[x].hdbc
  BY <1>2, FiledFacts
<1> QED BY <1>1, <1>2, <1>3, <1>4, <1>5

LEMMA OwnsInDb2 ==
  ASSUME LongInv, glock = NoThread, NEW t \in Threads, NEW u \in Threads, t # u, Owns(t),
         NEW y \in Slots, db2[y].parent = call[t].h
  PROVE  ~Uses(u, y) /\ y \notin known
<1>1. ASSUME Uses(u, y) PROVE FALSE
  <2>1. /\ Claims(u)
        /\ db2[y].parent = IF y = call[u].h THEN call[u].c ELSE call[u].h
    BY <1>1, FreeLock
  <2>2. y # call[u].h => call[u].h = call[u].c
    BY <1>1, OtherFacts, FreeLock, ClaimFacts DEF Uses, AtTable
  <2> QED BY <2>1, <2>2 DEF LongInv, Alone
<1> QED BY <1>1 DEF LongInv, TakenBack

-----------------------------------------------------------------------------
(* A thread that does not move                                               *)

Untouched(x) ==
  /\ table'[x].hstmt = table[x].hstmt
  /\ table'[x].hdbc = table[x].hdbc
  /\ table'[x].hKey = table[x].hKey
  /\ db2'[x].kind = db2[x].kind
  /\ db2'[x].parent = db2[x].parent
  /\ db2[x].connected => db2'[x].connected

\* What a step of t leaves alone, and the connection and key it may add.
Frame(t) ==
  /\ Others(t)
  /\ \A u \in Threads \ {t}, x \in Slots : Uses(u, x) => Untouched(x)
  /\ \A x \in known : Untouched(x)
  /\ \A x \in Slots : db2'[x].connected =>
       db2[x].connected \/ (Claims(t) /\ x = call[t].c)
  /\ \A x \in Slots :
       \/ table'[x].hKey \in {table[x].hKey, NoKey}
       \/ call[t].op = "SQL400pConnect" /\ table'[x].hKey = call[t].key

LEMMA Unmoved ==
  ASSUME NEW u \in Threads, call'[u] = call[u]
  PROVE  /\ Named(u)' <=> Named(u)
         /\ Claims(u)' <=> Claims(u)
         /\ Drops(u)' <=> Drops(u)
         /\ (Opens(u)' <=> Opens(u)) /\ (Commands(u)' <=> Commands(u))
         /\ \A x : New(u, x)' <=> New(u, x)
         /\ \A x : Left(u, x)' <=> Left(u, x)
         /\ UnderLock(u)' <=> UnderLock(u)
BY DEF Named, Claims, Drops, Opens, Commands, New, Left, UnderLock

LEMMA UnmovedGood ==
  ASSUME LongInv, NEW t \in Threads, Frame(t), NEW u \in Threads, u # t
  PROVE  Good(u)' /\ (Owns(u)' <=> Owns(u))
<1>1. call'[u] = call[u]
  BY DEF Frame, Others
<1>2. \A x \in Slots : Uses(u, x) => Untouched(x)
  BY DEF Frame
<1>3. call[u].h \in Slots /\ call[u].o \in Slots /\ HandleIsGood(u) /\ OtherIsGood(u) /\ StateIsGood(u)
  BY DEF LongInv, TypeOK, Call, ThreadsGood
<1>4. Claims(u) => Untouched(call[u].h)
  BY <1>2, <1>3 DEF Uses
<1>5. /\ call[u].at \in {"cmdtable", "cmd", "free", "freed"} => Untouched(call[u].o)
      /\ call[u].at = "table" /\ call[u].op \in AllocOps => Untouched(call[u].o)
  BY <1>2, <1>3 DEF Uses
<1>6. Owns(u)' <=> Owns(u)
  BY <1>1, <1>4, Unmoved DEF Owns, Opens, Untouched
<1>7. Places
  BY DEF LongInv
<1>8. Left(u, call[u].h) => Claims(u)
  <2>1. Left(u, call[u].h) => Uses(u, call[u].h)
    BY LeftFacts
  <2>2. call[u].at \in {"cmdtable", "cmd", "free", "freed"} => Claims(u)
    BY OtherFacts
  <2> QED BY <2>1, <2>2 DEF Uses, Left, AllocOps
<1>9. call[u].at \in {"bye", "byelock", "byetable"} => Claims(u)
  BY <1>7 DEF Places, Claims, Named, ConnectOps, CloseOps
<1>10. HandleIsGood(u)'
  BY <1>1, <1>3, <1>4, <1>8, <1>9, Unmoved DEF HandleIsGood, Untouched, Db2Alive
<1>11. OtherIsGood(u)'
  BY <1>1, <1>3, <1>5 DEF OtherIsGood, Untouched, Db2Alive
<1>12. StateIsGood(u)'
  <2>1. Named(u) /\ call[u].op = "FreeConnect" => ~db2'[call[u].h].connected
    <3> SUFFICES ASSUME Named(u), call[u].op = "FreeConnect" PROVE ~db2'[call[u].h].connected
      OBVIOUS
    <3>1. Claims(u) /\ ~db2[call[u].h].connected
      BY <1>3 DEF StateIsGood, Claims, CloseOps
    <3>2. Owns(u)
      <4>1. table[call[u].h].hKey = NoKey
        BY <1>3, <3>1 DEF LongInv, Keyed
      <4> QED BY <3>1, <4>1 DEF Owns, Opens, ReleaseOps
    <3>3. Claims(t) => call[t].c # call[u].h
      BY <3>2 DEF LongInv, Alone
    <3> QED BY <1>3, <3>1, <3>3 DEF Frame
  <2>2. Named(u) /\ call[u].op \in ReleaseOps => Claims(u)
    BY DEF Claims, CloseOps, ReleaseOps
  <2>3. /\ call[u].op \in ConnectOps
        /\ call[u].at \in {"addhash", "setup", "cmdtable", "cmd", "free", "freed", "unlock"}
        => Claims(u)
    BY DEF Claims, Named, CloseOps, ConnectOps
  <2>5. call[u].op \in CloseOps /\ call[u].at \in {"stmts", "free", "freed", "dtor"} => Claims(u)
    BY DEF Claims, Named, CloseOps, ConnectOps
  <2>6. Claims(u) => table'[call[u].h].hKey = table[call[u].h].hKey
    BY <1>4 DEF Untouched
  <2>7. Claims(u) /\ db2[call[u].h].connected => db2'[call[u].h].connected
    BY <1>4 DEF Untouched
  <2> QED BY <1>1, <1>3, <2>1, <2>2, <2>3, <2>5, <2>6, <2>7, Unmoved DEF StateIsGood
<1> QED BY <1>6, <1>10, <1>11, <1>12 DEF Good

-----------------------------------------------------------------------------
(* The assembly of a step                                                    *)

PlaceOK(t) ==
  \/ call[t].at = "idle"
  \/ call[t].at = "check" /\ call[t].op \in ReleaseOps
  \/ call[t].at \in {"want", "db2"} /\ call[t].op \in LockOps \cup Aggregates
  \/ call[t].at = "bare" /\ call[t].op = "EndTran"
  \/ /\ call[t].at \in {"glock", "table"}
     /\ call[t].op \in AllocOps \cup {"FreeStmtDrop", "FreeConnect"} \cup ConnectOps
  \/ call[t].at \in {"lookup", "addhash"} /\ call[t].op = "SQL400pConnect"
  \/ call[t].at \in {"setup", "cmdtable", "cmd"} /\ call[t].op \in ConnectOps
  \/ call[t].at \in {"stmts", "dtor", "bye", "byelock", "byetable"} /\ call[t].op \in CloseOps
  \/ call[t].at \in {"free", "freed", "unlock"} /\ call[t].op \in Aggregates

\* The global lock is taken by a step into an update of the table and released by
\* the step out of it.
LockMoves(t) ==
  \/ glock' = glock /\ (call[t].at \in AtTable <=> call'[t].at \in AtTable)
  \/ glock = NoThread /\ glock' = t /\ call'[t].at \in AtTable
  \/ call[t].at \in AtTable /\ glock' = NoThread /\ call'[t].at \notin AtTable

\* Handing x to the clients disturbs no release in flight.
MayHandOut(t, x) ==
  \A u \in Threads \ {t} :
    /\ Owns(u) => db2'[x].parent # call[u].h
    /\ Drops(u) => x # call[u].h
    /\ Commands(u) => x # call[u].o

LEMMA StepKeeps ==
  ASSUME LongInv, TypeOK', NEW t \in Threads, Frame(t), World', Sections', KeysApart',
         PlaceOK(t)', LockMoves(t), Good(t)', Alone', TakenBack',
         \A x \in known' \ known : Usable(x)'
  PROVE  LongInv'
<1>1. Places'
  <2>1. ASSUME NEW u \in Threads, u # t PROVE PlaceOK(u)'
    BY <2>1 DEF LongInv, Places, PlaceOK, Frame, Others
  <2>2. \A u \in Threads : PlaceOK(u)'
    BY <2>1
  <2> QED BY <2>2 DEF Places, PlaceOK
<1>2. TableOwner'
  <2>1. \A u \in Threads : glock = u <=> call[u].at \in AtTable
    BY DEF LongInv, TableOwner
  <2>2. \A u \in Threads \ {t} : call'[u] = call[u]
    BY DEF Frame, Others
  <2> QED BY <2>1, <2>2, TableAssumption DEF TableOwner, LockMoves
<1>3. ThreadsGood'
  <2>1. \A u \in Threads : Good(u)'
    BY UnmovedGood
  <2> QED BY <2>1 DEF ThreadsGood, Good
<1>4. KnownGood'
  <2>1. ASSUME NEW x \in known PROVE Usable(x)'
    BY <2>1, SlotTypes DEF LongInv, KnownGood, Usable, Frame, Untouched, Db2Alive
  <2> QED BY <2>1 DEF KnownGood
<1> QED BY <1>1, <1>2, <1>3, <1>4 DEF LongInv, World

LEMMA StillCommands ==
  ASSUME LongInv, NEW t \in Threads, Commands(t)
  PROVE  /\ call[t].o \notin known
         /\ \A u \in Threads \ {t} : Claims(u) => call[u].h # call[t].o
BY DEF LongInv, Alone, TakenBack

\* A step that adds no claim.
LEMMA PairsKept ==
  ASSUME LongInv, NEW t \in Threads, Frame(t),
         Claims(t)' => Claims(t) /\ call'[t].h = call[t].h /\ call'[t].c = call[t].c,
         Owns(t)' => Owns(t),
         Drops(t)' => Drops(t),
         call'[t].op = "none" \/ (call'[t].op = call[t].op /\ call'[t].h = call[t].h),
         call'[t].op \in ConnectOps /\ call'[t].at \in {"cmdtable", "cmd", "free", "freed"} =>
           /\ known' \subseteq known /\ call'[t].o \notin known
           /\ \A u \in Threads \ {t} : Claims(u) => call[u].h # call'[t].o,
         \A u \in Threads \ {t} : Claims(u) => ~New(t, call[u].h)',
         \A x \in known' \ known : MayHandOut(t, x),
         Owns(t)' \/ Drops(t)' => known' \subseteq known
  PROVE  Alone' /\ TakenBack'
<1>1. \A u \in Threads \ {t} :
        /\ call'[u] = call[u]
        /\ Claims(u)' <=> Claims(u)
        /\ Owns(u)' <=> Owns(u)
        /\ Drops(u)' <=> Drops(u)
        /\ Commands(u)' <=> Commands(u)
        /\ \A x : New(u, x)' <=> New(u, x)
  BY Unmoved, UnmovedGood DEF Frame, Others
<1>2. Alone'
  <2>1. ASSUME NEW u \in Threads, NEW v \in Threads, u # v, Claims(v)'
        PROVE  /\ Owns(u)' => call'[v].c # call'[u].h
               /\ Claims(u)' /\ call'[u].op \in ReleaseOps /\ call'[v].op \in ConnectOps
                    => call'[v].c # call'[u].h
               /\ Drops(u)' => call'[v].h # call'[u].h
               /\ Commands(u)' => call'[v].h # call'[u].o
               /\ ~New(u, call[v].h)'
    <3>1. Claims(v) /\ call'[v].h = call[v].h /\ call'[v].c = call[v].c
      BY <1>1, <2>1
    <3>4. Claims(u)' /\ call'[u].op \in ReleaseOps /\ call'[v].op \in ConnectOps =>
            call'[v].c # call'[u].h
      <4> SUFFICES ASSUME Claims(u)', call'[u].op \in ReleaseOps, call'[v].op \in ConnectOps
                   PROVE  call'[v].c # call'[u].h
        OBVIOUS
      <4>1. /\ Claims(u) /\ call[u].op \in ReleaseOps /\ call'[u].h = call[u].h
            /\ call[v].op \in ConnectOps
        BY <1>1 DEF ReleaseOps, ConnectOps
      <4> QED BY <2>1, <3>1, <4>1 DEF LongInv, Alone
    <3>5. Commands(u)' => call'[v].h # call'[u].o
      <4>1. CASE u = t
        BY <2>1, <3>1, <4>1 DEF Commands
      <4>2. CASE u # t
        BY <1>1, <2>1, <3>1, <4>2 DEF LongInv, Alone
      <4> QED BY <4>1, <4>2
    <3>2. /\ Owns(u)' => Owns(u) /\ call'[u].h = call[u].h
          /\ Drops(u)' => Drops(u) /\ call'[u].h = call[u].h
      <4>1. CASE u = t
        <5>1. Owns(t)' \/ Drops(t)' => Claims(t)'
          BY DEF Owns, Opens, Drops, Claims, Named, CloseOps, ConnectOps
        <5> QED BY <4>1, <5>1
      <4> QED BY <1>1, <4>1
    <3>3. ~New(u, call[v].h)'
      <4>1. CASE u = t
        BY <2>1, <3>1, <4>1
      <4>2. CASE u # t
        <5>1. ~New(u, call[v].h)
          BY <2>1, <3>1 DEF LongInv, Alone
        <5> QED BY <1>1, <3>1, <4>2, <5>1 DEF New
      <4> QED BY <4>1, <4>2
    <3> QED BY <2>1, <3>1, <3>2, <3>3, <3>4, <3>5 DEF LongInv, Alone
  <2> QED BY <2>1 DEF Alone
<1>3. TakenBack'
  <2>1. ASSUME NEW u \in Threads
        PROVE  /\ Owns(u)' => \A x \in known' : db2'[x].parent # call'[u].h
               /\ Drops(u)' => call'[u].h \notin known'
               /\ Commands(u)' => call'[u].o \notin known'
    <3>1. \A x \in known : db2'[x].parent = db2[x].parent
      BY DEF Frame, Untouched
    <3>2. CASE u = t
      <4>1. Owns(t)' \/ Drops(t)' => Claims(t)' /\ known' \subseteq known
        BY DEF Owns, Opens, Drops, Claims, Named, CloseOps, ConnectOps
      <4>2. Commands(t)' => call'[t].o \notin known'
        BY DEF Commands
      <4> QED BY <3>1, <3>2, <4>1, <4>2 DEF LongInv, TakenBack
    <3>3. CASE u # t
      BY <1>1, <3>1, <3>3 DEF LongInv, TakenBack, MayHandOut
    <3> QED BY <3>2, <3>3
  <2> QED BY <2>1 DEF TakenBack
<1> QED BY <1>2, <1>3

LEMMA KeysKept ==
  ASSUME LongInv, NEW t \in Threads, Others(t),
         \/ call'[t].op = call[t].op /\ call'[t].key = call[t].key
         \/ call'[t].op \notin LongOps
  PROVE  KeysApart'
<1>1. ConnectOps \subseteq LongOps /\ CloseOps \subseteq LongOps
  BY DEF ConnectOps, CloseOps, LongOps
<1> QED BY <1>1 DEF LongInv, KeysApart, Others

-----------------------------------------------------------------------------
(* The table and DB2's handles after each kind of step                       *)

SameUpdates ==
  \A v \in Threads, y \in Slots : (New(v, y)' <=> New(v, y)) /\ (Left(v, y)' <=> Left(v, y))

\* Nothing is filed or released; a connection may be connected.
LEMMA QuietWorld ==
  ASSUME LongInv, TypeOK', SameMapping(table, table'), SameUpdates,
         \A x \in Slots : /\ db2'[x].kind = db2[x].kind /\ db2'[x].parent = db2[x].parent
                          /\ db2[x].connected => db2'[x].connected
                          /\ db2'[x].connected => db2[x].connected \/ \A v \in Threads : ~New(v, x)
  PROVE  World'
<1>1. \A x \in Slots : Db2Alive(db2, x)' <=> Db2Alive(db2, x)
  BY DEF Db2Alive
<1>2. \A x \in Slots : db2[x].parent \in Slots /\ table[x].hdbc \in Slots
  BY DEF LongInv, TypeOK, Db2Handle, Slot
<1>3. Tree'
  <2>1. ASSUME NEW h \in HandleNums, Db2Alive(db2, h)
        PROVE  /\ db2'[h].parent \in HandleNums
               /\ db2'[h].kind = "dbc" => db2'[h].parent = h
               /\ db2'[h].kind = "stmt" => /\ db2'[h].parent # h
                                           /\ db2'[db2'[h].parent].kind = "dbc"
                                           /\ db2'[db2'[h].parent].connected
    <3>1. h \in Slots /\ db2[h].parent \in Slots
      BY <1>2, SlotTypes
    <3>2. db2'[h].kind = db2[h].kind /\ db2'[h].parent = db2[h].parent
      BY <3>1
    <3>3. /\ db2'[db2[h].parent].kind = db2[db2[h].parent].kind
          /\ db2[db2[h].parent].connected => db2'[db2[h].parent].connected
      BY <3>1
    <3> QED BY <2>1, <3>2, <3>3 DEF LongInv, Tree, Db2Tree
  <2>2. \A x \in Slots : Db2Alive(db2, x)' => x \in HandleNums
    BY <1>1 DEF LongInv, Tree
  <2> QED BY <1>1, <2>1, <2>2, SlotTypes DEF Tree, Db2Tree
<1>4. Filing'
  <2>1. ASSUME NEW i \in Slots PROVE SlotOK(i)'
    <3>1. SlotOK(i) /\ db2[i].parent \in Slots /\ table[i].hdbc \in Slots
      BY <1>2 DEF LongInv, Filing
    <3>2. /\ table'[i].hstmt = table[i].hstmt /\ table'[i].hdbc = table[i].hdbc
          /\ table'[i].hKey = table[i].hKey /\ table'[i].thread_init = table[i].thread_init
          /\ table'[table[i].hdbc].hstmt = table[table[i].hdbc].hstmt
          /\ table'[table[i].hdbc].hdbc = table[table[i].hdbc].hdbc
          /\ table'[db2[i].parent].hstmt = table[db2[i].parent].hstmt
      BY <3>1 DEF SameMapping
    <3>3. \A v \in Threads : (New(v, i)' <=> New(v, i)) /\ (Left(v, i)' <=> Left(v, i))
      BY DEF SameUpdates
    <3>4. db2'[i].parent = db2[i].parent /\ (Db2Alive(db2, i)' <=> Db2Alive(db2, i))
      BY <1>1
    <3> QED BY <3>1, <3>2, <3>3, <3>4 DEF SlotOK
  <2>2. \A v \in Threads, x \in Slots : New(v, x)' => table'[x].hstmt = 0 /\ ~db2'[x].connected
    BY DEF LongInv, Filing, SameUpdates, SameMapping
  <2> QED BY <2>1, <2>2 DEF Filing
<1>5. Keyed'
  BY DEF LongInv, Keyed, SameMapping
<1> QED BY <1>3, <1>4, <1>5 DEF World

\* DB2 allocates a handle.
LEMMA NewWorld ==
  ASSUME LongInv, TypeOK', table' = table, glock = NoThread,
         NEW t \in Threads, NEW o \in HandleNums, ~Db2Alive(db2, o), NEW c \in HandleNums,
         \/ db2' = Db2NewDbc(db2, o)
         \/ db2' = Db2NewStmt(db2, o, c) /\ db2[c].kind = "dbc" /\ db2[c].connected,
         \A v \in Threads, y \in Slots : (New(v, y)' <=> v = t /\ y = o) /\ ~Left(v, y)'
  PROVE  World'
<1>1. o \in Slots /\ c \in Slots /\ table[o].hstmt = 0
  BY SlotTypes, FreeLock
<1>2. /\ Db2Alive(db2, o)' /\ ~db2'[o].connected
      /\ \A x \in Slots \ {o} : db2'[x] = db2[x]
      /\ \/ db2'[o].kind = "dbc" /\ db2'[o].parent = o
         \/ db2'[o].kind = "stmt" /\ db2'[o].parent = c /\ c # o
            /\ db2'[c].kind = "dbc" /\ db2'[c].connected
  BY <1>1 DEF Db2NewDbc, Db2NewStmt, Db2Alive, LongInv, TypeOK
<1>3. \A x \in Slots : Db2Alive(db2, x) =>
        /\ db2[x].parent \in HandleNums /\ db2[x].parent \in Slots /\ db2[x].parent # o
  BY TreeFacts DEF LongInv
<1>4. \A x \in Slots \ {o} : Db2Alive(db2, x)' <=> Db2Alive(db2, x)
  BY <1>2 DEF Db2Alive
<1>5. Tree'
  <2>1. ASSUME NEW h \in HandleNums, Db2Alive(db2, h)'
        PROVE  /\ db2'[h].parent \in HandleNums
               /\ db2'[h].kind = "dbc" => db2'[h].parent = h
               /\ db2'[h].kind = "stmt" => /\ db2'[h].parent # h
                                           /\ db2'[db2'[h].parent].kind = "dbc"
                                           /\ db2'[db2'[h].parent].connected
    <3>1. CASE h = o
      BY <1>2, <3>1
    <3>2. CASE h # o
      <4>1. h \in Slots /\ Db2Alive(db2, h) /\ db2'[h] = db2[h]
        BY <1>2, <1>4, <2>1, <3>2, SlotTypes
      <4>2. db2'[db2[h].parent] = db2[db2[h].parent]
        BY <1>2, <1>3, <4>1
      <4> QED BY <4>1, <4>2 DEF LongInv, Tree, Db2Tree
    <3> QED BY <3>1, <3>2
  <2>2. \A x \in Slots : Db2Alive(db2, x)' => x \in HandleNums
    BY <1>4 DEF LongInv, Tree
  <2> QED BY <2>1, <2>2 DEF Tree, Db2Tree
<1>6. Filing'
  <2>1. ASSUME NEW i \in Slots PROVE SlotOK(i)'
    <3>1. SlotOK(i) /\ (\A v \in Threads : ~Left(v, i) /\ ~New(v, i))
      BY FreeLock DEF LongInv, Filing
    <3>2. CASE i = o
      BY <1>1, <3>1, <3>2 DEF SlotOK
    <3>3. CASE i # o
      <4>1. db2'[i] = db2[i] /\ (Db2Alive(db2, i)' <=> Db2Alive(db2, i))
        BY <1>2, <1>4, <3>3
      <4> QED BY <3>1, <4>1 DEF SlotOK
    <3> QED BY <3>2, <3>3
  <2>2. \A v \in Threads, x \in Slots : New(v, x)' => table'[x].hstmt = 0 /\ ~db2'[x].connected
    BY <1>1, <1>2
  <2> QED BY <2>1, <2>2 DEF Filing
<1>7. Keyed'
  <2>1. \A h \in Slots : table[h].hKey # NoKey => h # o
    BY <1>1 DEF LongInv, Keyed
  <2> QED BY <1>2, <2>1 DEF LongInv, Keyed
<1> QED BY <1>5, <1>6, <1>7 DEF World

\* The table files it.
LEMMA CtorWorld ==
  ASSUME LongInv, TypeOK', db2' = db2, NEW t \in Threads, NEW x \in Slots, New(t, x),
         table' = Ctor(table, x, db2[x].parent),
         \A v \in Threads, y \in Slots : ~New(v, y)' /\ ~Left(v, y)'
  PROVE  World' /\ Usable(x)'
<1> DEFINE c == db2[x].parent
<1>1. /\ x \in HandleNums /\ Db2Alive(db2, x) /\ ~db2[x].connected
      /\ table[x].hstmt = 0 /\ glock = t
      /\ \/ c = x
         \/ Claims(t) /\ c = call[t].h /\ call[t].op \in Aggregates \cup {"AllocStmt"}
  BY NewFacts
<1>2. c \in HandleNums /\ c \in Slots /\ (c # x => db2[c].connected /\ db2[x].kind = "stmt")
  BY <1>1, TreeFacts DEF LongInv
<1>3. /\ table'[x].hstmt = x /\ table'[x].hdbc = c /\ table'[x].hKey = NoKey
      /\ table'[x].thread_init
      /\ \A i \in Slots \ {x} : table'[i] = table[i]
  <2>1. table \in [Slots -> Slot]
    BY DEF LongInv, TypeOK
  <2>2. table'[x].hKey = NoKey
    BY <2>1 DEF Ctor
  <2> QED BY <1>1, <1>2, <2>1, <2>2, CtorFacts
<1>4. x # 0
  BY <1>1 DEF HandleNums
<1>5. ASSUME c # x PROVE table[c].hstmt # 0 /\ table[c].hdbc = c
  <2>1. Claims(t) /\ c = call[t].h /\ call[t].at \in {"table", "cmdtable"}
    BY <1>1, <1>5 DEF New
  <2>2. call[t].op \notin OfStmt /\ ~(call[t].at = "table" /\ call[t].op \in ConnectOps)
    BY <1>1, <1>5, <2>1 DEF New, OfStmt, Aggregates, ConnectOps, CloseOps, AllocOps
  <2>3. table[c].hstmt # 0 /\ table[c].hdbc = call[t].c
    BY <2>1, <2>2 DEF LongInv, ThreadsGood, HandleIsGood
  <2> QED BY <2>1, <2>2, <2>3, ClaimFacts
<1>6. \A i \in Slots \ {x} : Db2Alive(db2, i) => db2[i].parent # x
  BY <1>1, TreeFacts DEF LongInv, Db2Alive, TypeOK, Db2Handle
<1>7. \A v \in Threads, i \in Slots : i # x => ~New(v, i)
  <2> SUFFICES ASSUME NEW v \in Threads, NEW i \in Slots, i # x, New(v, i) PROVE FALSE
    OBVIOUS
  <2>1. v = t
    BY <1>1, NewFacts
  <2> QED BY <2>1 DEF New, AllocOps, ConnectOps
<1>8. \A v \in Threads, i \in Slots : ~Left(v, i)
  <2> SUFFICES ASSUME NEW v \in Threads, NEW i \in Slots, Left(v, i) PROVE FALSE
    OBVIOUS
  <2>1. v = t
    BY <1>1, LeftFacts
  <2> QED BY <2>1 DEF New, Left, AllocOps, ConnectOps
<1>9. Filing'
  <2>1. ASSUME NEW i \in Slots PROVE SlotOK(i)'
    <3>1. SlotOK(i)
      BY DEF LongInv, Filing
    <3>2. CASE i = x
      BY <1>1, <1>2, <1>3, <1>4, <1>5, <3>2 DEF SlotOK
    <3>3. CASE i # x
      <4>1. table'[i] = table[i]
        BY <1>3, <3>3
      <4>2. table[i].hstmt # 0 => table[i].hdbc \in Slots \ {x}
        BY <1>1, <3>1, SlotTypes DEF SlotOK
      <4>3. table[i].hstmt # 0 => table'[table[i].hdbc] = table[table[i].hdbc]
        BY <1>3, <4>2
      <4>4. Db2Alive(db2, i) => table'[db2[i].parent] = table[db2[i].parent]
        BY <1>3, <1>6, <3>3, TreeFacts DEF LongInv
      <4> QED BY <1>7, <1>8, <3>1, <3>3, <4>1, <4>3, <4>4 DEF SlotOK
    <3> QED BY <3>2, <3>3
  <2> QED BY <2>1 DEF Filing
<1>10. Keyed'
  BY <1>3 DEF LongInv, Keyed
<1>11. Tree'
  BY DEF LongInv, Tree, Db2Tree
<1>12. Usable(x)'
  BY <1>1, <1>3, <1>4 DEF Usable
<1> QED BY <1>9, <1>10, <1>11, <1>12 DEF World

\* DB2 frees a statement, or a connection that is not connected.
LEMMA FreeWorld ==
  ASSUME LongInv, TypeOK', table' = table, glock = NoThread,
         NEW t \in Threads, NEW x \in Slots, Db2Alive(db2, x),
         db2[x].kind = "dbc" => ~db2[x].connected,
         db2' = [db2 EXCEPT ![x] = Db2Free],
         \A v \in Threads, y \in Slots : ~New(v, y)' /\ (Left(v, y)' => y = x),
         table[x].hstmt # 0 => \E v \in Threads : Left(v, x)'
  PROVE  World'
<1>1. /\ ~Db2Alive(db2, x)' /\ ~db2'[x].connected
      /\ \A y \in Slots \ {x} : db2'[y] = db2[y]
  BY DEF Db2Free, Db2Alive, LongInv, TypeOK
<1>2. \A y \in Slots \ {x} : Db2Alive(db2, y)' <=> Db2Alive(db2, y)
  BY <1>1 DEF Db2Alive
<1>3. \A y \in Slots \ {x} : Db2Alive(db2, y) => db2[y].parent \in Slots \ {x}
  <2> SUFFICES ASSUME NEW y \in Slots \ {x}, Db2Alive(db2, y) PROVE db2[y].parent \in Slots \ {x}
    OBVIOUS
  <2>1. /\ db2[y].parent \in Slots /\ db2[db2[y].parent].kind = "dbc"
        /\ db2[y].parent # y => db2[db2[y].parent].connected
    BY TreeFacts DEF LongInv
  <2> QED BY <2>1
<1>4. Tree'
  <2>1. ASSUME NEW h \in HandleNums, Db2Alive(db2, h)'
        PROVE  /\ db2'[h].parent \in HandleNums
               /\ db2'[h].kind = "dbc" => db2'[h].parent = h
               /\ db2'[h].kind = "stmt" => /\ db2'[h].parent # h
                                           /\ db2'[db2'[h].parent].kind = "dbc"
                                           /\ db2'[db2'[h].parent].connected
    <3>1. h \in Slots \ {x} /\ Db2Alive(db2, h) /\ db2'[h] = db2[h]
      BY <1>1, <1>2, <2>1, SlotTypes
    <3>2. db2'[db2[h].parent] = db2[db2[h].parent]
      BY <1>1, <1>3, <3>1
    <3> QED BY <3>1, <3>2 DEF LongInv, Tree, Db2Tree
  <2>2. \A y \in Slots : Db2Alive(db2, y)' => y \in HandleNums
    BY <1>1, <1>2 DEF LongInv, Tree
  <2> QED BY <2>1, <2>2 DEF Tree, Db2Tree
<1>5. Filing'
  <2>1. ASSUME NEW i \in Slots PROVE SlotOK(i)'
    <3>1. SlotOK(i) /\ (\A v \in Threads : ~Left(v, i) /\ ~New(v, i))
      BY FreeLock DEF LongInv, Filing
    <3>2. CASE i = x
      BY <1>1, <3>1, <3>2 DEF SlotOK
    <3>3. CASE i # x
      <4>1. db2'[i] = db2[i] /\ (Db2Alive(db2, i)' <=> Db2Alive(db2, i))
        BY <1>1, <1>2, <3>3
      <4> QED BY <3>1, <4>1 DEF SlotOK
    <3> QED BY <3>2, <3>3
  <2> QED BY <2>1 DEF Filing
<1>6. Keyed'
  <2>1. \A h \in Slots : table[h].hKey # NoKey => h # x
    BY DEF LongInv, Keyed
  <2> QED BY <1>1, <2>1 DEF LongInv, Keyed
<1> QED BY <1>4, <1>5, <1>6 DEF World

\* The destructor takes what it is given and, from a connection, what is filed
\* under it.
LEMMA DtorCleared ==
  ASSUME LongInv, NEW h \in Slots, table[h].hstmt # 0
  PROVE  \A i \in Slots :
           /\ i = h \/ (table[h].hdbc = h /\ table[i].hstmt # 0 /\ table[i].hdbc = h) =>
                Dtor(table, h)[i].hstmt = 0 /\ Dtor(table, h)[i].hdbc = 0 /\ Dtor(table, h)[i].hKey = NoKey
           /\ ~(i = h \/ (table[h].hdbc = h /\ table[i].hstmt # 0 /\ table[i].hdbc = h)) =>
                Dtor(table, h)[i] = table[i]
<1>1. table[h].hstmt = h /\ table[h].hdbc \in Slots
  BY FiledFacts
<1>2. \A i \in Slots : /\ Cleared(table[i]).hstmt = 0 /\ Cleared(table[i]).hdbc = 0
                       /\ Cleared(table[i]).hKey = NoKey
  BY DEF Cleared, ZeroSlot
<1>3. \A i \in Slots : table[i].hstmt # 0 <=> table[i].hstmt > 0
  <2>1. \A i \in Slots : table[i].hstmt \in Nat
    BY SlotTypes DEF LongInv, TypeOK, Slot
  <2> QED BY <2>1
<1>4. ASSUME table[h].hdbc = h
      PROVE  \A i \in Slots :
               Dtor(table, h)[i] = IF i = h \/ (table[i].hstmt # 0 /\ table[i].hdbc = h)
                                   THEN Cleared(table[i]) ELSE table[i]
  <2>1. \A i \in Slots : table[i].hstmt # 0 => table[i].hstmt = i
    BY FiledFacts
  <2>2. StmtsOf(table, h) = {i \in Slots : table[i].hstmt # 0 /\ i # h /\ table[i].hdbc = h}
    BY <1>3, <2>1 DEF StmtsOf
  <2>3. Dtor(table, h) = [i \in Slots |-> IF i = h \/ i \in StmtsOf(table, h)
                                          THEN Cleared(table[i]) ELSE table[i]]
    BY <1>1, <1>4 DEF Dtor
  <2>4. \A i \in Slots : i = h \/ i \in StmtsOf(table, h) <=>
                          i = h \/ (table[i].hstmt # 0 /\ table[i].hdbc = h)
    BY <2>2
  <2> HIDE <2>2
  <2> QED BY <2>3, <2>4
<1>5. ASSUME table[h].hdbc # h
      PROVE  \A i \in Slots : Dtor(table, h)[i] = IF i = h THEN Cleared(table[i]) ELSE table[i]
  <2>1. Dtor(table, h) = [i \in Slots |-> IF i = h \/ i \in {} THEN Cleared(table[i]) ELSE table[i]]
    BY <1>1, <1>5 DEF Dtor
  <2> QED BY <2>1
<1> QED BY <1>2, <1>4, <1>5

\* The table forgets a handle DB2 has freed.
LEMMA ForgetWorld ==
  ASSUME LongInv, TypeOK', db2' = db2, NEW t \in Threads, NEW x \in Slots, Left(t, x),
         table' = Dtor(table, x),
         \A v \in Threads, y \in Slots : ~New(v, y)' /\ ~Left(v, y)'
  PROVE  World' /\ \A y \in Slots \ {x} : table'[y] = table[y]
<1>1. glock = t /\ ~Db2Alive(db2, x) /\ table[x].hstmt # 0
  BY LeftFacts
<1>2. \A v \in Threads, y \in Slots : Left(v, y) => y = x
  <2> SUFFICES ASSUME NEW v \in Threads, NEW y \in Slots, Left(v, y) PROVE y = x
    OBVIOUS
  <2>1. v = t
    BY <1>1, LeftFacts
  <2> QED BY <2>1 DEF Left
<1>3. \A v \in Threads, y \in Slots : ~New(v, y)
  <2> SUFFICES ASSUME NEW v \in Threads, NEW y \in Slots, New(v, y) PROVE FALSE
    OBVIOUS
  <2>1. v = t
    BY <1>1, NewFacts
  <2> QED BY <2>1 DEF New, Left, AllocOps, ConnectOps
<1>4. \A y \in Slots \ {x} : table[y].hstmt # 0 => table[y].hdbc \in Slots \ {x}
  <2> SUFFICES ASSUME NEW y \in Slots \ {x}, table[y].hstmt # 0 PROVE table[y].hdbc \in Slots \ {x}
    OBVIOUS
  <2>1. /\ Db2Alive(db2, y) /\ db2[y].parent = table[y].hdbc /\ table[y].hdbc \in Slots
    BY <1>2, FiledFacts
  <2> QED BY <1>1, <2>1, TreeFacts DEF LongInv
<1>5. /\ table'[x].hstmt = 0 /\ table'[x].hdbc = 0 /\ table'[x].hKey = NoKey
      /\ \A y \in Slots \ {x} : table'[y] = table[y]
  <2>1. ASSUME NEW i \in Slots
        PROVE  /\ i = x => table'[i].hstmt = 0 /\ table'[i].hdbc = 0 /\ table'[i].hKey = NoKey
               /\ i # x => table'[i] = table[i]
    <3>1. i # x => ~(table[i].hstmt # 0 /\ table[i].hdbc = x)
      BY <1>4
    <3> QED BY <1>1, <3>1, DtorCleared
  <2> QED BY <2>1
<1>6. Filing'
  <2>1. ASSUME NEW i \in Slots PROVE SlotOK(i)'
    <3>1. SlotOK(i)
      BY DEF LongInv, Filing
    <3>2. CASE i = x
      BY <1>1, <1>5, <3>2 DEF SlotOK
    <3>3. CASE i # x
      <4>1. /\ table'[i] = table[i]
            /\ table[i].hstmt # 0 => table'[table[i].hdbc] = table[table[i].hdbc]
        BY <1>4, <1>5, <3>3
      <4>2. Db2Alive(db2, i) => table'[db2[i].parent] = table[db2[i].parent]
        BY <1>1, <1>5, TreeFacts DEF LongInv
      <4> QED BY <1>2, <1>3, <3>1, <3>3, <4>1, <4>2 DEF SlotOK
    <3> QED BY <3>2, <3>3
  <2> QED BY <2>1 DEF Filing
<1>7. Keyed'
  BY <1>5 DEF LongInv, Keyed
<1>8. Tree'
  BY DEF LongInv, Tree, Db2Tree
<1> QED BY <1>5, <1>6, <1>7, <1>8 DEF World

\* A close clears the connection's slot and those of its statements.
LEMMA CloseWorld ==
  ASSUME LongInv, TypeOK', db2' = db2, NEW t \in Threads, Owns(t), call[t].op \in CloseOps,
         NEW h \in Slots, h = call[t].h, table[h].hstmt # 0, table' = Dtor(table, h),
         call[t].at \notin AtTable, SameUpdates
  PROVE  /\ World'
         /\ \A i \in Slots : ~Mine(t, i) => table'[i] = table[i]
         /\ \A i \in Slots : Mine(t, i) => table'[i].hKey = NoKey
         /\ table'[h].hstmt = 0
<1>1. Claims(t) /\ h = call[t].c /\ table[h].hdbc = h
  BY ClaimFacts DEF Owns, Opens
<1>2. ~Drops(t) /\ ~Commands(t) /\ \A i : ~New(t, i) /\ ~Left(t, i)
  <2>1. call[t].op # "FreeStmtDrop" /\ ~Commands(t)
    BY DEF CloseOps, ConnectOps, Commands
  <2> QED BY <2>1 DEF Drops, New, Left, AtTable
<1>3. \A i \in Slots : Mine(t, i) <=> i = h \/ (table[i].hstmt # 0 /\ table[i].hdbc = h)
  BY <1>2 DEF Mine
<1>4. \A i \in Slots :
        /\ Mine(t, i) => table'[i].hstmt = 0 /\ table'[i].hdbc = 0 /\ table'[i].hKey = NoKey
        /\ ~Mine(t, i) => table'[i] = table[i]
  BY <1>1, <1>3, DtorCleared
<1>9. Mine(t, h)
  BY DEF Mine
<1>5. \A v \in Threads, i \in Slots : Mine(t, i) => ~Left(v, i)
  <2> SUFFICES ASSUME NEW v \in Threads, NEW i \in Slots, Mine(t, i), Left(v, i) PROVE FALSE
    OBVIOUS
  <2>1. v # t
    BY <1>2
  <2> QED BY <2>1, Apart, LeftFacts
<1>6. Filing'
  <2>1. ASSUME NEW i \in Slots PROVE SlotOK(i)'
    <3>1. SlotOK(i)
      BY DEF LongInv, Filing
    <3>2. \A v \in Threads : (New(v, i)' <=> New(v, i)) /\ (Left(v, i)' <=> Left(v, i))
      BY DEF SameUpdates
    <3>3. CASE Mine(t, i)
      <4>1. table'[i].hstmt = 0 /\ table'[i].hdbc = 0 /\ table'[i].hKey = NoKey
        BY <1>4, <3>3
      <4>2. table[i].hstmt # 0 /\ table[i].hdbc = h
        BY <1>1, <1>3, <3>3
      <4>3. Db2Alive(db2, i) => db2[i].parent = h
        BY <4>2, FiledFacts
      <4>4. table'[h].hstmt = 0
        BY <1>4, <1>9
      <4> QED BY <4>1, <4>3, <4>4 DEF SlotOK
    <3>4. CASE ~Mine(t, i)
      <4>1. table'[i] = table[i]
        BY <1>4, <3>4
      <4>2. table[i].hstmt # 0 => table'[table[i].hdbc] = table[table[i].hdbc]
        <5> SUFFICES ASSUME table[i].hstmt # 0 PROVE table'[table[i].hdbc] = table[table[i].hdbc]
          OBVIOUS
        <5>1. table[i].hdbc # h /\ table[i].hdbc \in Slots /\ table[table[i].hdbc].hdbc = table[i].hdbc
          BY <1>3, <3>4, FiledFacts
        <5> QED BY <1>3, <1>4, <5>1
      <4>3. Db2Alive(db2, i) => \/ table'[db2[i].parent].hstmt = 0
                                \/ table'[db2[i].parent] = table[db2[i].parent]
        BY <1>4, TreeFacts DEF LongInv
      <4> QED BY <3>1, <3>2, <4>1, <4>2, <4>3 DEF SlotOK
    <3> QED BY <3>3, <3>4
  <2>2. \A v \in Threads, x \in Slots : New(v, x)' => table'[x].hstmt = 0 /\ ~db2'[x].connected
    BY <1>4 DEF LongInv, Filing, SameUpdates
  <2> QED BY <2>1, <2>2 DEF Filing
<1>7. Keyed'
  BY <1>4 DEF LongInv, Keyed
<1>8. Tree'
  BY DEF LongInv, Tree, Db2Tree
<1> QED BY <1>4, <1>6, <1>7, <1>8, <1>9 DEF World

\* DB2 disconnects a connection whose statements the table has forgotten.
LEMMA DisconnectWorld ==
  ASSUME LongInv, TypeOK', SameMapping(table, table'), SameUpdates,
         NEW h \in Slots, db2[h].kind = "dbc", table[h].hKey = NoKey,
         db2' = Db2Disconnect(db2, h),
         \A i \in Db2Stmts(db2, h) : table[i].hstmt = 0 /\ \A v \in Threads : ~New(v, i) /\ ~Left(v, i)
  PROVE  /\ World'
         /\ \A i \in Slots \ ({h} \cup Db2Stmts(db2, h)) : db2'[i] = db2[i]
         /\ \A i \in Slots : db2'[i].connected => db2[i].connected
         /\ db2'[h].kind = "dbc" /\ db2'[h].parent = db2[h].parent
<1> DEFINE S == Db2Stmts(db2, h)
<1>1. /\ \A i \in S : db2'[i].kind = "free" /\ ~db2'[i].connected
      /\ \A i \in Slots \ (S \cup {h}) : db2'[i] = db2[i]
      /\ \A i \in S : db2[i].kind = "stmt" /\ db2[i].parent = h
      /\ \A i \in Slots \ S : db2'[i].kind = db2[i].kind /\ db2'[i].parent = db2[i].parent
      /\ ~db2'[h].connected /\ h \notin S
  <2>1. h \notin S /\ \A i \in S : i \in Slots /\ db2[i].kind = "stmt" /\ db2[i].parent = h
    BY DEF Db2Stmts
  <2>2. \A i \in Slots : db2'[i] = IF i \in S THEN Db2Free
                                   ELSE IF i = h THEN [db2[i] EXCEPT !.connected = FALSE] ELSE db2[i]
    BY DEF Db2Disconnect
  <2>3. db2'[h].kind = db2[h].kind /\ db2'[h].parent = db2[h].parent /\ ~db2'[h].connected
    <3>1. db2[h] \in Db2Handle /\ db2'[h] = [db2[h] EXCEPT !.connected = FALSE]
      BY <2>1, <2>2 DEF LongInv, TypeOK
    <3> QED BY <3>1 DEF Db2Handle
  <2>4. \A i \in S : db2'[i].kind = "free" /\ ~db2'[i].connected
    <3>1. \A i \in S : db2'[i] = Db2Free
      BY <2>1, <2>2
    <3> QED BY <3>1 DEF Db2Free
  <2>5. \A i \in Slots \ (S \cup {h}) : db2'[i] = db2[i]
    BY <2>2
  <2> HIDE DEF S
  <2> QED BY <2>1, <2>3, <2>4, <2>5
<1> HIDE DEF S
<1>2. \A i \in Slots : Db2Alive(db2, i)' <=> i \notin S /\ Db2Alive(db2, i)
  BY <1>1 DEF Db2Alive
<1>3. \A i \in Slots : Db2Alive(db2, i) =>
        /\ i \in HandleNums
        /\ db2[i].parent \in Slots \ S /\ db2[i].parent \in HandleNums
        /\ db2[i].kind = "dbc" => db2[i].parent = i
        /\ i \notin S /\ db2[i].kind = "stmt" =>
             /\ db2[i].parent # i /\ db2[i].parent # h
             /\ db2[db2[i].parent].kind = "dbc" /\ db2[db2[i].parent].connected
  <2> SUFFICES ASSUME NEW i \in Slots, Db2Alive(db2, i)
               PROVE  /\ i \in HandleNums
                      /\ db2[i].parent \in Slots \ S /\ db2[i].parent \in HandleNums
                      /\ db2[i].kind = "dbc" => db2[i].parent = i
                      /\ i \notin S /\ db2[i].kind = "stmt" =>
                           /\ db2[i].parent # i /\ db2[i].parent # h
                           /\ db2[db2[i].parent].kind = "dbc" /\ db2[db2[i].parent].connected
    OBVIOUS
  <2>1. i \notin S /\ db2[i].kind = "stmt" => db2[i].parent # h
    BY DEF S, Db2Stmts
  <2> QED BY <1>1, <2>1, TreeFacts DEF LongInv
<1>4. Tree'
  <2>1. ASSUME NEW i \in HandleNums, Db2Alive(db2, i)'
        PROVE  /\ db2'[i].parent \in HandleNums
               /\ db2'[i].kind = "dbc" => db2'[i].parent = i
               /\ db2'[i].kind = "stmt" => /\ db2'[i].parent # i
                                           /\ db2'[db2'[i].parent].kind = "dbc"
                                           /\ db2'[db2'[i].parent].connected
    <3>1. i \in Slots \ S /\ Db2Alive(db2, i)
      BY <1>2, <2>1, SlotTypes
    <3>2. db2'[i].kind = db2[i].kind /\ db2'[i].parent = db2[i].parent
      BY <1>1, <3>1
    <3>3. db2[i].kind = "stmt" => db2'[db2[i].parent] = db2[db2[i].parent]
      BY <1>1, <1>3, <3>1
    <3> QED BY <1>3, <3>1, <3>2, <3>3
  <2>2. \A i \in Slots : Db2Alive(db2, i)' => i \in HandleNums
    BY <1>2, <1>3
  <2> QED BY <2>1, <2>2 DEF Tree, Db2Tree
<1>5. \A i \in Slots : db2'[i].connected => db2[i].connected
  BY <1>1
<1>6. Filing'
  <2>1. ASSUME NEW i \in Slots PROVE SlotOK(i)'
    <3>1. SlotOK(i) /\ db2[i].parent \in Slots /\ table[i].hdbc \in Slots
      BY DEF LongInv, Filing, TypeOK, Db2Handle, Slot
    <3>2. /\ table'[i].hstmt = table[i].hstmt /\ table'[i].hdbc = table[i].hdbc
          /\ table'[i].hKey = table[i].hKey /\ table'[i].thread_init = table[i].thread_init
          /\ table'[table[i].hdbc].hstmt = table[table[i].hdbc].hstmt
          /\ table'[table[i].hdbc].hdbc = table[table[i].hdbc].hdbc
          /\ table'[db2[i].parent].hstmt = table[db2[i].parent].hstmt
      BY <3>1 DEF SameMapping
    <3>3. \A v \in Threads : (New(v, i)' <=> New(v, i)) /\ (Left(v, i)' <=> Left(v, i))
      BY DEF SameUpdates
    <3>4. CASE i \in S
      <4>1. table[i].hstmt = 0 /\ ~Db2Alive(db2, i)'
        BY <1>2, <3>4 DEF S
      <4> QED BY <3>1, <3>2, <4>1 DEF SlotOK
    <3>5. CASE i \notin S
      <4>1. (Db2Alive(db2, i)' <=> Db2Alive(db2, i)) /\ db2'[i].parent = db2[i].parent
        BY <1>1, <1>2, <3>5
      <4> QED BY <3>1, <3>2, <3>3, <4>1 DEF SlotOK
    <3> QED BY <3>4, <3>5
  <2>2. \A v \in Threads, x \in Slots : New(v, x)' => table'[x].hstmt = 0 /\ ~db2'[x].connected
    BY <1>5 DEF LongInv, Filing, SameUpdates, SameMapping
  <2> QED BY <2>1, <2>2 DEF Filing
<1>7. Keyed'
  <2>1. \A g \in Slots : table[g].hKey # NoKey => g \in Slots \ (S \cup {h})
    BY <1>1 DEF LongInv, Keyed
  <2>2. \A g \in Slots : table[g].hKey # NoKey => db2'[g] = db2[g]
    BY <1>1, <2>1
  <2> QED BY <2>2 DEF LongInv, Keyed, SameMapping
<1> QED BY <1>1, <1>4, <1>5, <1>6, <1>7 DEF World, S

\* A connection gets its persistent key.
LEMMA HashWorld ==
  ASSUME LongInv, TypeOK', db2' = db2, SameUpdates,
         NEW h \in Slots, table[h].hstmt # 0, table[h].hdbc = h,
         db2[h].kind = "dbc", db2[h].connected,
         NEW key,
         table' = AddHash(table, h, key)
  PROVE  /\ World'
         /\ \A i \in Slots : /\ table'[i].hstmt = table[i].hstmt
                             /\ table'[i].hdbc = table[i].hdbc
                             /\ table'[i].thread_init = table[i].thread_init
                             /\ table'[i].hKey = IF i = h THEN key ELSE table[i].hKey
<1>1. \A i \in Slots : /\ table'[i].hstmt = table[i].hstmt
                       /\ table'[i].hdbc = table[i].hdbc
                       /\ table'[i].thread_init = table[i].thread_init
                       /\ table'[i].hKey = IF i = h THEN key ELSE table[i].hKey
  <2>1. table \in [Slots -> Slot]
    BY DEF LongInv, TypeOK
  <2> QED BY <2>1 DEF AddHash, Slot
<1>2. Filing'
  <2>1. ASSUME NEW i \in Slots PROVE SlotOK(i)'
    <3>1. SlotOK(i) /\ db2[i].parent \in Slots /\ table[i].hdbc \in Slots
      BY DEF LongInv, Filing, TypeOK, Db2Handle, Slot
    <3>2. \A v \in Threads : (New(v, i)' <=> New(v, i)) /\ (Left(v, i)' <=> Left(v, i))
      BY DEF SameUpdates
    <3> QED BY <1>1, <3>1, <3>2 DEF SlotOK
  <2>2. \A v \in Threads, x \in Slots : New(v, x)' => table'[x].hstmt = 0 /\ ~db2'[x].connected
    BY <1>1 DEF LongInv, Filing, SameUpdates
  <2> QED BY <2>1, <2>2 DEF Filing
<1>3. Keyed'
  BY <1>1 DEF LongInv, Keyed
<1>4. Tree'
  BY DEF LongInv, Tree, Db2Tree
<1> QED BY <1>1, <1>2, <1>3, <1>4 DEF World

-----------------------------------------------------------------------------
(* The resource mutexes                                                      *)

\* A call on its way into or out of a lock computes its connection's index.
LEMMA OwnIndex ==
  ASSUME LongInv, NEW t \in Threads, call[t].at = "want" \/ UnderLock(t)
  PROVE  /\ Named(t)
         /\ call[t].c \in Slots /\ call[t].m = call[t].c
         /\ LockIndex(table, call[t].h, Flag(call[t].op)) = call[t].c
         /\ call[t].op # "StmtCall" => call[t].h = call[t].c
<1> USE DEF LockOps, Aggregates, ConnectOps, CloseOps
<1>1. call[t].op \in LockOps \cup Aggregates /\ Named(t)
  BY DEF LongInv, Places, Named, UnderLock, AllocOps, ReleaseOps
<1>2. HandleIsGood(t)
  BY DEF LongInv, ThreadsGood
<1>3. call[t].c \in Slots /\ call[t].m = call[t].c
  BY <1>1, <1>2, SlotTypes DEF HandleIsGood
<1>4. call[t].op # "StmtCall" => call[t].h = call[t].c
  BY <1>1, <1>2 DEF HandleIsGood, OfStmt
<1>5. call[t].op = "StmtCall" => table[call[t].h].hdbc = call[t].c
  <2> SUFFICES ASSUME call[t].op = "StmtCall" PROVE table[call[t].h].hdbc = call[t].c
    OBVIOUS
  <2>1. Claims(t)
    BY <1>1 DEF Claims
  <2> QED BY <2>1, ClaimFacts DEF OfStmt
<1> QED BY <1>1, <1>3, <1>4, <1>5 DEF LockIndex, Flag

LEMMA SectionsKept ==
  ASSUME LongInv, NEW t \in Threads, Others(t), mutex' = mutex,
         UnderLock(t)' <=> UnderLock(t),
         UnderLock(t) => call'[t].c = call[t].c
  PROVE  Sections'
<1>1. \A u \in Threads \ {t} : call'[u] = call[u] /\ (UnderLock(u)' <=> UnderLock(u))
  BY Unmoved DEF Others
<1>2. Sections
  BY DEF LongInv
<1> QED BY <1>1, <1>2 DEF Sections

LEMMA SectionsLock ==
  ASSUME LongInv, NEW t \in Threads, Others(t), call[t].at = "want", ~UnderLock(t), UnderLock(t)',
         call'[t].c = call[t].c, call[t].c \in Slots, call[t].m = call[t].c,
         MayLock(mutex[call[t].c], t),
         mutex' = [mutex EXCEPT ![call[t].c] = Locked(mutex[call[t].c], t)]
  PROVE  Sections'
<1> DEFINE c == call[t].c
<1>1. \A u \in Threads \ {t} : call'[u] = call[u] /\ (UnderLock(u)' <=> UnderLock(u))
  BY Unmoved DEF Others
<1>2. mutex[c] = FreeMutex
  <2>1. \A u \in Threads : mutex[c] = Held(u) => u = t
    BY HeldFacts, TableAssumption DEF MayLock
  <2> QED BY <2>1 DEF LongInv, Sections
<1>3. mutex' = [mutex EXCEPT ![c] = Held(t)] /\ mutex \in [Slots -> Mutex]
  BY <1>2 DEF Locked, FreeMutex, Held, LongInv, TypeOK
<1>4. \A u \in Threads : UnderLock(u) => call[u].c # c
  BY <1>2, HeldFacts DEF LongInv, Sections
<1>5. ASSUME NEW u \in Threads, UnderLock(u)' PROVE mutex'[call'[u].c] = Held(u)
  <2>1. CASE u = t
    BY <1>3, <2>1
  <2>2. CASE u # t
    BY <1>1, <1>3, <1>4, <1>5, <2>2 DEF LongInv, Sections
  <2> QED BY <2>1, <2>2
<1>6. ASSUME NEW s \in Slots
      PROVE  mutex'[s] = FreeMutex \/ \E u \in Threads : UnderLock(u)' /\ call'[u].c = s /\ mutex'[s] = Held(u)
  <2>1. CASE s = c
    BY <1>3, <2>1
  <2>2. CASE s # c
    BY <1>1, <1>3, <2>2 DEF LongInv, Sections
  <2> QED BY <2>1, <2>2
<1> QED BY <1>5, <1>6 DEF Sections, Held

LEMMA SectionsUnlock ==
  ASSUME LongInv, NEW t \in Threads, Others(t), UnderLock(t), ~UnderLock(t)', call[t].c \in Slots,
         mutex' = [mutex EXCEPT ![call[t].c] = Unlocked(mutex[call[t].c], t)]
  PROVE  Sections'
<1> DEFINE c == call[t].c
<1>1. \A u \in Threads \ {t} : call'[u] = call[u] /\ (UnderLock(u)' <=> UnderLock(u))
  BY Unmoved DEF Others
<1>2. mutex[c] = Held(t)
  BY DEF LongInv, Sections
<1>3. mutex' = [mutex EXCEPT ![c] = FreeMutex] /\ mutex \in [Slots -> Mutex]
  BY <1>2 DEF Unlocked, Held, LongInv, TypeOK
<1>4. \A u \in Threads \ {t} : UnderLock(u) => call[u].c # c
  BY <1>2, HeldFacts DEF LongInv, Sections
<1>5. ASSUME NEW u \in Threads, UnderLock(u)' PROVE mutex'[call'[u].c] = Held(u)
  <2>1. u # t
    BY <1>5
  <2>2. UnderLock(u) /\ call'[u] = call[u]
    BY <1>1, <1>5, <2>1
  <2> QED BY <1>3, <1>4, <2>1, <2>2 DEF LongInv, Sections
<1>6. ASSUME NEW s \in Slots
      PROVE  mutex'[s] = FreeMutex \/ \E u \in Threads : UnderLock(u)' /\ call'[u].c = s /\ mutex'[s] = Held(u)
  BY <1>1, <1>3 DEF LongInv, Sections
<1> QED BY <1>5, <1>6 DEF Sections, Held

LEMMA UnlockFacts ==
  ASSUME LongInv, NEW t \in Threads, TableUnlock(t), Others(t), UnderLock(t), ~UnderLock(t)'
  PROVE  Sections' /\ SameMapping(table, table')
<1>1. /\ call[t].c \in Slots
      /\ LockIndex(table, call[t].h, Flag(call[t].op)) = call[t].c
  BY OwnIndex
<1>2. mutex' = [mutex EXCEPT ![call[t].c] = Unlocked(mutex[call[t].c], t)]
  BY <1>1 DEF TableUnlock
<1>3. Sections'
  BY <1>1, <1>2, SectionsUnlock
<1>4. call[t].h \in Slots /\ table \in [Slots -> Slot]
  BY DEF LongInv, TypeOK, Call
<1> QED BY <1>3, <1>4, MarkIdleFacts DEF TableUnlock

-----------------------------------------------------------------------------
(* Steps that file and release nothing                                       *)

\* Only SQL400pClose takes a key off a slot.
KeyStays ==
  \A h \in Slots : table[h].hKey # NoKey =>
    \/ table'[h].hKey # NoKey
    \/ \E t \in Threads : /\ call[t].op = "SQL400pClose"
                          /\ call[t].at = "dtor" /\ call[t].h = h

Updating == {"table", "cmdtable", "freed"}

LEMMA QuietFrame ==
  ASSUME LongInv, TypeOK', NEW t \in Threads, Others(t), SameMapping(table, table'),
         call[t].at \notin Updating, call'[t].at \notin Updating,
         \/ db2' = db2
         \/ Claims(t) /\ call[t].h = call[t].c /\ db2' = Db2Connect(db2, call[t].c)
  PROVE  /\ Frame(t) /\ World' /\ KeyStays
         /\ \A x \in Slots : Untouched(x)
         /\ \A x \in Slots : table'[x].thread_init = table[x].thread_init
         /\ \A x : ~New(t, x)' /\ ~Left(t, x)'
<1>1. \A x : ~New(t, x) /\ ~Left(t, x) /\ ~New(t, x)' /\ ~Left(t, x)'
  BY DEF New, Left, Updating
<1>2. SameUpdates
  <2>1. ASSUME NEW v \in Threads, NEW y \in Slots
        PROVE (New(v, y)' <=> New(v, y)) /\ (Left(v, y)' <=> Left(v, y))
    <3>1. CASE v = t
      BY <1>1, <3>1
    <3>2. CASE v # t
      BY <3>2, Unmoved DEF Others
    <3> QED BY <3>1, <3>2
  <2> QED BY <2>1 DEF SameUpdates
<1>3. \A x \in Slots : /\ db2'[x].kind = db2[x].kind /\ db2'[x].parent = db2[x].parent
                       /\ db2[x].connected => db2'[x].connected
                       /\ db2'[x].connected => db2[x].connected \/ (Claims(t) /\ x = call[t].c)
  <2>1. CASE db2' = db2
    BY <2>1
  <2>2. CASE Claims(t) /\ call[t].h = call[t].c /\ db2' = Db2Connect(db2, call[t].c)
    BY <2>2, Db2ConnectFacts DEF LongInv, TypeOK
  <2> QED BY <2>1, <2>2
<1>4. Claims(t) => \A v \in Threads : ~New(v, call[t].h)
  BY <1>1 DEF LongInv, Alone
<1>5. \A x \in Slots : db2'[x].connected => db2[x].connected \/ \A v \in Threads : ~New(v, x)
  <2>1. CASE db2' = db2
    BY <2>1
  <2>2. CASE Claims(t) /\ call[t].h = call[t].c
    BY <1>3, <1>4, <2>2
  <2> QED BY <2>1, <2>2
<1>6. World'
  BY <1>2, <1>3, <1>5, QuietWorld
<1>7. \A x \in Slots : Untouched(x) /\ table'[x].thread_init = table[x].thread_init
  BY <1>3 DEF Untouched, SameMapping
<1>8. known \subseteq Slots
  BY DEF LongInv, TypeOK
<1>9. Frame(t)
  BY <1>3, <1>7, <1>8 DEF Frame, Untouched
<1>10. KeyStays
  BY <1>7 DEF KeyStays, Untouched
<1> QED BY <1>1, <1>6, <1>7, <1>9, <1>10

LEMMA IdleGood ==
  ASSUME NEW t \in Threads, call'[t].at = "idle", call'[t].op = "none"
  PROVE  /\ Good(t)' /\ PlaceOK(t)' /\ ~Claims(t)' /\ ~Owns(t)' /\ ~Drops(t)'
         /\ ~UnderLock(t)' /\ call'[t].op \notin LongOps
         /\ \A x : ~New(t, x)' /\ ~Left(t, x)'
<1>1. ~Named(t)' /\ ~Claims(t)' /\ ~Owns(t)' /\ ~Drops(t)' /\ ~UnderLock(t)'
  BY DEF Named, Claims, Owns, Opens, Drops, UnderLock
<1>2. \A x : ~New(t, x)' /\ ~Left(t, x)'
  BY DEF New, Left
<1>3. HandleIsGood(t)' /\ OtherIsGood(t)'
  BY <1>1, <1>2 DEF HandleIsGood, OtherIsGood
<1>4. StateIsGood(t)'
  BY <1>1 DEF StateIsGood, ConnectOps, CloseOps
<1> QED BY <1>1, <1>2, <1>3, <1>4 DEF Good, PlaceOK, LongOps

\* A call returns.
LEMMA ReturnKeeps ==
  ASSUME LongInv, TypeOK', NEW t \in Threads, NEW back, Return(t, back),
         SameMapping(table, table'), Sections', glock' = glock, call[t].at \notin AtTable,
         \/ db2' = db2
         \/ Claims(t) /\ call[t].h = call[t].c /\ db2' = Db2Connect(db2, call[t].c),
         \A x \in back : Usable(x) /\ MayHandOut(t, x)
  PROVE  LongInv' /\ KeyStays
<1>1. Others(t) /\ call'[t].at = "idle" /\ call'[t].op = "none" /\ known' = known \cup back
  BY DEF LongInv, TypeOK, Return, Others, NoCall, Started
<1>2. /\ Good(t)' /\ PlaceOK(t)' /\ ~Claims(t)' /\ ~Owns(t)' /\ ~Drops(t)'
      /\ call'[t].op \notin LongOps /\ \A x : ~New(t, x)'
  BY <1>1, IdleGood
<1>3. Frame(t) /\ World' /\ KeyStays /\ \A x \in Slots : Untouched(x)
  BY <1>1, QuietFrame DEF AtTable, Updating
<1>4. Alone' /\ TakenBack'
  BY <1>1, <1>2, <1>3, PairsKept
<1>5. KeysApart'
  BY <1>1, <1>2, KeysKept
<1>6. \A x \in back : Usable(x)'
  BY <1>3, SlotTypes DEF Usable, Untouched, Db2Alive
<1>7. LockMoves(t)
  BY <1>1 DEF LockMoves, AtTable
<1>8. LongInv'
  BY <1>1, <1>2, <1>3, <1>4, <1>5, <1>6, <1>7, StepKeeps
<1> QED BY <1>3, <1>8

\* A call goes on.
LEMMA MoveOn ==
  ASSUME LongInv, TypeOK', NEW t \in Threads, Others(t), known' = known,
         SameMapping(table, table'), Sections', LockMoves(t), PlaceOK(t)', Good(t)',
         call[t].at \notin Updating, call'[t].at \notin Updating,
         call'[t].op = call[t].op, call'[t].key = call[t].key,
         call'[t].h = call[t].h, call'[t].c = call[t].c,
         Claims(t)' => Claims(t), Owns(t)' => Owns(t), Drops(t)' => Drops(t),
         call[t].op \in ConnectOps /\ call'[t].at \in {"cmdtable", "cmd", "free", "freed"} =>
           call[t].at \in {"cmdtable", "cmd", "free", "freed"} /\ call'[t].o = call[t].o,
         \/ db2' = db2
         \/ Claims(t) /\ call[t].h = call[t].c /\ db2' = Db2Connect(db2, call[t].c)
  PROVE  LongInv' /\ KeyStays
<1>1. Frame(t) /\ World' /\ KeyStays /\ \A x : ~New(t, x)'
  BY QuietFrame
<1>2. Alone' /\ TakenBack'
  BY <1>1, StillCommands, PairsKept DEF Commands
<1>3. KeysApart'
  BY KeysKept
<1>4. LongInv'
  BY <1>1, <1>2, <1>3, StepKeeps
<1> QED BY <1>1, <1>4

-----------------------------------------------------------------------------
(* The steps of the plain calls                                              *)

LEMMA GotoAll ==
  ASSUME LongInv, NEW t \in Threads, NEW label, Goto(t, label)
  PROVE  /\ Others(t)
         /\ call'[t].at = label
         /\ call'[t].op = call[t].op /\ call'[t].h = call[t].h /\ call'[t].c = call[t].c
         /\ call'[t].m = call[t].m /\ call'[t].o = call[t].o
         /\ call'[t].key = call[t].key /\ call'[t].active = call[t].active
BY DEF LongInv, TypeOK, Goto, Call, Others

LEMMA ReturnAll ==
  ASSUME LongInv, NEW t \in Threads, NEW back, Return(t, back)
  PROVE  /\ Others(t) /\ call'[t] = NoCall /\ call'[t].at = "idle"
         /\ known' = known \cup back
BY DEF LongInv, TypeOK, Return, Others, NoCall, Started

LEMMA GoodFacts ==
  ASSUME LongInv, NEW t \in Threads
  PROVE  /\ PlaceOK(t) /\ HandleIsGood(t) /\ OtherIsGood(t) /\ StateIsGood(t)
         /\ call[t].h \in Slots /\ call[t].c \in Slots /\ call[t].o \in Slots
BY DEF LongInv, Places, PlaceOK, ThreadsGood, TypeOK, Call

LEMMA LockStep ==
  ASSUME LongInv, TypeOK', NEW t \in Threads, TableLock(t)
  PROVE  LongInv' /\ KeyStays
<1> DEFINE h == call[t].h
<1>1. /\ Others(t) /\ call[t].at = "want" /\ call'[t].at = "db2"
      /\ call'[t].op = call[t].op /\ call'[t].h = call[t].h /\ call'[t].c = call[t].c
      /\ call'[t].m = call[t].m /\ call'[t].o = call[t].o
      /\ call'[t].key = call[t].key /\ call'[t].active = call[t].active
  BY GotoAll DEF TableLock
<1>2. UNCHANGED <<glock, db2, known>>
  BY DEF TableLock
<1>3. Claims(t) /\ Named(t) /\ ~UnderLock(t) /\ UnderLock(t)'
  BY <1>1, OwnIndex DEF Claims, UnderLock
<1>4. /\ call[t].c \in Slots /\ call[t].m = call[t].c
      /\ table[call[t].h].hstmt # 0 /\ table[call[t].h].hdbc = call[t].c
  BY <1>1, <1>3, OwnIndex, GoodFacts DEF HandleIsGood
<1>5. table[call[t].c].thread_init
  <2>1. call[t].h \in Slots /\ table[call[t].c].hstmt = call[t].c /\ call[t].c \in HandleNums
    BY <1>4, FiledFacts, GoodFacts
  <2>2. table[call[t].c].hstmt # 0
    BY <2>1 DEF HandleNums
  <2> QED BY <1>4, <2>2, FiledFacts
<1>6. Sections'
  <2>1. MayLock(mutex[call[t].c], t)
        /\ mutex' = [mutex EXCEPT ![call[t].c] = Locked(mutex[call[t].c], t)]
    BY <1>4, <1>5 DEF TableLock
  <2> QED BY <1>1, <1>3, <1>4, <2>1, SectionsLock
<1>7. SameMapping(table, table')
  BY GoodFacts, MarkBusyFacts DEF TableLock, LongInv, TypeOK
<1>8. Frame(t) /\ \A x \in Slots : Untouched(x)
  BY <1>1, <1>2, <1>7, QuietFrame DEF Updating
<1>9. PlaceOK(t)' /\ LockMoves(t)
  BY <1>1, <1>2, GoodFacts DEF PlaceOK, LockMoves, AtTable
<1>10. /\ Claims(t)' => Claims(t)
       /\ Owns(t)' => Owns(t)
       /\ Drops(t)' => Drops(t)
  BY <1>1, <1>3, <1>8, GoodFacts DEF Owns, Opens, Drops, Untouched, Claims, Named
<1>11. HandleIsGood(t)'
  BY <1>1, <1>3, <1>8, GoodFacts DEF HandleIsGood, Untouched, Left, Db2Alive, Claims, Named
<1>12. OtherIsGood(t)'
  BY <1>1 DEF OtherIsGood
<1>13. StateIsGood(t)'
  <2>1. \A x \in Slots : table'[x].hKey = table[x].hKey
    BY <1>8 DEF Untouched
  <2>2. Opens(t)' => Opens(t)
    BY <1>1 DEF Opens
  <2> QED BY <1>1, <1>2, <1>3, <2>1, <2>2, GoodFacts DEF StateIsGood
<1> QED BY <1>1, <1>2, <1>6, <1>7, <1>9, <1>10, <1>11, <1>12, <1>13, MoveOn DEF Good, Updating

\* What belongs to the connection of a call may be handed out, but for a statement
\* another thread drops.
LEMMA HandOut ==
  ASSUME LongInv, NEW t \in Threads, Claims(t), NEW x \in Slots,
         db2[x].parent = call[t].c, db2'[x].parent = db2[x].parent,
         \/ x = call[t].h
         \/ \A u \in Threads \ {t} : (Drops(u) => x # call[u].h) /\ (Commands(u) => x # call[u].o)
  PROVE  MayHandOut(t, x)
BY DEF MayHandOut, LongInv, Alone

\* The handles of a refused release.
LEMMA KeptFacts ==
  ASSUME LongInv, NEW t \in Threads, Claims(t), call[t].op \in ReleaseOps,
         call[t].h = call[t].c, Usable(call[t].h), db2' = db2,
         \A v \in Threads, y \in Slots : New(v, y) => db2[y].parent = y \/ db2[y].parent # call[t].h
  PROVE  \A x \in KeptUnder(call[t].h) : Usable(x) /\ MayHandOut(t, x)
<1> DEFINE h == call[t].h
<1>1. h \in Slots /\ db2[h].parent = h /\ table[h].hstmt # 0
  <2>1. h \in Slots /\ table[h].hdbc = db2[h].parent /\ table[h].hstmt # 0
    BY UsableFacts DEF Usable
  <2> QED BY <2>1, ClaimFacts
<1>2. ASSUME NEW x \in KeptUnder(h), x # h PROVE Usable(x) /\ MayHandOut(t, x)
  <2>1. /\ x \in Slots /\ db2[x].kind = "stmt" /\ db2[x].parent = h
        /\ \A u \in Threads : call[u].op = "FreeStmtDrop" => call[u].h # x
    BY <1>2 DEF KeptUnder, Db2Stmts
  <2>2. \A v \in Threads : ~New(v, x)
    BY <1>2, <2>1
  <2>3. Db2Alive(db2, x) /\ x \in HandleNums
    BY <2>1, TreeFacts DEF Db2Alive, LongInv
  <2>4. SlotOK(x)
    BY <2>1 DEF LongInv, Filing
  <2>5. table[x].hstmt # 0
    BY <1>1, <2>1, <2>2, <2>3, <2>4 DEF SlotOK
  <2>7. ASSUME NEW u \in Threads \ {t}, Commands(u), x = call[u].o PROVE FALSE
    <3>1. /\ Claims(u) /\ call[u].h = call[u].c /\ call[u].op \in ConnectOps
          /\ call[u].at # "freed" => db2[x].parent = call[u].h
          /\ call[u].at # "cmdtable" => table[x].hdbc = call[u].h
      BY <2>7, OtherFacts DEF Commands
    <3>2. table[x].hdbc = db2[x].parent
      BY <2>3, <2>5, UsableFacts DEF Usable
    <3>3. call[u].c = h
      BY <2>1, <3>1, <3>2
    <3> QED BY <3>1, <3>3 DEF LongInv, Alone
  <2>6. MayHandOut(t, x)
    BY <2>1, <2>7, HandOut DEF Drops
  <2> QED BY <2>3, <2>5, <2>6 DEF Usable
<1>3. MayHandOut(t, h)
  BY <1>1, HandOut
<1> QED BY <1>2, <1>3

LEMMA NoneHandedOut ==
  ASSUME LongInv, TypeOK', NEW t \in Threads, Return(t, {}),
         SameMapping(table, table'), Sections', glock' = glock, call[t].at \notin AtTable,
         \/ db2' = db2
         \/ Claims(t) /\ call[t].h = call[t].c /\ db2' = Db2Connect(db2, call[t].c)
  PROVE  LongInv' /\ KeyStays
<1>1. \A x \in {} : Usable(x) /\ MayHandOut(t, x)
  OBVIOUS
<1> HIDE <1>1
<1> DEFINE none == {}
<1>2. Return(t, none) /\ \A x \in none : Usable(x) /\ MayHandOut(t, x)
  OBVIOUS
<1> HIDE DEF none
<1> QED BY <1>2, ReturnKeeps

LEMMA ReturnSteps ==
  ASSUME LongInv, TypeOK', NEW t \in Threads,
         \/ LockedCallReturns(t) \/ ConnectReturns(t) \/ BareCallReturns(t)
  PROVE  LongInv' /\ KeyStays
<1>1. Return(t, {}) /\ glock' = glock /\ call[t].at \in {"db2", "bare"}
  BY DEF LockedCallReturns, ConnectReturns, BareCallReturns
<1>2. Others(t) /\ call'[t].at = "idle" /\ call[t].at \notin AtTable /\ ~UnderLock(t)'
  BY <1>1 DEF LongInv, TypeOK, Return, Others, NoCall, Started, AtTable, UnderLock
<1>3. CASE LockedCallReturns(t)
  <2>1. UnderLock(t) /\ TableUnlock(t) /\ db2' = db2
    BY <1>3 DEF LockedCallReturns, UnderLock
  <2>2. Sections' /\ SameMapping(table, table')
    BY <1>2, <2>1, UnlockFacts
  <2> QED BY <1>1, <1>2, <2>1, <2>2, NoneHandedOut
<1>4. CASE ConnectReturns(t)
  <2>1. UnderLock(t) /\ TableUnlock(t) /\ call[t].op = "Connect"
    BY <1>4 DEF ConnectReturns, UnderLock
  <2>2. Sections' /\ SameMapping(table, table')
    BY <1>2, <2>1, UnlockFacts
  <2>3. Claims(t) /\ call[t].h = call[t].c
    BY <2>1, OwnIndex DEF Claims, CloseOps
  <2>4. db2' = db2 \/ db2' = Db2Connect(db2, call[t].c)
    BY <1>4, <2>3 DEF ConnectReturns
  <2> QED BY <1>1, <1>2, <2>2, <2>3, <2>4, NoneHandedOut
<1>5. CASE BareCallReturns(t)
  <2>1. UNCHANGED <<table, mutex, db2>> /\ call[t].at = "bare"
    BY <1>5 DEF BareCallReturns
  <2>2. SameMapping(table, table')
    BY <2>1 DEF SameMapping
  <2>3. Sections'
    BY <1>2, <2>1, SectionsKept DEF UnderLock
  <2> QED BY <1>1, <1>2, <2>1, <2>2, <2>3, NoneHandedOut
<1> QED BY <1>3, <1>4, <1>5

\* SQLDisconnect is refused.
LEMMA DisconnectRefused ==
  ASSUME LongInv, TypeOK', NEW t \in Threads, DisconnectReturns(t), db2' = db2,
         Return(t, KeptUnder(call[t].h))
  PROVE  LongInv' /\ KeyStays
<1> DEFINE h == call[t].h
<1>1. call[t].at = "db2" /\ call[t].op = "Disconnect" /\ TableUnlock(t) /\ glock' = glock
  BY DEF DisconnectReturns
<1>2. Others(t) /\ call'[t].at = "idle"
  BY DEF LongInv, TypeOK, Return, Others, NoCall, Started
<1>3. UnderLock(t) /\ ~UnderLock(t)' /\ call[t].at \notin AtTable
  BY <1>1, <1>2 DEF UnderLock, AtTable
<1>4. Sections' /\ SameMapping(table, table')
  BY <1>1, <1>2, <1>3, UnlockFacts
<1>5. Claims(t) /\ Owns(t) /\ h = call[t].c /\ h \in HandleNums /\ h \in Slots
  <2>1. Claims(t)
    BY <1>1 DEF Claims, Named, CloseOps, ConnectOps
  <2> QED BY <1>1, <2>1, ClaimFacts DEF Owns, Opens, ReleaseOps, OfStmt
<1>6. Usable(h)
  <2>1. ~Left(t, h)
    BY <1>1 DEF Left
  <2> QED BY <1>1, <1>5, <2>1, GoodFacts DEF HandleIsGood, ConnectOps, Usable
<1>7. ASSUME NEW v \in Threads, NEW y \in Slots, New(v, y), db2[y].parent = h, db2[y].parent # y
      PROVE  FALSE
  <2>1. Claims(v) /\ h = call[v].h /\ call[v].op \in Aggregates \cup {"AllocStmt"}
    BY <1>7, NewFacts
  <2>2. v # t /\ call[v].c = h
    BY <1>1, <2>1, ClaimFacts DEF OfStmt, Aggregates, ConnectOps, CloseOps
  <2> QED BY <1>5, <2>1, <2>2 DEF LongInv, Alone
<1>8. \A x \in KeptUnder(h) : Usable(x) /\ MayHandOut(t, x)
  BY <1>1, <1>5, <1>6, <1>7, KeptFacts DEF ReleaseOps
<1> QED BY <1>1, <1>3, <1>4, <1>8, ReturnKeeps

\* SQLDisconnect or SQLFreeConnect finds a key, or goes on without one.
LEMMA CheckStep ==
  ASSUME LongInv, TypeOK', NEW t \in Threads, CheckPersistent(t)
  PROVE  LongInv' /\ KeyStays
<1> DEFINE h == call[t].h
<1>1. /\ call[t].at = "check" /\ call[t].op \in ReleaseOps /\ glock = NoThread
      /\ UNCHANGED <<table, mutex, glock, db2>>
  BY DEF CheckPersistent, ReleaseOps
<1>2. Claims(t) /\ h = call[t].c /\ h \in HandleNums /\ h \in Slots /\ Named(t)
  <2>1. Claims(t) /\ Named(t)
    BY <1>1 DEF Claims, Named, CloseOps, ConnectOps, ReleaseOps
  <2> QED BY <1>1, <2>1, ClaimFacts DEF ReleaseOps, OfStmt
<1>3. SameMapping(table, table')
  BY <1>1 DEF SameMapping
<1>4. CASE HashActive(table, h)
  <2>1. Return(t, KeptUnder(h))
    BY <1>4 DEF CheckPersistent
  <2>2. Others(t) /\ call'[t].at = "idle" /\ call[t].at \notin AtTable
    BY <1>1, <2>1 DEF LongInv, TypeOK, Return, Others, NoCall, Started, AtTable
  <2>3. Sections'
    BY <1>1, <2>2, SectionsKept DEF UnderLock
  <2>4. Usable(h)
    BY <1>1, <1>2, FreeLock, GoodFacts DEF HandleIsGood, Usable, ReleaseOps, ConnectOps
  <2>5. \A x \in KeptUnder(h) : Usable(x) /\ MayHandOut(t, x)
    BY <1>1, <1>2, <2>4, FreeLock, KeptFacts
  <2> QED BY <1>1, <1>3, <2>1, <2>2, <2>3, <2>5, ReturnKeeps
<1>5. CASE ~HashActive(table, h)
  <2>1. /\ Goto(t, IF call[t].op = "Disconnect" THEN "want" ELSE "glock")
        /\ known' = known
    BY <1>5 DEF CheckPersistent
  <2>2. /\ Others(t)
        /\ call'[t].at = IF call[t].op = "Disconnect" THEN "want" ELSE "glock"
        /\ call'[t].op = call[t].op /\ call'[t].h = call[t].h /\ call'[t].c = call[t].c
        /\ call'[t].m = call[t].m /\ call'[t].o = call[t].o
        /\ call'[t].key = call[t].key /\ call'[t].active = call[t].active
    BY <2>1, GotoAll
  <2>3. Sections'
    BY <1>1, <2>2, SectionsKept DEF UnderLock
  <2>4. table[h].hKey = NoKey /\ Owns(t)
    BY <1>1, <1>2, <1>5 DEF HashActive, Owns, Opens
  <2>5. PlaceOK(t)' /\ LockMoves(t)
    BY <1>1, <2>2 DEF PlaceOK, LockMoves, AtTable, ReleaseOps, LockOps
  <2>6. Drops(t)' => Drops(t)
    BY <1>1, <2>2 DEF Drops
  <2>7. HandleIsGood(t)'
    <3>1. ~Left(t, h) /\ ~(call'[t].at = "table") /\ ~(call'[t].at = "freed")
      BY <1>1, <2>2 DEF Left
    <3> QED BY <1>1, <1>2, <2>2, <3>1, GoodFacts
            DEF HandleIsGood, Left, Db2Alive, Claims, Named, ReleaseOps, ConnectOps
  <2>8. OtherIsGood(t)'
    BY <1>1, <2>2 DEF OtherIsGood
  <2>9. StateIsGood(t)'
    BY <1>1, <1>2, <2>2, <2>4, GoodFacts DEF StateIsGood, ReleaseOps, ConnectOps, CloseOps, Aggregates
  <2> QED BY <1>1, <1>2, <1>3, <2>1, <2>2, <2>3, <2>4, <2>5, <2>6, <2>7, <2>8, <2>9, MoveOn
          DEF Good, Updating
<1> QED BY <1>4, <1>5

LEMMA DisconnectGranted ==
  ASSUME LongInv, TypeOK', NEW t \in Threads, DisconnectReturns(t),
         db2' = Db2Disconnect(db2, call[t].h), Return(t, {call[t].h}),
         Db2Stmts(db2, call[t].h) = {}
  PROVE  LongInv' /\ KeyStays
<1> DEFINE h == call[t].h
<1>1. call[t].at = "db2" /\ call[t].op = "Disconnect" /\ TableUnlock(t) /\ glock' = glock
  BY DEF DisconnectReturns
<1>2. Others(t) /\ call'[t].at = "idle" /\ call'[t].op = "none" /\ known' = known \cup {h}
  BY DEF LongInv, TypeOK, Return, Others, NoCall, Started
<1>3. UnderLock(t) /\ ~UnderLock(t)' /\ call[t].at \notin AtTable
  BY <1>1, <1>2 DEF UnderLock, AtTable
<1>4. Sections' /\ SameMapping(table, table')
  BY <1>1, <1>2, <1>3, UnlockFacts
<1>5. Claims(t) /\ Owns(t) /\ h = call[t].c /\ h \in HandleNums /\ h \in Slots
  <2>1. Claims(t)
    BY <1>1 DEF Claims, Named, CloseOps, ConnectOps
  <2> QED BY <1>1, <2>1, ClaimFacts DEF Owns, Opens, ReleaseOps, OfStmt
<1>6. Usable(h) /\ db2[h].kind = "dbc" /\ db2[h].parent = h
  <2>1. ~Left(t, h)
    BY <1>1 DEF Left
  <2>2. Usable(h) /\ db2[h].parent = h
    BY <1>1, <1>5, <2>1, GoodFacts DEF HandleIsGood, ConnectOps, Usable
  <2> QED BY <1>5, <2>2, TreeFacts DEF Usable, LongInv
<1>7. table[h].hKey = NoKey
  BY <1>1, <1>5, GoodFacts DEF StateIsGood, ReleaseOps, Claims
<1>8. /\ Good(t)' /\ PlaceOK(t)' /\ ~Claims(t)' /\ ~Owns(t)' /\ ~Drops(t)'
      /\ call'[t].op \notin LongOps /\ \A x : ~New(t, x)' /\ ~Left(t, x)'
  BY <1>2, IdleGood
<1>9. SameUpdates
  <2>1. \A x : ~New(t, x) /\ ~Left(t, x)
    BY <1>1 DEF New, Left
  <2>2. ASSUME NEW v \in Threads, NEW y \in Slots
        PROVE (New(v, y)' <=> New(v, y)) /\ (Left(v, y)' <=> Left(v, y))
    <3>1. CASE v = t
      BY <1>8, <2>1, <3>1
    <3>2. CASE v # t
      BY <1>2, <3>2, Unmoved DEF Others
    <3> QED BY <3>1, <3>2
  <2> QED BY <2>2 DEF SameUpdates
<1>10. /\ World'
       /\ \A i \in Slots \ {h} : db2'[i] = db2[i]
       /\ \A i \in Slots : db2'[i].connected => db2[i].connected
       /\ db2'[h].kind = "dbc" /\ db2'[h].parent = h
  BY <1>4, <1>5, <1>6, <1>7, <1>9, DisconnectWorld
<1>11. \A x \in Slots \ {h} : Untouched(x)
  BY <1>4, <1>10 DEF Untouched, SameMapping
<1>12. Frame(t)
  <2>1. \A u \in Threads \ {t}, x \in Slots : Uses(u, x) => Untouched(x)
    BY <1>5, <1>11, OwnsAlone
  <2>2. known \subseteq Slots
    BY DEF LongInv, TypeOK
  <2>3. \A x \in known : Untouched(x)
    <3>1. \A x \in known : db2[x].parent # h
      BY <1>5 DEF LongInv, TakenBack
    <3> QED BY <1>6, <1>11, <2>2, <3>1
  <2>4. \A x \in Slots : table'[x].hKey = table[x].hKey
    BY <1>4 DEF SameMapping
  <2> QED BY <1>2, <1>10, <2>1, <2>3, <2>4 DEF Frame
<1>13. MayHandOut(t, h)
  BY <1>5, <1>6, <1>10, HandOut
<1>14. ASSUME NEW x, x = h PROVE Usable(x)'
  <2>1. db2'[h].kind # "free"
    BY <1>10
  <2>2. table'[h].hstmt = table[h].hstmt /\ table[h].hstmt # 0
    BY <1>4, <1>5, <1>6 DEF SameMapping, Usable
  <2> QED BY <1>5, <1>14, <2>1, <2>2 DEF Usable, Db2Alive
<1>15. Alone' /\ TakenBack'
  BY <1>2, <1>8, <1>12, <1>13, PairsKept
<1>16. KeysApart'
  BY <1>2, <1>8, KeysKept
<1>17. LockMoves(t)
  BY <1>1, <1>2 DEF LockMoves, AtTable
<1>18. \A x \in known' \ known : Usable(x)'
  BY <1>2, <1>14
<1>19. LongInv'
  BY <1>4, <1>8, <1>10, <1>12, <1>15, <1>16, <1>17, <1>18, StepKeeps
<1> QED BY <1>4, <1>19 DEF KeyStays, SameMapping

-----------------------------------------------------------------------------
(* Allocation                                                                *)

\* DB2 has a new handle for t: nobody else has to do with it.
LEMMA Born ==
  ASSUME LongInv, TypeOK', NEW t \in Threads, Others(t), table' = table, glock = NoThread,
         NEW o \in HandleNums, ~Db2Alive(db2, o), NEW c \in HandleNums,
         \/ db2' = Db2NewDbc(db2, o)
         \/ db2' = Db2NewStmt(db2, o, c) /\ db2[c].kind = "dbc" /\ db2[c].connected,
         \A y : New(t, y)' <=> y = o,
         \A y : ~Left(t, y)'
  PROVE  /\ World' /\ Frame(t) /\ KeyStays
         /\ \A x \in Slots : x # o => Untouched(x)
         /\ \A x \in known : x # o /\ db2[x].parent # o
         /\ Db2Alive(db2, o)'
         /\ db2' = Db2NewDbc(db2, o) => db2'[o].parent = o
         /\ db2' = Db2NewStmt(db2, o, c) => db2'[o].parent = c /\ db2'[o].kind = "stmt"
         /\ \A u \in Threads : Claims(u) => call[u].h # o /\ call[u].c # o
<1>1. \A v \in Threads, y \in Slots : (New(v, y)' <=> v = t /\ y = o) /\ ~Left(v, y)'
  <2>1. ASSUME NEW v \in Threads, NEW y \in Slots
        PROVE (New(v, y)' <=> v = t /\ y = o) /\ ~Left(v, y)'
    <3>1. CASE v = t
      BY <3>1
    <3>2. CASE v # t
      BY <3>2, Unmoved, FreeLock DEF Others
    <3> QED BY <3>1, <3>2
  <2> QED BY <2>1
<1>2. World'
  BY <1>1, NewWorld
<1>3. /\ o \in Slots /\ db2 \in [Slots -> Db2Handle]
      /\ \A x \in Slots : x # o => db2'[x] = db2[x]
      /\ ~db2'[o].connected
  BY SlotTypes DEF Db2NewDbc, Db2NewStmt, LongInv, TypeOK
<1>4. \A x \in Slots : x # o => Untouched(x)
  BY <1>3 DEF Untouched
<1>5. \A x \in known : x \in Slots /\ x # o /\ db2[x].parent # o
  <2> SUFFICES ASSUME NEW x \in known PROVE x \in Slots /\ x # o /\ db2[x].parent # o
    OBVIOUS
  <2>1. Usable(x)
    BY DEF LongInv, KnownGood
  <2> QED BY <2>1, UsableFacts DEF Usable
<1>6. \A u \in Threads : Claims(u) => call[u].h # o /\ call[u].c # o
  BY FreeLock
<1>7. Frame(t)
  <2>1. \A u \in Threads \ {t}, x \in Slots : Uses(u, x) => Untouched(x)
    BY <1>4, FreeLock
  <2>2. \A x \in known : Untouched(x)
    BY <1>4, <1>5
  <2>3. \A x \in Slots : db2'[x].connected => db2[x].connected
    BY <1>3
  <2> QED BY <2>1, <2>2, <2>3 DEF Frame
<1>8. Db2Alive(db2, o)'
  BY <1>3 DEF Db2NewDbc, Db2NewStmt, Db2Alive
<1>9. /\ db2' = Db2NewDbc(db2, o) => db2'[o].parent = o
      /\ db2' = Db2NewStmt(db2, o, c) => db2'[o].parent = c /\ db2'[o].kind = "stmt"
  BY <1>3 DEF Db2NewDbc, Db2NewStmt
<1> QED BY <1>2, <1>4, <1>5, <1>6, <1>7, <1>8, <1>9 DEF KeyStays

LEMMA AllocStep ==
  ASSUME LongInv, TypeOK', NEW t \in Threads, AllocInDb2(t)
  PROVE  LongInv' /\ KeyStays
<1> DEFINE h == call[t].h
<1>1. /\ call[t].at = "glock" /\ call[t].op \in AllocOps /\ glock = NoThread
      /\ UNCHANGED <<table, mutex>>
  BY DEF AllocInDb2, AllocOps
<1>2. SameMapping(table, table')
  BY <1>1 DEF SameMapping
<1>3. CASE Return(t, {}) /\ UNCHANGED <<glock, db2>>
  <2>1. Others(t) /\ call'[t].at = "idle" /\ call[t].at \notin AtTable
    BY <1>1, <1>3 DEF LongInv, TypeOK, Return, Others, NoCall, Started, AtTable
  <2>2. Sections'
    BY <1>1, <2>1, SectionsKept DEF UnderLock
  <2> QED BY <1>2, <1>3, <2>1, <2>2, NoneHandedOut
<1>4. ASSUME NEW o \in HandleNums, ~Db2Alive(db2, o),
             \/ call[t].op = "AllocConnect" /\ db2' = Db2NewDbc(db2, o)
             \/ /\ call[t].op = "AllocStmt" /\ db2[call[t].h].connected
                /\ db2' = Db2NewStmt(db2, o, call[t].h),
             call' = [call EXCEPT ![t] = WithNew(call[t], o)],
             glock' = t, known' = known
      PROVE  LongInv' /\ KeyStays
  <2>1. /\ Others(t) /\ call'[t].at = "table" /\ call'[t].op = call[t].op
        /\ call'[t].h = h /\ call'[t].c = call[t].c /\ call'[t].m = call[t].m
        /\ call'[t].o = o
    BY <1>4, WithNewFacts DEF LongInv
  <2>2. (\A y : New(t, y)' <=> y = o) /\ \A y : ~Left(t, y)'
    BY <1>1, <2>1 DEF New, Left, AllocOps, ConnectOps
  <2>3. (Claims(t) <=> call[t].op = "AllocStmt") /\ (Named(t) <=> call[t].op = "AllocStmt")
    BY <1>1 DEF Claims, Named, AllocOps, ConnectOps, CloseOps
  <2>4. call[t].op = "AllocStmt" => h \in HandleNums /\ h = call[t].c /\ db2[h].kind = "dbc"
                                   /\ Db2Alive(db2, h) /\ db2[h].parent = h
    <3> SUFFICES ASSUME call[t].op = "AllocStmt"
                 PROVE  h \in HandleNums /\ h = call[t].c /\ db2[h].kind = "dbc"
                        /\ Db2Alive(db2, h) /\ db2[h].parent = h
      OBVIOUS
    <3>1. h \in HandleNums /\ h \in Slots /\ h = call[t].c
      BY <2>3, ClaimFacts DEF OfStmt
    <3>2. Db2Alive(db2, h) /\ db2[h].parent = h
      BY <1>1, <2>3, <3>1, FreeLock
    <3> QED BY <3>1, <3>2, TreeFacts DEF LongInv
  <2> DEFINE c == IF call[t].op = "AllocStmt" THEN h ELSE o
  <2>5. /\ c \in HandleNums
        /\ \/ db2' = Db2NewDbc(db2, o)
           \/ db2' = Db2NewStmt(db2, o, c) /\ db2[c].kind = "dbc" /\ db2[c].connected
    BY <1>4, <2>4
  <2>6. /\ World' /\ Frame(t) /\ KeyStays
        /\ \A x \in Slots : x # o => Untouched(x)
        /\ Db2Alive(db2, o)'
        /\ db2' = Db2NewDbc(db2, o) => db2'[o].parent = o
        /\ db2' = Db2NewStmt(db2, o, c) => db2'[o].parent = c
        /\ \A u \in Threads : Claims(u) => call[u].h # o
    <3> HIDE DEF c
    <3> QED BY <1>1, <1>4, <2>1, <2>2, <2>5, Born
  <2>7. Sections'
    BY <1>1, <2>1, SectionsKept DEF UnderLock
  <2>8. PlaceOK(t)' /\ LockMoves(t)
    BY <1>1, <1>4, <2>1 DEF PlaceOK, LockMoves, AtTable
  <2>9. (Claims(t)' => Claims(t)) /\ ~Owns(t)' /\ ~Drops(t)'
    BY <1>1, <2>1, <2>3
       DEF Claims, Named, AllocOps, ConnectOps, CloseOps, Owns, Opens, Drops, ReleaseOps, Aggregates
  <2>10. HandleIsGood(t)'
    <3>1. CASE call[t].op = "AllocConnect"
      <4>1. ~Named(t)' /\ ~Claims(t)' /\ \A x : ~Left(t, x)'
        BY <2>1, <2>2, <3>1 DEF Named, Claims
      <4> QED BY <2>1, <4>1 DEF HandleIsGood, Left
    <3>2. CASE call[t].op = "AllocStmt"
      <4>1. Claims(t) /\ Named(t) /\ Untouched(h) /\ h \in HandleNums /\ h = call[t].c
        BY <2>3, <2>4, <2>6, <3>2, SlotTypes
      <4>2. table[h].hstmt # 0 /\ table[h].hdbc = call[t].c /\ call[t].m = call[t].c
        BY <1>1, <3>2, <4>1, GoodFacts DEF HandleIsGood, ConnectOps
      <4> QED BY <2>1, <2>4, <3>2, <4>1, <4>2
              DEF HandleIsGood, Left, Untouched, Db2Alive, OfStmt, ConnectOps
    <3> QED BY <1>1, <3>1, <3>2 DEF AllocOps
  <2>11. OtherIsGood(t)'
    BY <1>1, <1>4, <2>1, <2>6 DEF OtherIsGood, AllocOps
  <2>12. StateIsGood(t)'
    BY <1>1, <2>1 DEF StateIsGood, Opens, AllocOps, ConnectOps, CloseOps, ReleaseOps, Aggregates
  <2>13. Alone' /\ TakenBack'
    <3>1. \A u \in Threads \ {t} : Claims(u) => ~New(t, call[u].h)'
      <4>1. ASSUME NEW u \in Threads \ {t}, Claims(u) PROVE ~New(t, call[u].h)'
        <5>1. call'[u] = call[u] /\ call[u].h # o
          BY <2>1, <2>6, <4>1 DEF Others
        <5> QED BY <5>1, <2>1, <1>1 DEF New, AllocOps, ConnectOps
      <4> QED BY <4>1
    <3> QED BY <1>4, <2>1, <2>6, <2>9, <3>1, PairsKept
  <2>14. KeysApart'
    <3>1. call'[t].op \notin LongOps
      BY <1>1, <2>1 DEF AllocOps, LongOps
    <3> QED BY <2>1, <3>1, KeysKept
  <2>15. LongInv'
    BY <1>4, <2>6, <2>7, <2>8, <2>10, <2>11, <2>12, <2>13, <2>14, StepKeeps DEF Good
  <2> QED BY <2>6, <2>15
<1> QED BY <1>3, <1>4 DEF AllocInDb2

-----------------------------------------------------------------------------
(* The three kinds of step on the table and DB2 under the global lock        *)

\* The table files a new handle.
LEMMA FilesNew ==
  ASSUME LongInv, TypeOK', NEW t \in Threads, Others(t), db2' = db2, mutex' = mutex,
         call[t].at \in AtTable, call'[t].at \notin AtTable, glock' = NoThread,
         NEW x \in Slots, New(t, x), table' = Ctor(table, x, db2[x].parent)
  PROVE  /\ World' /\ Frame(t) /\ KeyStays /\ LockMoves(t) /\ Usable(x)'
         /\ \A y \in Slots : y # x => Untouched(y)
         /\ table'[x].hdbc = db2[x].parent /\ table'[x].hKey = NoKey
         /\ \A y : ~New(t, y)' /\ ~Left(t, y)'
<1>1. glock = t /\ table[x].hstmt = 0 /\ Db2Alive(db2, x) /\ x \in HandleNums
  BY NewFacts
<1>2. \A y : ~New(t, y)' /\ ~Left(t, y)'
  BY DEF New, Left, AtTable
<1>3. ASSUME NEW v \in Threads, NEW y \in Slots PROVE ~New(v, y)' /\ ~Left(v, y)'
  <2>1. CASE v = t
    BY <1>2, <2>1
  <2>2. CASE v # t
    <3>1. ~New(v, y) /\ ~Left(v, y)
      BY <1>1, <2>2, NewFacts, LeftFacts
    <3> QED BY <2>2, <3>1, Unmoved DEF Others
  <2> QED BY <2>1, <2>2
<1>4. World' /\ Usable(x)'
  BY <1>3, CtorWorld
<1>5. /\ \A y \in Slots : y # x => table'[y] = table[y]
      /\ table'[x].hdbc = db2[x].parent
  BY <1>1, CtorFacts DEF LongInv, TypeOK, Db2Handle
<1>6. table'[x].hKey = NoKey
  BY DEF Ctor, LongInv, TypeOK
<1>7. \A y \in Slots : y # x => Untouched(y)
  BY <1>5 DEF Untouched
<1>8. Frame(t)
  <2>1. \A u \in Threads \ {t}, y \in Slots : Uses(u, y) => Untouched(y)
    <3>1. \A u \in Threads \ {t} : ~Uses(u, x)
      BY Apart DEF Mine
    <3> QED BY <1>7, <3>1
  <2>2. \A y \in known : Untouched(y)
    <3>1. x \notin known /\ known \subseteq Slots
      BY <1>1 DEF LongInv, KnownGood, Usable, TypeOK
    <3> QED BY <1>7, <3>1
  <2>3. \A y \in Slots : table'[y].hKey \in {table[y].hKey, NoKey}
    BY <1>5, <1>6
  <2> QED BY <2>1, <2>2, <2>3 DEF Frame
<1>9. KeyStays
  <2>1. table[x].hKey = NoKey
    BY <1>1 DEF LongInv, Keyed
  <2> QED BY <1>5, <2>1 DEF KeyStays
<1>10. LockMoves(t)
  BY DEF LockMoves
<1> QED BY <1>2, <1>4, <1>5, <1>6, <1>7, <1>8, <1>9, <1>10

\* DB2 frees a handle only t has to do with.
LEMMA FreesHandle ==
  ASSUME LongInv, TypeOK', NEW t \in Threads, Others(t), table' = table, mutex' = mutex,
         glock = NoThread, glock' = t, call'[t].at \in AtTable,
         NEW x \in Slots, Db2Alive(db2, x), db2[x].kind = "dbc" => ~db2[x].connected,
         db2' = [db2 EXCEPT ![x] = Db2Free],
         \A u \in Threads \ {t} : ~Uses(u, x),
         x \notin known,
         \A y : ~New(t, y)',
         \A y : Left(t, y)' => y = x,
         table[x].hstmt # 0 => Left(t, x)'
  PROVE  /\ World' /\ Frame(t) /\ KeyStays /\ LockMoves(t) /\ ~Db2Alive(db2, x)'
         /\ \A y \in Slots : y # x => Untouched(y)
<1>1. ASSUME NEW v \in Threads, NEW y \in Slots PROVE ~New(v, y)' /\ (Left(v, y)' => y = x)
  <2>1. CASE v = t
    BY <2>1
  <2>2. CASE v # t
    <3>1. ~New(v, y) /\ ~Left(v, y)
      BY FreeLock
    <3> QED BY <2>2, <3>1, Unmoved DEF Others
  <2> QED BY <2>1, <2>2
<1>2. World'
  BY <1>1, FreeWorld
<1>3. /\ \A y \in Slots : y # x => db2'[y] = db2[y]
      /\ ~db2'[x].connected /\ ~Db2Alive(db2, x)'
  BY DEF LongInv, TypeOK, Db2Free, Db2Alive
<1>4. \A y \in Slots : y # x => Untouched(y)
  BY <1>3 DEF Untouched
<1>5. Frame(t)
  <2>1. known \subseteq Slots
    BY DEF LongInv, TypeOK
  <2>2. \A y \in Slots : db2'[y].connected => db2[y].connected
    BY <1>3
  <2> QED BY <1>4, <2>1, <2>2 DEF Frame
<1>6. LockMoves(t)
  BY DEF LockMoves
<1> QED BY <1>2, <1>3, <1>4, <1>5, <1>6 DEF KeyStays

\* The table forgets a handle DB2 has freed.
LEMMA ForgetsHandle ==
  ASSUME LongInv, TypeOK', NEW t \in Threads, Others(t), db2' = db2, mutex' = mutex,
         call[t].at \in AtTable, call'[t].at \notin AtTable, glock' = NoThread,
         NEW x \in Slots, Left(t, x), table' = Dtor(table, x)
  PROVE  /\ World' /\ Frame(t) /\ KeyStays /\ LockMoves(t)
         /\ \A y \in Slots : y # x => Untouched(y)
         /\ \A y : ~New(t, y)' /\ ~Left(t, y)'
<1>1. glock = t /\ table[x].hstmt # 0 /\ ~Db2Alive(db2, x) /\ x \in HandleNums
  BY LeftFacts
<1>2. \A y : ~New(t, y)' /\ ~Left(t, y)'
  BY DEF New, Left, AtTable
<1>3. ASSUME NEW v \in Threads, NEW y \in Slots PROVE ~New(v, y)' /\ ~Left(v, y)'
  <2>1. CASE v = t
    BY <1>2, <2>1
  <2>2. CASE v # t
    <3>1. ~New(v, y) /\ ~Left(v, y)
      BY <1>1, <2>2, NewFacts, LeftFacts
    <3> QED BY <2>2, <3>1, Unmoved DEF Others
  <2> QED BY <2>1, <2>2
<1>4. World' /\ \A y \in Slots \ {x} : table'[y] = table[y]
  BY <1>3, ForgetWorld
<1>5. table'[x].hKey = NoKey /\ table[x].hKey = NoKey
  <2>1. table[x].hKey = NoKey
    BY <1>1 DEF LongInv, Keyed, Db2Alive
  <2> QED BY <1>1, <2>1, DtorCleared
<1>6. \A y \in Slots : y # x => Untouched(y)
  BY <1>4 DEF Untouched
<1>7. Mine(t, x)
  <2>1. CASE call[t].at = "table" /\ call[t].op = "FreeStmtDrop" /\ call[t].h = x
    BY <2>1 DEF Mine, Drops
  <2>2. CASE call[t].at = "table" /\ call[t].op = "FreeConnect" /\ call[t].h = x
    BY <2>2 DEF Mine, Owns, Opens, Claims, Named, ReleaseOps, ConnectOps, CloseOps
  <2>3. CASE call[t].at = "freed" /\ call[t].o = x
    BY <1>1, <2>3, OtherFacts DEF Mine
  <2> QED BY <2>1, <2>2, <2>3 DEF Left
<1>8. Frame(t)
  <2>1. \A u \in Threads \ {t}, y \in Slots : Uses(u, y) => Untouched(y)
    <3>1. \A u \in Threads \ {t} : ~Uses(u, x)
      BY <1>7, Apart
    <3> QED BY <1>6, <3>1
  <2>2. \A y \in known : Untouched(y)
    <3>1. x \notin known /\ known \subseteq Slots
      BY <1>1 DEF LongInv, KnownGood, Usable, TypeOK
    <3> QED BY <1>6, <3>1
  <2>3. \A y \in Slots : table'[y].hKey \in {table[y].hKey, NoKey}
    BY <1>4, <1>5
  <2> QED BY <2>1, <2>2, <2>3 DEF Frame
<1>9. KeyStays
  BY <1>4, <1>5 DEF KeyStays
<1>10. LockMoves(t)
  BY DEF LockMoves
<1> QED BY <1>2, <1>4, <1>6, <1>8, <1>9, <1>10

-----------------------------------------------------------------------------
(* Allocation, continued, and release                                        *)

LEMMA AllocTableStep ==
  ASSUME LongInv, TypeOK', NEW t \in Threads, AllocInTable(t)
  PROVE  LongInv' /\ KeyStays
<1> DEFINE o == call[t].o
<1>1. /\ call[t].at = "table" /\ call[t].op \in AllocOps
      /\ glock' = NoThread /\ UNCHANGED <<mutex, db2>>
      /\ Return(t, {o})
  BY DEF AllocInTable, AllocOps
<1>2. Others(t) /\ call'[t].at = "idle" /\ call'[t].op = "none" /\ known' = known \cup {o}
  BY <1>1 DEF LongInv, TypeOK, Return, Others, NoCall, Started
<1>3. New(t, o) /\ call[t].at \in AtTable /\ call'[t].at \notin AtTable /\ o \in Slots
  BY <1>1, <1>2, GoodFacts DEF New, AtTable
<1>4. db2[o].parent = IF call[t].op = "AllocConnect" THEN o ELSE call[t].h
  BY <1>1, GoodFacts DEF OtherIsGood
<1>5. table' = Ctor(table, o, db2[o].parent)
  BY <1>4 DEF AllocInTable
<1>6. /\ World' /\ Frame(t) /\ KeyStays /\ LockMoves(t)
      /\ \A x : x = o => Usable(x)'
  BY <1>1, <1>2, <1>3, <1>5, FilesNew
<1>7. /\ Good(t)' /\ PlaceOK(t)' /\ ~Claims(t)' /\ ~Owns(t)' /\ ~Drops(t)'
      /\ call'[t].op \notin LongOps /\ \A x : ~New(t, x)'
  BY <1>2, IdleGood
<1>8. ASSUME NEW x, x = o PROVE MayHandOut(t, x)
  <2>1. ASSUME NEW u \in Threads \ {t}, Owns(u) PROVE db2[o].parent # call[u].h
    <3>1. Claims(u) /\ ~New(t, call[u].h)
      BY <2>1 DEF Owns, Opens, LongInv, Alone
    <3>2. call[t].op = "AllocStmt" => Claims(t) /\ call[t].h = call[t].c
      <4>1. call[t].op = "AllocStmt" => Claims(t)
        BY <1>1 DEF Claims, Named, ConnectOps, CloseOps
      <4> QED BY <1>1, <4>1, ClaimFacts DEF OfStmt, AllocOps
    <3>3. call[t].op = "AllocStmt" => call[t].h # call[u].h
      BY <2>1, <3>2 DEF LongInv, Alone
    <3> QED BY <1>1, <1>3, <1>4, <3>1, <3>3 DEF AllocOps
  <2>2. ASSUME NEW u \in Threads \ {t}, Drops(u) PROVE o # call[u].h
    <3>1. Claims(u)
      BY <2>2 DEF Drops, Claims, Named, CloseOps, ConnectOps
    <3> QED BY <1>3, <3>1 DEF LongInv, Alone
  <2>3. ASSUME NEW u \in Threads \ {t}, Commands(u) PROVE o # call[u].o
    BY <1>3, <2>3, CommandsAlone, NewFacts
  <2> QED BY <1>1, <1>8, <2>1, <2>2, <2>3 DEF MayHandOut
<1>9. Alone' /\ TakenBack'
  BY <1>2, <1>6, <1>7, <1>8, PairsKept
<1>10. KeysApart'
  BY <1>2, <1>7, KeysKept
<1>11. Sections'
  BY <1>1, <1>2, <1>7, SectionsKept DEF UnderLock
<1>12. \A x \in known' \ known : Usable(x)'
  BY <1>2, <1>6
<1>13. LongInv'
  BY <1>6, <1>7, <1>9, <1>10, <1>11, <1>12, StepKeeps
<1> QED BY <1>6, <1>13

\* SQLFreeStmt(SQL_DROP) and SQLFreeConnect, up to DB2's answer.
LEMMA FreeStep ==
  ASSUME LongInv, TypeOK', NEW t \in Threads, FreeInDb2(t)
  PROVE  LongInv' /\ KeyStays
<1> DEFINE h == call[t].h
<1>1. /\ call[t].at = "glock" /\ call'[t].at = "table" /\ Others(t)
      /\ call'[t].op = call[t].op /\ call'[t].h = h /\ call'[t].c = call[t].c
      /\ call'[t].m = call[t].m /\ call'[t].key = call[t].key
      /\ glock = NoThread /\ glock' = t /\ UNCHANGED <<table, mutex, known>>
  BY GotoAll DEF FreeInDb2
<1>2. call[t].op \in {"FreeStmtDrop", "FreeConnect"}
  BY <1>1, GoodFacts DEF FreeInDb2, PlaceOK, AllocOps, ConnectOps
<1>3. Claims(t) /\ Named(t) /\ (Owns(t) <=> call[t].op = "FreeConnect")
      /\ (Drops(t) <=> call[t].op = "FreeStmtDrop")
  BY <1>1, <1>2 DEF Claims, Named, Owns, Opens, Drops, ConnectOps, CloseOps, ReleaseOps, Aggregates
<1>4. /\ h \in HandleNums /\ h \in Slots /\ call[t].c \in HandleNums
      /\ Db2Alive(db2, h) /\ db2[h].parent = call[t].c
      /\ call[t].op = "FreeStmtDrop" <=> h # call[t].c
  BY <1>1, <1>2, <1>3, ClaimFacts, FreeLock DEF OfStmt
<1>5. /\ db2[h].kind = "stmt" <=> call[t].op = "FreeStmtDrop"
      /\ db2[h].kind = "dbc" <=> call[t].op = "FreeConnect"
  BY <1>2, <1>4, TreeFacts DEF LongInv
<1>6. call[t].op = "FreeConnect" => ~db2[h].connected /\ table[h].hKey = NoKey
  BY <1>1, <1>3, GoodFacts DEF StateIsGood, ReleaseOps
<1>7. db2' = [db2 EXCEPT ![h] = Db2Free]
  BY <1>2, <1>5, <1>6 DEF FreeInDb2, Db2FreeStmt, Db2FreeDbc
<1>8. \A u \in Threads \ {t} : ~Uses(u, h)
  BY <1>2, <1>3, DropsAlone, OwnsAlone
<1>9. h \notin known
  BY <1>2, <1>3, <1>4 DEF LongInv, TakenBack
<1>10. (\A y : ~New(t, y)') /\ (\A y : Left(t, y)' <=> y = h)
  BY <1>1, <1>2 DEF New, Left, AllocOps, ConnectOps
<1>11. /\ World' /\ Frame(t) /\ KeyStays /\ LockMoves(t) /\ ~Db2Alive(db2, h)'
  BY <1>1, <1>4, <1>5, <1>6, <1>7, <1>8, <1>9, <1>10, FreesHandle DEF AtTable
<1>12. (Owns(t)' => Owns(t)) /\ (Drops(t)' => Drops(t))
  BY <1>1, <1>2, <1>3 DEF Owns, Opens, Drops, ReleaseOps, Aggregates, ConnectOps, CloseOps
<1>13. Alone' /\ TakenBack'
  BY <1>1, <1>3, <1>10, <1>11, <1>12, PairsKept
<1>14. KeysApart'
  BY <1>1, KeysKept
<1>15. Sections'
  BY <1>1, SectionsKept DEF UnderLock
<1>16. PlaceOK(t)'
  BY <1>1, <1>2 DEF PlaceOK
<1>17. HandleIsGood(t)'
  <2>1. Left(t, h)' /\ ~Db2Alive(db2, h)' /\ call'[t].op \notin ConnectOps
    BY <1>1, <1>2, <1>10, <1>11 DEF ConnectOps
  <2>2. table[h].hstmt # 0 /\ table[h].hdbc = call[t].c
        /\ (call[t].op # "FreeStmtDrop" => call[t].m = call[t].c)
    BY <1>1, <1>2, <1>3, GoodFacts DEF HandleIsGood, ConnectOps
  <2> QED BY <1>1, <1>2, <1>4, <2>1, <2>2 DEF HandleIsGood, OfStmt
<1>18. OtherIsGood(t)'
  BY <1>1, <1>2 DEF OtherIsGood, AllocOps
<1>19. StateIsGood(t)'
  <2>1. call[t].op = "FreeConnect" => ~db2'[h].connected
    BY <1>4, <1>7 DEF Db2Free, LongInv, TypeOK
  <2> QED BY <1>1, <1>2, <1>6, <2>1
          DEF StateIsGood, Opens, ReleaseOps, Aggregates, ConnectOps, CloseOps
<1>20. LongInv'
  BY <1>1, <1>11, <1>13, <1>14, <1>15, <1>16, <1>17, <1>18, <1>19, StepKeeps DEF Good
<1> QED BY <1>11, <1>20

\* ... and the driver's part.
LEMMA FreeTableStep ==
  ASSUME LongInv, TypeOK', NEW t \in Threads, FreeInTable(t)
  PROVE  LongInv' /\ KeyStays
<1> DEFINE h == call[t].h
<1>1. /\ call[t].at = "table"
      /\ glock' = NoThread /\ UNCHANGED <<mutex, db2>>
      /\ Return(t, {}) /\ table' = Dtor(table, h)
  BY DEF FreeInTable
<1>2. Others(t) /\ call'[t].at = "idle" /\ call'[t].op = "none" /\ known' = known
  BY <1>1 DEF LongInv, TypeOK, Return, Others, NoCall, Started
<1>3. Left(t, h) /\ call[t].at \in AtTable /\ call'[t].at \notin AtTable /\ h \in Slots
  BY <1>1, <1>2, GoodFacts DEF Left, AtTable, FreeInTable, PlaceOK, AllocOps, ConnectOps
<1>4. World' /\ Frame(t) /\ KeyStays /\ LockMoves(t)
  BY <1>1, <1>2, <1>3, ForgetsHandle
<1>5. /\ Good(t)' /\ PlaceOK(t)' /\ ~Claims(t)' /\ ~Owns(t)' /\ ~Drops(t)'
      /\ call'[t].op \notin LongOps /\ \A x : ~New(t, x)'
  BY <1>2, IdleGood
<1>6. Alone' /\ TakenBack'
  BY <1>2, <1>4, <1>5, PairsKept
<1>7. KeysApart'
  BY <1>2, <1>5, KeysKept
<1>8. Sections'
  BY <1>1, <1>2, SectionsKept DEF UnderLock
<1>9. LongInv'
  BY <1>2, <1>4, <1>5, <1>6, <1>7, <1>8, StepKeeps
<1> QED BY <1>4, <1>9

-----------------------------------------------------------------------------
(* A call starts                                                             *)

Starting == {"check", "want", "bare", "glock", "lookup"}

\* The client passes a handle somebody holds, so no release or close has to do with
\* it; what the call releases or closes is in no other call.
LEMMA Starts ==
  ASSUME LongInv, TypeOK', NEW t \in Threads, Others(t), call[t].at = "idle",
         UNCHANGED <<table, mutex, glock, db2>>, known' \subseteq known,
         call'[t].at \in Starting, PlaceOK(t)', StateIsGood(t)', KeysApart',
         Named(t)' => /\ call'[t].h \in known
                      /\ call'[t].c = db2[call'[t].h].parent
                      /\ call'[t].op \in OfStmt <=> db2[call'[t].h].kind = "stmt"
                      /\ call'[t].op # "FreeStmtDrop" => call'[t].m = call'[t].c,
         Owns(t)' => /\ \A u \in Threads \ {t} : Claims(u) => call[u].c # call'[t].h
                     /\ \A x \in known' : db2[x].parent # call'[t].h,
         call'[t].op \in ReleaseOps =>
           \A u \in Threads \ {t} : Claims(u) => call[u].c # call'[t].h,
         call'[t].op \in ConnectOps => ~Named(t)',
         Drops(t)' => /\ \A u \in Threads \ {t} : Claims(u) => call[u].h # call'[t].h
                      /\ call'[t].h \notin known'
  PROVE  LongInv' /\ KeyStays
<1>1. SameMapping(table, table')
  BY DEF SameMapping
<1>2. call[t].at \notin Updating /\ call'[t].at \notin Updating \cup AtTable
  BY DEF Starting, Updating, AtTable
<1>3. /\ Frame(t) /\ World' /\ KeyStays
      /\ \A x : ~New(t, x)' /\ ~Left(t, x)'
  BY <1>1, <1>2, QuietFrame
<1>4. Sections'
  BY SectionsKept DEF UnderLock, Starting
<1>5. LockMoves(t)
  BY <1>2 DEF LockMoves, AtTable
<1>6. Claims(t)' => Named(t)'
  BY DEF Claims
<1>7. Named(t)' => /\ call'[t].h \in Slots /\ Usable(call'[t].h)
                   /\ call'[t].c \in HandleNums
                   /\ call'[t].op \in OfStmt <=> call'[t].h # call'[t].c
                   /\ table[call'[t].h].hdbc = call'[t].c
  <2> SUFFICES ASSUME Named(t)'
               PROVE  /\ call'[t].h \in Slots /\ Usable(call'[t].h)
                      /\ call'[t].c \in HandleNums
                      /\ call'[t].op \in OfStmt <=> call'[t].h # call'[t].c
                      /\ table[call'[t].h].hdbc = call'[t].c
    OBVIOUS
  <2>1. Usable(call'[t].h)
    BY DEF LongInv, KnownGood
  <2>2. /\ call'[t].h \in Slots
        /\ table[call'[t].h].hdbc = db2[call'[t].h].parent
        /\ Usable(db2[call'[t].h].parent)
        /\ db2[call'[t].h].kind = "stmt" <=> db2[call'[t].h].parent # call'[t].h
    BY <2>1, UsableFacts
  <2> QED BY <2>1, <2>2 DEF Usable
<1>8. HandleIsGood(t)'
  <2>1. ~(call'[t].at \in {"bye", "byelock", "byetable"})
    BY DEF Starting
  <2>2. ~Left(t, call[t].h)'
    BY <1>3
  <2>3. Named(t)' => /\ call'[t].h \in HandleNums
                     /\ db2'[call'[t].h].parent = call'[t].c
                     /\ Db2Alive(db2, call[t].h)'
                     /\ table'[call'[t].h].hstmt # 0
    BY <1>7 DEF Usable, Db2Alive
  <2> QED BY <1>6, <1>7, <2>1, <2>2, <2>3 DEF HandleIsGood
<1>9. OtherIsGood(t)'
  BY DEF OtherIsGood, Starting
<1>10. \A u \in Threads \ {t} :
         /\ call'[u] = call[u]
         /\ Claims(u)' <=> Claims(u)
         /\ Owns(u)' <=> Owns(u)
         /\ Drops(u)' <=> Drops(u)
         /\ Commands(u)' <=> Commands(u)
         /\ \A x : New(u, x)' <=> New(u, x)
  BY <1>3, Unmoved, UnmovedGood DEF Others
<1>14. ~Commands(t)'
  BY DEF Commands, Starting
<1>11. Alone'
  <2>1. ASSUME NEW u \in Threads, NEW v \in Threads, u # v, Claims(v)'
        PROVE  /\ Owns(u)' => call'[v].c # call'[u].h
               /\ Claims(u)' /\ call'[u].op \in ReleaseOps /\ call'[v].op \in ConnectOps
                    => call'[v].c # call'[u].h
               /\ Drops(u)' => call'[v].h # call'[u].h
               /\ Commands(u)' => call'[v].h # call'[u].o
               /\ ~New(u, call[v].h)'
    <3>1. CASE u = t
      BY <1>3, <1>10, <1>14, <2>1, <3>1
    <3>2. CASE v = t
      <4>1. /\ call'[t].h \in known /\ Usable(call'[t].h)
            /\ call'[t].c = db2[call'[t].h].parent
        BY <1>6, <1>7, <2>1, <3>2
      <4>2. ~New(u, call'[t].h)
        BY <4>1, UsableFacts
      <4>3. ~New(u, call[v].h)'
        BY <1>10, <2>1, <3>2, <4>2 DEF New
      <4>4. call'[t].op \notin ConnectOps
        BY <1>6, <2>1, <3>2
      <4> QED BY <1>10, <2>1, <3>2, <4>1, <4>3, <4>4 DEF LongInv, TakenBack
    <3>3. CASE u # t /\ v # t
      <4>1. Claims(v) /\ ~New(u, call[v].h)
        BY <1>10, <2>1, <3>3 DEF LongInv, Alone
      <4>2. ~New(u, call[v].h)'
        BY <1>10, <3>3, <4>1 DEF New
      <4> QED BY <1>10, <2>1, <3>3, <4>1, <4>2 DEF LongInv, Alone
    <3> QED BY <3>1, <3>2, <3>3
  <2> QED BY <2>1 DEF Alone
<1>12. TakenBack'
  <2>1. ASSUME NEW u \in Threads
        PROVE  /\ Owns(u)' => \A x \in known' : db2'[x].parent # call'[u].h
               /\ Drops(u)' => call'[u].h \notin known'
               /\ Commands(u)' => call'[u].o \notin known'
    BY <1>10, <1>14 DEF LongInv, TakenBack
  <2> QED BY <2>1 DEF TakenBack
<1>13. LongInv'
  BY <1>3, <1>4, <1>5, <1>8, <1>9, <1>11, <1>12, StepKeeps DEF Good
<1> QED BY <1>3, <1>13

\* The start of a plain call on a handle.
LEMMA PlainStarts ==
  ASSUME LongInv, TypeOK', NEW t \in Threads, NEW op, NEW h, NEW label,
         Begin(t, op, h, label),
         op \in CallOps \ {"AllocConnect", "FreeStmtClose"},
         h \in known, op \in OfStmt <=> db2[h].kind = "stmt", known' \subseteq known,
         op \in ReleaseOps => ~InUseByOthers(t, h) /\ known' = known \ GivenBack(h),
         op = "FreeStmtDrop" => ~InUseByOthers(t, h) /\ known' = known \ {h},
         op = "FreeConnect" => ~db2[h].connected,
         \/ label = "check" /\ op \in ReleaseOps
         \/ label = "want" /\ op \in {"StmtCall", "ConnCall", "Connect"}
         \/ label = "bare" /\ op = "EndTran"
         \/ label = "glock" /\ op \in {"AllocStmt", "FreeStmtDrop"}
  PROVE  LongInv' /\ KeyStays
<1>1. /\ Others(t) /\ call[t].at = "idle" /\ call'[t].at = label /\ call'[t].op = op
      /\ call'[t].h = h /\ call'[t].c = db2[h].parent
      /\ call'[t].m = LockIndex(table, h, Flag(op)) /\ UNCHANGED <<table, mutex, glock, db2>>
  BY BeginFacts DEF LongInv
<1>2. Usable(h)
  BY DEF LongInv, KnownGood
<1>3. /\ table[h].hdbc = db2[h].parent
      /\ db2[h].kind = "dbc" <=> db2[h].parent = h
      /\ db2[h].kind = "stmt" <=> db2[h].parent # h
  BY <1>2, UsableFacts
<1>4. op # "FreeStmtDrop" => call'[t].m = call'[t].c
  <2>1. op = "StmtCall" => call'[t].m = table[h].hdbc
    BY <1>1 DEF LockIndex, Flag
  <2>2. op # "StmtCall" => call'[t].m = h
    BY <1>1 DEF LockIndex, Flag
  <2> QED BY <1>1, <1>3, <2>1, <2>2 DEF OfStmt
<1>5. op \notin LongOps \cup Aggregates /\ label \in Starting
  BY DEF CallOps, LongOps, Aggregates, ConnectOps, CloseOps, Starting
<1>6. PlaceOK(t)'
  BY <1>1 DEF PlaceOK, LockOps, AllocOps
<1>7. StateIsGood(t)'
  BY <1>1, <1>5 DEF StateIsGood, Opens, Aggregates, ConnectOps, CloseOps, ReleaseOps
<1>8. KeysApart'
  BY <1>1, <1>5, KeysKept
<1>9. Owns(t)' => op \in ReleaseOps
  BY <1>1, <1>5 DEF Owns, Opens, Aggregates
<1>10. op \in ReleaseOps => db2[h].kind = "dbc"
  BY <1>3 DEF ReleaseOps, OfStmt
<1>11. op \in ReleaseOps => /\ \A u \in Threads \ {t} : Claims(u) => call[u].c # call'[t].h
                            /\ \A x \in known' : db2[x].parent # call'[t].h
  BY <1>1, <1>10 DEF InUseByOthers, GivenBack, Claims, Named
<1>13. call'[t].op \notin ConnectOps
  BY <1>1, <1>5 DEF Aggregates
<1>12. Drops(t)' => /\ \A u \in Threads \ {t} : Claims(u) => call[u].h # call'[t].h
                    /\ call'[t].h \notin known'
  <2>1. Drops(t)' => op = "FreeStmtDrop" /\ db2[h].kind = "stmt"
    BY <1>1 DEF Drops, OfStmt
  <2> QED BY <1>1, <2>1 DEF InUseByOthers, Claims, Named
<1> QED BY <1>1, <1>4, <1>5, <1>6, <1>7, <1>8, <1>9, <1>11, <1>12, <1>13, Starts

LEMMA BeginCallStep ==
  ASSUME CarefulClients, LongInv, TypeOK', NEW t \in Threads, BeginCall(t)
  PROVE  LongInv' /\ KeyStays
<1> USE DEF CarefulClients
<1>1. CASE BeginAllocConnect(t)
  <2>1. Begin(t, "AllocConnect", 0, "glock") /\ known' = known
    BY <1>1 DEF BeginAllocConnect
  <2>2. /\ Others(t) /\ call[t].at = "idle" /\ call'[t].at = "glock"
        /\ call'[t].op = "AllocConnect" /\ UNCHANGED <<table, mutex, glock, db2>>
    BY <2>1, BeginFacts DEF LongInv
  <2>3. /\ PlaceOK(t)' /\ StateIsGood(t)' /\ ~Named(t)' /\ ~Owns(t)' /\ ~Drops(t)'
        /\ call'[t].op \notin LongOps \cup ReleaseOps /\ "glock" \in Starting
    BY <2>2 DEF PlaceOK, AllocOps, StateIsGood, Named, Claims, Owns, Opens, Drops, Starting,
                ReleaseOps, Aggregates, ConnectOps, CloseOps, LongOps
  <2>4. KeysApart'
    BY <2>2, <2>3, KeysKept
  <2> QED BY <2>1, <2>2, <2>3, <2>4, Starts
<1>2. ASSUME NEW h \in HandleNums,
             \/ BeginAllocStmt(t, h) \/ BeginConnCall(t, h)
             \/ BeginConnect(t, h) \/ BeginEndTran(t, h)
      PROVE  LongInv' /\ KeyStays
  <2>1. h \in known /\ db2[h].kind = "dbc" /\ known' = known
    BY <1>2 DEF BeginAllocStmt, BeginConnCall, BeginConnect, BeginEndTran
  <2>2. \/ Begin(t, "AllocStmt", h, "glock")
        \/ Begin(t, "ConnCall", h, "want")
        \/ Begin(t, "Connect", h, "want")
        \/ Begin(t, "EndTran", h, "bare")
    BY <1>2 DEF BeginAllocStmt, BeginConnCall, BeginConnect, BeginEndTran
  <2> QED BY <2>1, <2>2, PlainStarts DEF CallOps, OfStmt, ReleaseOps
<1>3. ASSUME NEW h \in HandleNums, BeginStmtCall(t, h) PROVE LongInv' /\ KeyStays
  <2>1. /\ h \in known /\ db2[h].kind = "stmt" /\ known' = known
        /\ Begin(t, "StmtCall", h, "want")
    BY <1>3 DEF BeginStmtCall
  <2> QED BY <2>1, PlainStarts DEF CallOps, OfStmt, ReleaseOps
<1>4. ASSUME NEW h \in HandleNums, BeginFreeStmt(t, h) PROVE LongInv' /\ KeyStays
  <2>1. h \in known /\ db2[h].kind = "stmt" /\ ~InUseByOthers(t, h)
    BY <1>4 DEF BeginFreeStmt
  <2>2. Begin(t, "FreeStmtDrop", h, "glock") /\ known' = known \ {h}
    BY <1>4 DEF BeginFreeStmt, Begin
  <2> QED BY <2>1, <2>2, PlainStarts DEF CallOps, OfStmt, ReleaseOps
<1>5. ASSUME NEW h \in HandleNums, BeginDisconnect(t, h) \/ BeginFreeConnect(t, h)
      PROVE  LongInv' /\ KeyStays
  <2>1. /\ h \in known /\ db2[h].kind = "dbc" /\ ~InUseByOthers(t, h)
        /\ known' = known \ GivenBack(h)
    BY <1>5 DEF BeginDisconnect, BeginFreeConnect, BeginRelease
  <2>2. \/ Begin(t, "Disconnect", h, "check")
        \/ Begin(t, "FreeConnect", h, "check") /\ ~db2[h].connected
    BY <1>5 DEF BeginDisconnect, BeginFreeConnect, BeginRelease
  <2> QED BY <2>1, <2>2, PlainStarts DEF CallOps, OfStmt, ReleaseOps
<1> QED BY <1>1, <1>2, <1>3, <1>4, <1>5 DEF BeginCall

\* An aggregate function starts.
LEMMA BeginLongStep ==
  ASSUME CarefulClients, LongInv, TypeOK', NEW t \in Threads, BeginLong(t)
  PROVE  LongInv' /\ KeyStays
<1>1. ASSUME NEW op \in ConnectOps, NEW key \in Keys \cup {NoKey},
             op = "SQL400pConnect" => key \in Keys,
             op = "SQL400Connect" => key = NoKey,
             BeginConnectBoth(t, op, key)
      PROVE  LongInv' /\ KeyStays
  <2>1. /\ call[t].at = "idle" /\ Others(t) /\ UNCHANGED <<table, mutex, glock, db2, known>>
        /\ call'[t].at = (IF op = "SQL400pConnect" THEN "lookup" ELSE "glock")
        /\ call'[t].op = op /\ call'[t].key = key
    BY <1>1 DEF BeginConnectBoth, Others, LongInv, TypeOK, Started
  <2>2. call'[t].at \in Starting /\ PlaceOK(t)'
    BY <2>1 DEF Starting, PlaceOK, ConnectOps
  <2>3. ~Named(t)' /\ ~Owns(t)' /\ ~Drops(t)' /\ op \notin ReleaseOps
    BY <2>1 DEF Named, Claims, Owns, Opens, Drops, ConnectOps, ReleaseOps
  <2>4. StateIsGood(t)'
    BY <1>1, <2>1, <2>3 DEF StateIsGood, Claims, ConnectOps, CloseOps
  <2>5. KeysApart'
    <3>1. ASSUME NEW u \in Threads \ {t}, key # NoKey, call[u].op \in CloseOps
          PROVE  call[u].key # key
      BY <1>1, <3>1 DEF BeginConnectBoth, KeyInUseByOthers, CarefulClients
    <3>2. op \notin CloseOps
      BY DEF ConnectOps, CloseOps
    <3> QED BY <2>1, <3>1, <3>2 DEF LongInv, KeysApart, Others
  <2> QED BY <2>1, <2>2, <2>3, <2>4, <2>5, Starts
<1>2. ASSUME NEW op \in CloseOps, NEW h \in HandleNums, BeginClose(t, op, h)
      PROVE  LongInv' /\ KeyStays
  <2>1. /\ call[t].at = "idle" /\ Others(t) /\ UNCHANGED <<table, mutex, glock, db2>>
        /\ call'[t].at = "want" /\ call'[t].op = op /\ call'[t].h = h /\ call'[t].c = h
        /\ call'[t].m = h /\ call'[t].key = table[h].hKey
        /\ known' = known \ GivenBack(h)
    BY <1>2 DEF BeginClose, Others, LongInv, TypeOK, Started
  <2>2. /\ h \in known /\ db2[h].kind = "dbc" /\ ~InUseByOthers(t, h)
        /\ ~KeyInUseByOthers(t, table[h].hKey, ConnectOps)
    BY <1>2 DEF BeginClose, CarefulClients
  <2>3. db2[h].parent = h /\ Usable(h)
    <3>1. Usable(h)
      BY <2>2 DEF LongInv, KnownGood
    <3> QED BY <2>2, <3>1, UsableFacts
  <2>4. call'[t].at \in Starting /\ PlaceOK(t)'
    BY <2>1 DEF Starting, PlaceOK, Aggregates
  <2>5. op \notin ConnectOps \cup ReleaseOps \cup OfStmt \cup {"FreeConnect", "FreeStmtDrop"}
    BY DEF CloseOps, ConnectOps, ReleaseOps, OfStmt
  <2>6. StateIsGood(t)'
    BY <2>1, <2>5 DEF StateIsGood, Opens, ConnectOps
  <2>7. KeysApart'
    <3>1. ASSUME NEW u \in Threads \ {t}, call[u].op \in ConnectOps, call[u].key # NoKey
          PROVE  call[u].key # table[h].hKey
      BY <2>2, <3>1 DEF KeyInUseByOthers
    <3> QED BY <2>1, <2>5, <3>1 DEF LongInv, KeysApart, Others
  <2>8. known' \subseteq known /\ \A x \in known' : db2[x].parent # h
    BY <2>1, <2>2 DEF GivenBack
  <2>9. \A u \in Threads \ {t} : Claims(u) => call[u].c # h
    BY <2>2 DEF InUseByOthers, Claims, Named
  <2>10. ~Drops(t)'
    BY <2>1, <2>5 DEF Drops
  <2> QED BY <2>1, <2>2, <2>3, <2>4, <2>5, <2>6, <2>7, <2>8, <2>9, <2>10, Starts
<1> QED BY <1>1, <1>2 DEF BeginLong, ConnectOps

-----------------------------------------------------------------------------
(* SQL400Connect and SQL400pConnect                                          *)

\* init_table_hash_2_conn_both takes the first slot that has the key.
LEMMA HashLeast ==
  ASSUME NEW tab \in [Slots -> Slot], NEW key, key \notin WideKeys,
         NEW g \in Slots, tab[g].hKey = key
  PROVE  \E i \in Slots : tab[i].hKey = key /\ Hash2Conn(tab, key) = tab[i].hdbc
<1> DEFINE hits == {i \in Slots : tab[i].hKey = key /\ key \notin WideKeys}
<1>1. hits # {}
  OBVIOUS
<1>2. hits \subseteq Nat
  BY SlotTypes
<1>3. PICK i \in hits : \A j \in hits : ~(<<j, i>> \in OpToRel(<, Nat))
  BY <1>1, <1>2, NatLessThanWellFounded, WFMin
<1>4. \A j \in hits : i <= j
  <2> SUFFICES ASSUME NEW j \in hits PROVE i <= j
    OBVIOUS
  <2>1. i \in Nat /\ j \in Nat
    BY <1>2
  <2>2. ~(j < i)
    BY <1>3, <2>1 DEF OpToRel
  <2> QED BY <2>1, <2>2
<1>5. (CHOOSE k \in hits : \A j \in hits : k <= j) \in hits
  <2> HIDE DEF hits
  <2> QED BY <1>3, <1>4
<1>6. Hash2Conn(tab, key) = tab[CHOOSE k \in hits : \A j \in hits : k <= j].hdbc
  BY <1>1 DEF Hash2Conn
<1> QED BY <1>5, <1>6

\* It finds the connection in its own slot.
LEMMA HashFinds ==
  ASSUME LongInv, NEW key \in Keys, Hash2Conn(table, key) > 1
  PROVE  \E i \in HandleNums :
           /\ Hash2Conn(table, key) = i
           /\ i \in Slots /\ table[i].hKey = key /\ key # NoKey
           /\ table[i].hstmt # 0 /\ table[i].hdbc = i /\ db2[i].kind = "dbc"
           /\ Db2Alive(db2, i) /\ Usable(i) /\ db2[i].parent = i
<1>1. key # NoKey
  BY TableAssumption
<1>2. key \notin WideKeys /\ \E g \in Slots : table[g].hKey = key
  BY DEF Hash2Conn
<1>3. PICK i \in Slots : table[i].hKey = key /\ Hash2Conn(table, key) = table[i].hdbc
  BY <1>2, HashLeast DEF LongInv, TypeOK
<1>4. /\ table[i].hstmt # 0 /\ table[i].hdbc = i /\ db2[i].kind = "dbc"
      /\ Db2Alive(db2, i) /\ i \in HandleNums
  BY <1>1, <1>3 DEF LongInv, Keyed, Tree, Db2Alive
<1>5. Usable(i) /\ db2[i].parent = i
  BY <1>4, TreeFacts DEF Usable, LongInv
<1> QED BY <1>1, <1>3, <1>4, <1>5

\* A persistent connection that is found is nobody's to close.
LEMMA LookupStep ==
  ASSUME LongInv, TypeOK', NEW t \in Threads, Lookup(t)
  PROVE  LongInv' /\ KeyStays
<1> DEFINE key == call[t].key
           found == Hash2Conn(table, key)
<1>1. /\ call[t].at = "lookup" /\ call[t].op = "SQL400pConnect" /\ glock = NoThread
      /\ UNCHANGED <<table, mutex, glock, db2>>
  BY GoodFacts DEF Lookup, PlaceOK
<1>2. key \in Keys /\ key # NoKey
  BY <1>1, GoodFacts, TableAssumption DEF StateIsGood
<1>3. SameMapping(table, table')
  BY <1>1 DEF SameMapping
<1>4. CASE found > 1
  <2>1. Return(t, {found})
    BY <1>4 DEF Lookup
  <2>2. PICK i \in HandleNums :
          /\ found = i
          /\ i \in Slots /\ table[i].hKey = key
          /\ table[i].hstmt # 0 /\ table[i].hdbc = i /\ db2[i].kind = "dbc"
          /\ Db2Alive(db2, i) /\ Usable(i) /\ db2[i].parent = i
    BY <1>2, <1>4, HashFinds
  <2>3. ASSUME NEW u \in Threads \ {t}, Owns(u) PROVE call[u].h # i
    <3> SUFFICES ASSUME call[u].h = i PROVE FALSE
      OBVIOUS
    <3>1. Claims(u) /\ Named(u) /\ StateIsGood(u)
      BY <2>3, GoodFacts DEF Owns, Opens, Claims
    <3>2. CASE call[u].op \in ReleaseOps
      BY <1>2, <2>2, <2>3, <3>1, <3>2 DEF Owns, Opens, StateIsGood, ReleaseOps, Aggregates, ConnectOps, CloseOps
    <3>3. CASE call[u].op \in CloseOps
      <4>1. call[u].key = key
        BY <1>2, <2>2, <3>1, <3>3 DEF StateIsGood, Aggregates
      <4> QED BY <1>1, <1>2, <2>3, <3>3, <4>1 DEF LongInv, KeysApart, ConnectOps
    <3>4. CASE Opens(u)
      BY <1>2, <2>2, <3>1, <3>4 DEF StateIsGood
    <3> QED BY <2>3, <3>2, <3>3, <3>4 DEF Owns
  <2>4. ASSUME NEW u \in Threads \ {t}, Drops(u) PROVE call[u].h # i
    <3>1. Claims(u) /\ call[u].op \in OfStmt
      BY <2>4 DEF Drops, Claims, Named, ConnectOps, CloseOps, OfStmt
    <3> QED BY <2>2, <3>1, ClaimFacts
  <2>9. ASSUME NEW u \in Threads \ {t}, Commands(u) PROVE call[u].o # i
    <3>1. /\ call[u].o # call[u].h
          /\ call[u].at # "cmdtable" => table[call[u].o].hdbc = call[u].h
      BY <2>9, OtherFacts DEF Commands
    <3>2. call[u].at # "cmdtable"
      BY <1>1, FreeLock DEF AtTable
    <3> QED BY <2>2, <3>1, <3>2
  <2>5. MayHandOut(t, i)
    BY <1>1, <2>2, <2>3, <2>4, <2>9 DEF MayHandOut
  <2>6. Others(t) /\ call'[t].at = "idle" /\ call[t].at \notin AtTable
    BY <1>1, <2>1 DEF LongInv, TypeOK, Return, Others, NoCall, Started, AtTable
  <2>7. Sections'
    BY <1>1, <2>6, SectionsKept DEF UnderLock
  <2>8. Return(t, {i})
    BY <2>1, <2>2
  <2> HIDE DEF found
  <2> QED BY <1>1, <1>3, <2>2, <2>5, <2>6, <2>7, <2>8, ReturnKeeps
<1>5. CASE ~(found > 1)
  <2>1. Goto(t, "glock") /\ known' = known
    BY <1>5 DEF Lookup
  <2>2. /\ Others(t) /\ call'[t].at = "glock"
        /\ call'[t].op = call[t].op /\ call'[t].h = call[t].h /\ call'[t].c = call[t].c
        /\ call'[t].key = key
    BY <2>1, GotoAll
  <2>3. Sections'
    BY <1>1, <2>2, SectionsKept DEF UnderLock
  <2>4. PlaceOK(t)' /\ LockMoves(t)
    BY <1>1, <2>2 DEF PlaceOK, LockMoves, AtTable, ConnectOps
  <2>5. ~Named(t)' /\ ~Claims(t)' /\ ~Owns(t)' /\ ~Drops(t)'
    BY <1>1, <2>2 DEF Named, Claims, Owns, Opens, Drops, ConnectOps
  <2>6. HandleIsGood(t)' /\ OtherIsGood(t)'
    BY <2>2, <2>5 DEF HandleIsGood, OtherIsGood, Left
  <2>8. StateIsGood(t)'
    BY <1>1, <1>2, <2>2, <2>5 DEF StateIsGood, CloseOps
  <2> QED BY <1>1, <1>3, <2>1, <2>2, <2>3, <2>4, <2>5, <2>6, <2>8, MoveOn DEF Good, Updating
<1> QED BY <1>4, <1>5

\* SQLAllocHandle: from its birth the connection is this call's.
LEMMA ConnectAllocsStep ==
  ASSUME LongInv, TypeOK', NEW t \in Threads, ConnectAllocs(t)
  PROVE  LongInv' /\ KeyStays
<1>1. /\ call[t].at = "glock" /\ call[t].op \in ConnectOps /\ glock = NoThread
      /\ UNCHANGED <<table, mutex>>
  BY DEF ConnectAllocs
<1>2. SameMapping(table, table')
  BY <1>1 DEF SameMapping
<1>3. CASE Return(t, {}) /\ UNCHANGED <<glock, db2>>
  <2>1. Others(t) /\ call'[t].at = "idle" /\ call[t].at \notin AtTable
    BY <1>1, <1>3 DEF LongInv, TypeOK, Return, Others, NoCall, Started, AtTable
  <2>2. Sections'
    BY <1>1, <2>1, SectionsKept DEF UnderLock
  <2> QED BY <1>2, <1>3, <2>1, <2>2, NoneHandedOut
<1>4. ASSUME NEW o \in HandleNums, ~Db2Alive(db2, o), db2' = Db2NewDbc(db2, o),
             call' = [call EXCEPT ![t].at = "table", ![t].h = o, ![t].c = o, ![t].m = o],
             glock' = t, known' = known
      PROVE  LongInv' /\ KeyStays
  <2>1. /\ Others(t) /\ call'[t].at = "table" /\ call'[t].op = call[t].op
        /\ call'[t].h = o /\ call'[t].c = o /\ call'[t].m = o /\ call'[t].key = call[t].key
    BY <1>4 DEF LongInv, TypeOK, Call, Others
  <2>2. (\A y : New(t, y)' <=> y = o) /\ \A y : ~Left(t, y)'
    BY <1>1, <2>1 DEF New, Left, AllocOps, ConnectOps
  <2>3. /\ World' /\ Frame(t) /\ KeyStays
        /\ \A x \in Slots : x # o => Untouched(x)
        /\ \A x \in known : x # o /\ db2[x].parent # o
        /\ Db2Alive(db2, o)' /\ db2'[o].parent = o
        /\ \A u \in Threads : Claims(u) => call[u].h # o /\ call[u].c # o
    BY <1>1, <1>4, <2>1, <2>2, Born
  <2>4. Sections'
    BY <1>1, <2>1, SectionsKept DEF UnderLock
  <2>5. PlaceOK(t)' /\ LockMoves(t)
    BY <1>1, <1>4, <2>1 DEF PlaceOK, LockMoves, AtTable
  <2>6. ~Drops(t)' /\ Claims(t)'
    BY <1>1, <2>1 DEF Claims, Named, ConnectOps, CloseOps, Drops
  <2>7. HandleIsGood(t)'
    <3>1. call'[t].op \notin OfStmt \cup {"FreeStmtDrop"} /\ \A x : ~Left(t, x)'
      BY <1>1, <2>1, <2>2 DEF OfStmt, ConnectOps
    <3> QED BY <1>1, <1>4, <2>1, <2>3, <3>1 DEF HandleIsGood, Db2Alive
  <2>8. OtherIsGood(t)'
    BY <1>1, <2>1 DEF OtherIsGood, AllocOps, ConnectOps
  <2>9. StateIsGood(t)'
    <3>1. o \in Slots /\ table[o].hKey = NoKey
      BY <1>1, <1>4, FreeLock, SlotTypes DEF LongInv, Keyed
    <3> QED BY <1>1, <2>1, <3>1, GoodFacts DEF StateIsGood, ConnectOps, CloseOps, ReleaseOps
  <2>10. \A u \in Threads \ {t} :
           /\ call'[u] = call[u]
           /\ Claims(u)' <=> Claims(u)
           /\ Owns(u)' <=> Owns(u)
           /\ Drops(u)' <=> Drops(u)
           /\ Commands(u)' <=> Commands(u)
           /\ \A x : ~New(u, x)'
    BY <1>1, <2>1, <2>3, FreeLock, Unmoved, UnmovedGood DEF Others, New, AtTable
  <2>11. \A u \in Threads : (Owns(u) => Claims(u)) /\ (Drops(u) => Claims(u))
    BY DEF Owns, Opens, Drops, Claims, Named, ConnectOps, CloseOps
  <2>16. /\ call'[t].op \in ConnectOps /\ call'[t].op \notin ReleaseOps /\ ~Commands(t)'
         /\ \A u \in Threads : Commands(u) => call[u].o # o
         /\ \A u \in Threads : call[u].op \in ReleaseOps /\ Claims(u) => call[u].h # o
    <3>1. ~Commands(t)' /\ call'[t].op \in ConnectOps /\ call'[t].op \notin ReleaseOps
      BY <1>1, <2>1 DEF Commands, ConnectOps, ReleaseOps
    <3>2. ASSUME NEW u \in Threads, Commands(u) PROVE call[u].o # o
      BY <1>1, <1>4, <3>2, FreeLock, OtherFacts DEF Commands, AtTable
    <3> QED BY <2>3, <3>1, <3>2
  <2>12. Alone'
    <3>1. ASSUME NEW u \in Threads, NEW v \in Threads, u # v, Claims(v)'
          PROVE  /\ Owns(u)' => call'[v].c # call'[u].h
                 /\ Claims(u)' /\ call'[u].op \in ReleaseOps /\ call'[v].op \in ConnectOps
                      => call'[v].c # call'[u].h
                 /\ Drops(u)' => call'[v].h # call'[u].h
                 /\ Commands(u)' => call'[v].h # call'[u].o
                 /\ ~New(u, call[v].h)'
      <4>1. CASE u = t
        <5>1. Claims(v) /\ call'[v] = call[v]
          BY <2>10, <3>1, <4>1
        <5>2. ~New(u, call[v].h)'
          BY <1>1, <2>1, <2>3, <4>1, <5>1 DEF New, AllocOps, ConnectOps
        <5> QED BY <2>1, <2>3, <2>6, <2>16, <4>1, <5>1, <5>2
      <4>2. CASE v = t
        <5>1. ~New(u, call[v].h)'
          BY <2>10, <3>1, <4>2
        <5> QED BY <2>1, <2>3, <2>10, <2>11, <2>16, <3>1, <4>2, <5>1
      <4>3. CASE u # t /\ v # t
        <5>1. ~New(u, call[v].h)'
          BY <2>10, <4>3
        <5> QED BY <2>10, <3>1, <4>3, <5>1 DEF LongInv, Alone
      <4> QED BY <4>1, <4>2, <4>3
    <3> QED BY <3>1 DEF Alone
  <2>13. TakenBack'
    <3>1. \A x \in known : db2'[x].parent = db2[x].parent
      BY <2>3 DEF Frame, Untouched
    <3>2. ASSUME NEW u \in Threads
          PROVE  /\ Owns(u)' => \A x \in known' : db2'[x].parent # call'[u].h
                 /\ Drops(u)' => call'[u].h \notin known'
                 /\ Commands(u)' => call'[u].o \notin known'
      <4>1. CASE u = t
        BY <1>4, <2>1, <2>3, <2>6, <2>16, <3>1, <4>1
      <4>2. CASE u # t
        <5>1. /\ call'[u] = call[u] /\ (Owns(u)' <=> Owns(u)) /\ (Drops(u)' <=> Drops(u))
              /\ Commands(u)' <=> Commands(u)
          BY <2>10, <4>2
        <5>2. /\ Owns(u) => \A x \in known : db2[x].parent # call[u].h
              /\ Drops(u) => call[u].h \notin known
              /\ Commands(u) => call[u].o \notin known
          BY DEF LongInv, TakenBack
        <5>3. known' = known /\ call'[u].h = call[u].h
          BY <1>4, <5>1
        <5>4. Owns(u)' => \A x \in known' : db2'[x].parent # call'[u].h
          BY <3>1, <5>1, <5>2, <5>3
        <5>5. Drops(u)' => call'[u].h \notin known'
          BY <5>1, <5>2, <5>3
        <5>6. Commands(u)' => call'[u].o \notin known'
          BY <5>1, <5>2, <5>3
        <5> QED BY <5>4, <5>5, <5>6
      <4> QED BY <4>1, <4>2
    <3> QED BY <3>2 DEF TakenBack
  <2>14. KeysApart'
    BY <2>1, KeysKept
  <2>15. LongInv'
    BY <1>4, <2>3, <2>4, <2>5, <2>7, <2>8, <2>9, <2>12, <2>13, <2>14, StepKeeps DEF Good
  <2> QED BY <2>3, <2>15
<1> QED BY <1>3, <1>4 DEF ConnectAllocs

\* What a thread may change is in no client's hands.
LEMMA MineUnknown ==
  ASSUME LongInv, NEW t \in Threads, NEW y \in Slots, Mine(t, y)
  PROVE  y \notin known
<1> SUFFICES ASSUME y \in known PROVE FALSE
  OBVIOUS
<1>1. Usable(y)
  BY DEF LongInv, KnownGood
<1>2. table[y].hstmt # 0 /\ table[y].hdbc = db2[y].parent
  BY <1>1, UsableFacts DEF Usable
<1>3. Owns(t) => db2[y].parent # call[t].h /\ (y = call[t].h => table[y].hdbc = y)
  BY <1>2, ClaimFacts DEF Owns, Opens, LongInv, TakenBack
<1>4. ~New(t, y) /\ ~(Drops(t) /\ y = call[t].h)
  BY <1>2, NewFacts DEF LongInv, TakenBack
<1>5. ~(Commands(t) /\ y = call[t].o)
  BY DEF LongInv, TakenBack
<1> QED BY <1>2, <1>3, <1>4, <1>5 DEF Mine

\* The call unlocks and returns, with its own handle or with none.
LEMMA UnlockAndReturn ==
  ASSUME LongInv, TypeOK', NEW t \in Threads, NEW back, TableUnlock(t), Return(t, back),
         UnderLock(t), call[t].at \notin AtTable, glock' = glock, db2' = db2,
         back # {} => Claims(t) /\ call[t].h = call[t].c /\ Usable(call[t].h),
         \A x \in back : x = call[t].h
  PROVE  LongInv' /\ KeyStays
<1>1. Others(t) /\ call'[t].at = "idle"
  BY DEF LongInv, TypeOK, Return, Others, NoCall, Started
<1>2. ~UnderLock(t)'
  BY <1>1 DEF UnderLock
<1>3. Sections' /\ SameMapping(table, table')
  BY <1>1, <1>2, UnlockFacts
<1>4. ASSUME NEW x \in back PROVE Usable(x) /\ MayHandOut(t, x)
  <2>1. x = call[t].h /\ Claims(t) /\ call[t].h = call[t].c /\ Usable(call[t].h)
    BY <1>4
  <2>2. table[x].hdbc = db2[x].parent /\ table[x].hstmt # 0 /\ x \in Slots
    BY <2>1, UsableFacts DEF Usable
  <2>3. db2[x].parent = call[t].c
    BY <2>1, <2>2, ClaimFacts
  <2> QED BY <2>1, <2>2, <2>3, HandOut
<1> QED BY <1>3, <1>4, ReturnKeeps

\* The connection inside a connect or a close.
LEMMA Inside ==
  ASSUME LongInv, NEW t \in Threads, Claims(t), call[t].op \in Aggregates
  PROVE  /\ Named(t) /\ ~Drops(t)
         /\ call[t].op \in CloseOps \/ Opens(t) => Owns(t) /\ Mine(t, call[t].h)
         /\ call[t].h = call[t].c /\ call[t].h \in HandleNums /\ call[t].h \in Slots
         /\ call[t].m = call[t].c /\ call[t].op \notin OfStmt \cup ReleaseOps
         /\ call[t].at # "byetable" => Db2Alive(db2, call[t].h) /\ db2[call[t].h].parent = call[t].h
                                       /\ db2[call[t].h].kind = "dbc"
         /\ call[t].at \notin {"bye", "byelock", "byetable", "table"} =>
              Usable(call[t].h) /\ table[call[t].h].hdbc = call[t].h
         /\ table[call[t].h].hKey \in {NoKey, call[t].key}
         /\ \A x : ~Left(t, call[t].h)
<1>1. /\ Named(t)
      /\ call[t].op \in CloseOps \/ Opens(t) => Owns(t) /\ Mine(t, call[t].h)
  BY DEF Owns, Claims, Mine
<1>2. call[t].op \notin OfStmt \cup ReleaseOps \cup {"FreeStmtDrop", "FreeConnect"}
  BY DEF Aggregates, ConnectOps, CloseOps, OfStmt, ReleaseOps
<1>3. call[t].h = call[t].c /\ call[t].h \in HandleNums /\ call[t].h \in Slots
      /\ call[t].m = call[t].c
  BY <1>1, <1>2, ClaimFacts, GoodFacts DEF HandleIsGood
<1>4. ~Left(t, call[t].h)
  <2>1. call[t].at = "freed" => call[t].o # call[t].h
    BY OtherFacts
  <2> QED BY <1>2, <2>1 DEF Left
<1>5. call[t].at # "byetable" => Db2Alive(db2, call[t].h) /\ db2[call[t].h].parent = call[t].h
  BY <1>3, <1>4, ClaimFacts
<1>6. call[t].at # "byetable" => db2[call[t].h].kind = "dbc"
  BY <1>3, <1>5, TreeFacts DEF LongInv
<1>7. call[t].at \notin {"bye", "byelock", "byetable", "table"} =>
        table[call[t].h].hstmt # 0 /\ table[call[t].h].hdbc = call[t].h
  BY <1>3, GoodFacts DEF HandleIsGood
<1>8. table[call[t].h].hKey \in {NoKey, call[t].key}
  BY GoodFacts DEF StateIsGood
<1> QED BY <1>1, <1>2, <1>3, <1>4, <1>5, <1>6, <1>7, <1>8 DEF Usable, Drops

LEMMA ConnectCtorStep ==
  ASSUME LongInv, TypeOK', NEW t \in Threads, ConnectCtor(t)
  PROVE  LongInv' /\ KeyStays
<1> DEFINE h == call[t].h
<1>1. /\ call[t].at = "table" /\ call'[t].at = "want" /\ Others(t)
      /\ call[t].op \in ConnectOps /\ call[t].op \in Aggregates
      /\ call'[t].op = call[t].op /\ call'[t].h = h /\ call'[t].c = call[t].c
      /\ call'[t].m = call[t].m /\ call'[t].key = call[t].key
      /\ glock' = NoThread /\ UNCHANGED <<mutex, db2, known>>
  BY GotoAll DEF ConnectCtor, Aggregates
<1>2. Claims(t) /\ New(t, h)
  BY <1>1 DEF Claims, Named, ConnectOps, CloseOps, New
<1>3. /\ Owns(t) /\ h = call[t].c /\ h \in HandleNums /\ h \in Slots
      /\ call[t].m = call[t].c /\ call[t].op \notin OfStmt \cup ReleaseOps
      /\ Db2Alive(db2, h) /\ db2[h].parent = h /\ ~Drops(t)
  BY <1>1, <1>2, Inside DEF Opens
<1>4. table' = Ctor(table, h, db2[h].parent)
  BY <1>3 DEF ConnectCtor
<1>5. call[t].at \in AtTable /\ call'[t].at \notin AtTable
  BY <1>1 DEF AtTable
<1>6. /\ World' /\ Frame(t) /\ KeyStays /\ LockMoves(t)
      /\ \A x : x = h => Usable(x)'
      /\ \A y \in Slots : y # h => Untouched(y)
      /\ table'[h].hdbc = h /\ table'[h].hKey = NoKey
      /\ \A y : ~New(t, y)' /\ ~Left(t, y)'
  BY <1>1, <1>2, <1>3, <1>4, <1>5, FilesNew
<1>7. ~Drops(t)'
  BY <1>1, <1>3 DEF Drops
<1>8. Alone' /\ TakenBack'
  BY <1>1, <1>2, <1>3, <1>6, <1>7, PairsKept
<1>9. KeysApart'
  BY <1>1, KeysKept
<1>10. Sections'
  BY <1>1, SectionsKept DEF UnderLock
<1>11. PlaceOK(t)'
  BY <1>1 DEF PlaceOK
<1>12. HandleIsGood(t)'
  <2>1. table'[h].hstmt # 0
    BY <1>1, <1>6 DEF Usable
  <2> QED BY <1>1, <1>3, <1>6, <2>1 DEF HandleIsGood, OfStmt, ConnectOps, Db2Alive
<1>13. OtherIsGood(t)'
  BY <1>1 DEF OtherIsGood
<1>14. StateIsGood(t)'
  <2>1. StateIsGood(t)
    BY GoodFacts
  <2> QED BY <1>1, <1>3, <1>6, <2>1 DEF StateIsGood, ConnectOps, CloseOps, ReleaseOps
<1>15. LongInv'
  BY <1>1, <1>6, <1>8, <1>9, <1>10, <1>11, <1>12, <1>13, <1>14, StepKeeps DEF Good
<1> QED BY <1>6, <1>15

\* SQLConnect answers.
LEMMA ConnectInDb2Step ==
  ASSUME LongInv, TypeOK', NEW t \in Threads, ConnectInDb2(t)
  PROVE  LongInv' /\ KeyStays
<1> DEFINE h == call[t].h
<1>1. /\ call[t].at = "db2" /\ call[t].op \in ConnectOps /\ call[t].op \in Aggregates
      /\ glock' = glock
  BY DEF ConnectInDb2, Aggregates
<1>2. Claims(t)
  BY <1>1 DEF Claims, Named, ConnectOps, CloseOps
<1>3. /\ h = call[t].c /\ Usable(h) /\ call[t].op \notin OfStmt \cup ReleaseOps
      /\ db2[h].parent = h /\ h \in Slots /\ call[t].m = call[t].c /\ table[h].hdbc = h
  BY <1>1, <1>2, Inside
<1>4. CASE TableUnlock(t) /\ Return(t, {h}) /\ db2' = db2
  <2>1. UnderLock(t) /\ call[t].at \notin AtTable
    BY <1>1 DEF UnderLock, AtTable
  <2> QED BY <1>1, <1>2, <1>3, <1>4, <2>1, UnlockAndReturn
<1>5. CASE /\ db2' = Db2Connect(db2, h)
           /\ Goto(t, IF call[t].op = "SQL400pConnect" THEN "addhash" ELSE "setup")
           /\ UNCHANGED <<table, mutex, known>>
  <2>1. /\ Others(t) /\ call'[t].at = (IF call[t].op = "SQL400pConnect" THEN "addhash" ELSE "setup")
        /\ call'[t].op = call[t].op /\ call'[t].h = h /\ call'[t].c = call[t].c
        /\ call'[t].m = call[t].m /\ call'[t].key = call[t].key
    BY <1>5, GotoAll
  <2>2. SameMapping(table, table')
    BY <1>5 DEF SameMapping
  <2>3. Sections'
    BY <1>1, <1>5, <2>1, SectionsKept DEF UnderLock
  <2>4. PlaceOK(t)' /\ LockMoves(t)
    BY <1>1, <2>1 DEF PlaceOK, LockMoves, AtTable, ConnectOps
  <2>5. (Owns(t)' => Owns(t)) /\ (Drops(t)' => Drops(t))
    BY <1>1, <1>2, <1>3, <2>1 DEF Owns, Opens, Drops
  <2>6. /\ db2'[h].connected /\ db2'[h].kind = db2[h].kind /\ db2'[h].parent = h
    BY <1>3, <1>5, Db2ConnectFacts DEF Db2Connect, LongInv, TypeOK, Db2Handle
  <2>7. HandleIsGood(t)'
    <3>1. \A x : ~Left(t, x)'
      BY <2>1 DEF Left
    <3> QED BY <1>3, <1>5, <2>1, <2>6, <3>1 DEF HandleIsGood, Db2Alive, Usable, OfStmt
  <2>8. OtherIsGood(t)'
    BY <2>1 DEF OtherIsGood
  <2>9. StateIsGood(t)'
    BY <1>1, <1>2, <1>3, <1>5, <2>1, <2>6, GoodFacts
       DEF StateIsGood, Opens, ConnectOps, CloseOps, ReleaseOps
  <2> QED BY <1>1, <1>2, <1>3, <1>5, <2>1, <2>2, <2>3, <2>4, <2>5, <2>7, <2>8, <2>9, MoveOn
          DEF Good, Updating
<1> QED BY <1>4, <1>5 DEF ConnectInDb2

\* The key is filed; from here on others find the connection.
LEMMA ConnectAddHashStep ==
  ASSUME LongInv, TypeOK', NEW t \in Threads, ConnectAddHash(t)
  PROVE  LongInv' /\ KeyStays
<1> DEFINE h == call[t].h
<1>1. /\ call[t].at = "addhash" /\ call'[t].at = "setup" /\ Others(t)
      /\ call[t].op = "SQL400pConnect" /\ call[t].op \in Aggregates
      /\ call'[t].op = call[t].op /\ call'[t].h = h /\ call'[t].c = call[t].c
      /\ call'[t].m = call[t].m /\ call'[t].key = call[t].key
      /\ table' = AddHash(table, h, call[t].key)
      /\ UNCHANGED <<mutex, glock, db2, known>>
  BY GotoAll, GoodFacts DEF ConnectAddHash, PlaceOK, Aggregates, ConnectOps
<1>2. Claims(t)
  BY <1>1 DEF Claims, Named, ConnectOps, CloseOps
<1>3. /\ Owns(t) /\ h = call[t].c /\ Usable(h) /\ call[t].op \notin OfStmt \cup ReleaseOps
      /\ db2[h].parent = h /\ h \in Slots /\ call[t].m = call[t].c /\ table[h].hdbc = h
      /\ db2[h].kind = "dbc" /\ Mine(t, h) /\ ~Drops(t)
  BY <1>1, <1>2, Inside DEF Opens, ConnectOps
<1>4. /\ db2[h].connected /\ call[t].key \in Keys /\ call[t].key # NoKey
  BY <1>1, GoodFacts, TableAssumption DEF StateIsGood, ConnectOps
<1>5. (\A x : ~New(t, x) /\ ~Left(t, x)) /\ (\A x : ~New(t, x)' /\ ~Left(t, x)')
  BY <1>1 DEF New, Left
<1>6. SameUpdates
  <2>1. ASSUME NEW v \in Threads, NEW y \in Slots
        PROVE (New(v, y)' <=> New(v, y)) /\ (Left(v, y)' <=> Left(v, y))
    <3>1. CASE v = t
      BY <1>5, <3>1
    <3>2. CASE v # t
      BY <1>1, <3>2, Unmoved DEF Others
    <3> QED BY <3>1, <3>2
  <2> QED BY <2>1 DEF SameUpdates
<1>7. /\ World'
      /\ \A i \in Slots : /\ table'[i].hstmt = table[i].hstmt
                          /\ table'[i].hdbc = table[i].hdbc
                          /\ table'[i].hKey = IF i = h THEN call[t].key ELSE table[i].hKey
  BY <1>1, <1>3, <1>4, <1>6, HashWorld, SMTT(30) DEF Usable
<1>8. \A y \in Slots : y # h => Untouched(y)
  BY <1>1, <1>7 DEF Untouched
<1>9. Frame(t)
  <2>1. \A u \in Threads \ {t}, y \in Slots : Uses(u, y) => Untouched(y)
    BY <1>3, <1>8, Apart
  <2>2. \A y \in known : Untouched(y)
    <3>1. h \notin known /\ known \subseteq Slots
      BY <1>3, MineUnknown DEF LongInv, TypeOK
    <3> QED BY <1>8, <3>1
  <2> QED BY <1>1, <1>7, <2>1, <2>2 DEF Frame
<1>10. KeyStays
  BY <1>4, <1>7 DEF KeyStays
<1>11. (Owns(t)' => Owns(t)) /\ (Drops(t)' => Drops(t))
  BY <1>1, <1>3 DEF Drops
<1>12. Alone' /\ TakenBack'
  BY <1>1, <1>2, <1>5, <1>9, <1>11, PairsKept
<1>13. KeysApart'
  BY <1>1, KeysKept
<1>14. Sections'
  BY <1>1, SectionsKept DEF UnderLock
<1>15. PlaceOK(t)' /\ LockMoves(t)
  BY <1>1 DEF PlaceOK, ConnectOps, LockMoves, AtTable
<1>16. HandleIsGood(t)'
  BY <1>1, <1>3, <1>5, <1>7 DEF HandleIsGood, Db2Alive, Usable, OfStmt
<1>17. OtherIsGood(t)'
  BY <1>1 DEF OtherIsGood
<1>18. StateIsGood(t)'
  BY <1>1, <1>3, <1>4, <1>7 DEF StateIsGood, Opens, CloseOps, ReleaseOps
<1>19. LongInv'
  BY <1>1, <1>7, <1>9, <1>12, <1>13, <1>14, <1>15, <1>16, <1>17, <1>18, StepKeeps DEF Good
<1> QED BY <1>10, <1>19

\* The connection is set up; a library list needs a statement.
LEMMA ConnectSetupStep ==
  ASSUME LongInv, TypeOK', NEW t \in Threads, ConnectSetup(t)
  PROVE  LongInv' /\ KeyStays
<1> DEFINE h == call[t].h
<1>1. call[t].at = "setup" /\ call[t].op \in ConnectOps /\ call[t].op \in Aggregates
  BY GoodFacts DEF ConnectSetup, PlaceOK, Aggregates
<1>2. Claims(t)
  BY <1>1 DEF Claims, Named, ConnectOps, CloseOps
<1>3. /\ h = call[t].c /\ Usable(h) /\ call[t].op \notin OfStmt \cup ReleaseOps
      /\ db2[h].parent = h /\ h \in Slots /\ h \in HandleNums /\ call[t].m = call[t].c
      /\ table[h].hdbc = h /\ db2[h].kind = "dbc"
  BY <1>1, <1>2, Inside
<1>4. CASE TableUnlock(t) /\ Return(t, {h}) /\ glock' = glock /\ db2' = db2
  <2>1. UnderLock(t) /\ call[t].at \notin AtTable
    BY <1>1 DEF UnderLock, AtTable
  <2> QED BY <1>2, <1>3, <1>4, <2>1, UnlockAndReturn
<1>5. ASSUME NEW o \in HandleNums, ~Db2Alive(db2, o), glock = NoThread,
             db2' = Db2NewStmt(db2, o, h),
             call' = [call EXCEPT ![t].at = "cmdtable", ![t].o = o],
             glock' = t, table' = table, mutex' = mutex, known' = known
      PROVE  LongInv' /\ KeyStays
  <2>1. /\ Others(t) /\ call'[t].at = "cmdtable" /\ call'[t].op = call[t].op /\ call'[t].o = o
        /\ call'[t].h = h /\ call'[t].c = call[t].c /\ call'[t].m = call[t].m
        /\ call'[t].key = call[t].key
    BY <1>5 DEF LongInv, TypeOK, Call, Others
  <2>2. (\A y : New(t, y)' <=> y = o) /\ \A y : ~Left(t, y)'
    BY <1>1, <2>1 DEF New, Left
  <2>3. db2[h].connected
    BY <1>1, GoodFacts DEF StateIsGood
  <2>4. /\ World' /\ Frame(t) /\ KeyStays
        /\ \A x \in Slots : x # o => Untouched(x)
        /\ db2'[o].parent = h /\ db2'[o].kind = "stmt"
        /\ \A u \in Threads : Claims(u) => call[u].h # o
    BY <1>3, <1>5, <2>1, <2>2, <2>3, Born
  <2>5. Untouched(h)
    BY <1>2, <1>3, <2>4
  <2>6. (Owns(t)' => Owns(t)) /\ (Drops(t)' => Drops(t))
    BY <1>1, <1>2, <1>3, <2>1 DEF Drops, Owns, Opens
  <2>7. Alone' /\ TakenBack'
    <3>1. ASSUME NEW u \in Threads \ {t}, Claims(u) PROVE ~New(t, call[u].h)'
      <4>1. call'[u] = call[u] /\ call[u].h # o
        BY <2>1, <2>4, <3>1 DEF Others
      <4> QED BY <2>1, <4>1 DEF New
    <3>2. o \notin known
      BY <1>5 DEF LongInv, KnownGood, Usable
    <3> QED BY <1>2, <1>5, <2>1, <2>4, <2>6, <3>1, <3>2, PairsKept
  <2>8. KeysApart'
    BY <2>1, KeysKept
  <2>9. Sections'
    BY <1>1, <1>5, <2>1, SectionsKept DEF UnderLock
  <2>10. PlaceOK(t)' /\ LockMoves(t)
    BY <1>1, <1>5, <2>1 DEF PlaceOK, LockMoves, AtTable
  <2>11. HandleIsGood(t)'
    BY <1>3, <2>1, <2>2, <2>5 DEF HandleIsGood, Untouched, Db2Alive, Usable, OfStmt
  <2>12. OtherIsGood(t)'
    BY <1>1, <1>5, <2>1, <2>4 DEF OtherIsGood
  <2>13. StateIsGood(t)'
    BY <1>1, <1>2, <1>3, <2>1, <2>5, GoodFacts
       DEF StateIsGood, Opens, Untouched, ConnectOps, CloseOps, ReleaseOps
  <2>14. LongInv'
    BY <1>5, <2>4, <2>7, <2>8, <2>9, <2>10, <2>11, <2>12, <2>13, StepKeeps DEF Good
  <2> QED BY <2>4, <2>14
<1> QED BY <1>4, <1>5 DEF ConnectSetup

\* The statement of the library list is filed.
LEMMA ConnectCmdCtorStep ==
  ASSUME LongInv, TypeOK', NEW t \in Threads, ConnectCmdCtor(t)
  PROVE  LongInv' /\ KeyStays
<1> DEFINE h == call[t].h
           o == call[t].o
<1>1. /\ call[t].at = "cmdtable" /\ call'[t].at = "cmd" /\ Others(t)
      /\ call[t].op \in ConnectOps /\ call[t].op \in Aggregates
      /\ call'[t].op = call[t].op /\ call'[t].h = h /\ call'[t].c = call[t].c
      /\ call'[t].m = call[t].m /\ call'[t].key = call[t].key /\ call'[t].o = o
      /\ glock' = NoThread /\ UNCHANGED <<mutex, db2, known>>
  BY GotoAll, GoodFacts DEF ConnectCmdCtor, Aggregates, PlaceOK
<1>2. /\ Claims(t) /\ New(t, o) /\ o # h /\ o \in HandleNums /\ o \in Slots
      /\ db2[o].kind = "stmt" /\ db2[o].parent = h
  BY <1>1, OtherFacts DEF New
<1>3. /\ h = call[t].c /\ Usable(h) /\ call[t].op \notin OfStmt \cup ReleaseOps
      /\ db2[h].parent = h /\ h \in Slots /\ call[t].m = call[t].c /\ table[h].hdbc = h
  BY <1>1, <1>2, Inside
<1>4. table' = Ctor(table, o, db2[o].parent)
  BY <1>2 DEF ConnectCmdCtor
<1>5. call[t].at \in AtTable /\ call'[t].at \notin AtTable
  BY <1>1 DEF AtTable
<1>6. /\ World' /\ Frame(t) /\ KeyStays /\ LockMoves(t)
      /\ \A x : x = o => Usable(x)'
      /\ \A y \in Slots : y # o => Untouched(y)
      /\ \A y : ~New(t, y)' /\ ~Left(t, y)'
  BY <1>1, <1>2, <1>4, <1>5, FilesNew
<1>7. Untouched(h)
  BY <1>2, <1>3, <1>6
<1>8. (Owns(t)' => Owns(t)) /\ (Drops(t)' => Drops(t))
  BY <1>1, <1>2, <1>3 DEF Drops, Owns, Opens
<1>9. Alone' /\ TakenBack'
  BY <1>1, <1>2, <1>6, <1>8, StillCommands, PairsKept DEF Commands
<1>10. KeysApart'
  BY <1>1, KeysKept
<1>11. Sections'
  BY <1>1, SectionsKept DEF UnderLock
<1>12. PlaceOK(t)'
  BY <1>1 DEF PlaceOK
<1>13. HandleIsGood(t)'
  BY <1>1, <1>3, <1>6, <1>7 DEF HandleIsGood, Untouched, Db2Alive, Usable, OfStmt
<1>14. OtherIsGood(t)'
  <2>1. table'[o].hstmt # 0
    BY <1>6 DEF Usable
  <2> QED BY <1>1, <1>2, <2>1 DEF OtherIsGood
<1>15. StateIsGood(t)'
  BY ZenonT(60), <1>1, <1>2, <1>3, <1>7, GoodFacts
  DEF StateIsGood, Opens, Untouched, ConnectOps, CloseOps, ReleaseOps
<1>16. LongInv'
  BY <1>1, <1>6, <1>9, <1>10, <1>11, <1>12, <1>13, <1>14, <1>15, StepKeeps DEF Good
<1> QED BY <1>6, <1>16

\* The command runs, under the mutex the thread owns.
LEMMA ConnectCmdStep ==
  ASSUME LongInv, TypeOK', NEW t \in Threads, ConnectCmd(t)
  PROVE  LongInv' /\ KeyStays
<1> DEFINE h == call[t].h
           o == call[t].o
<1>1. /\ call[t].at = "cmd" /\ call'[t].at = "free" /\ Others(t)
      /\ call[t].op \in ConnectOps /\ call[t].op \in Aggregates
      /\ call'[t].op = call[t].op /\ call'[t].h = h /\ call'[t].c = call[t].c
      /\ call'[t].m = call[t].m /\ call'[t].key = call[t].key /\ call'[t].o = o
      /\ UNCHANGED <<mutex, glock, db2, known>>
  BY GotoAll, GoodFacts DEF ConnectCmd, Aggregates, PlaceOK
<1>2. Claims(t) /\ o \in Slots
  BY <1>1, OtherFacts
<1>3. /\ h = call[t].c /\ Usable(h) /\ call[t].op \notin OfStmt \cup ReleaseOps
      /\ db2[h].parent = h /\ h \in Slots /\ call[t].m = call[t].c /\ table[h].hdbc = h
  BY <1>1, <1>2, Inside
<1>4. SameMapping(table, table')
  <2>1. SameMapping(table, MarkBusy(table, o, 1, t)) /\ MarkBusy(table, o, 1, t) \in [Slots -> Slot]
    BY <1>2, MarkBusyFacts DEF LongInv, TypeOK
  <2>2. SameMapping(MarkBusy(table, o, 1, t), table')
    BY <1>2, <2>1, MarkIdleFacts DEF ConnectCmd
  <2> QED BY <2>1, <2>2 DEF SameMapping
<1>5. (Owns(t)' => Owns(t)) /\ (Drops(t)' => Drops(t))
  BY <1>1, <1>2, <1>3 DEF Drops, Owns, Opens
<1>6. Sections'
  BY <1>1, SectionsKept DEF UnderLock
<1>7. PlaceOK(t)' /\ LockMoves(t)
  BY <1>1 DEF PlaceOK, LockMoves, AtTable
<1>8. HandleIsGood(t)'
  <2>1. \A x : ~Left(t, x)'
    BY <1>1 DEF Left
  <2> QED BY <1>1, <1>3, <1>4, <2>1 DEF HandleIsGood, SameMapping, Db2Alive, Usable, OfStmt
<1>9. OtherIsGood(t)'
  BY <1>1, <1>2, <1>4, GoodFacts DEF OtherIsGood, SameMapping
<1>10. StateIsGood(t)'
  BY <1>1, <1>2, <1>3, <1>4, GoodFacts
     DEF StateIsGood, Opens, SameMapping, ConnectOps, CloseOps, ReleaseOps
<1> QED BY <1>1, <1>2, <1>4, <1>5, <1>6, <1>7, <1>8, <1>9, <1>10, MoveOn DEF Good, Updating

-----------------------------------------------------------------------------
(* A statement is freed inside a connect or a close                          *)

LEMMA FreeStmtDb2Step ==
  ASSUME LongInv, TypeOK', NEW t \in Threads, FreeStmtInDb2(t)
  PROVE  LongInv' /\ KeyStays
<1> DEFINE h == call[t].h
           o == call[t].o
<1>1. /\ call[t].at = "free" /\ call'[t].at = "freed" /\ Others(t)
      /\ call[t].op \in Aggregates
      /\ call'[t].op = call[t].op /\ call'[t].h = h /\ call'[t].c = call[t].c
      /\ call'[t].m = call[t].m /\ call'[t].key = call[t].key /\ call'[t].o = o
      /\ call'[t].active = call[t].active
      /\ glock = NoThread /\ glock' = t /\ UNCHANGED <<table, mutex, known>>
  BY GotoAll, GoodFacts DEF FreeStmtInDb2, PlaceOK
<1>2. /\ Claims(t) /\ o # h /\ o \in HandleNums /\ o \in Slots
      /\ db2[o].kind = "stmt" /\ db2[o].parent = h /\ Db2Alive(db2, o)
      /\ table[o].hstmt # 0 /\ table[o].hdbc = h
  BY <1>1, OtherFacts
<1>3. /\ call[t].op \in CloseOps => Owns(t)
      /\ h = call[t].c /\ Usable(h) /\ call[t].op \notin OfStmt \cup ReleaseOps
      /\ db2[h].parent = h /\ h \in Slots /\ call[t].m = call[t].c /\ table[h].hdbc = h
  BY <1>1, <1>2, Inside
<1>4. db2' = [db2 EXCEPT ![o] = Db2Free]
  BY <1>2 DEF FreeStmtInDb2, Db2FreeStmt
<1>5. Mine(t, o)
  BY <1>1, <1>2, <1>3 DEF Mine, Commands, Aggregates
<1>6. (\A y : ~New(t, y)') /\ (\A y : Left(t, y)' <=> y = o)
  BY <1>1 DEF New, Left
<1>7. /\ World' /\ Frame(t) /\ KeyStays /\ LockMoves(t)
      /\ ~Db2Alive(db2, o)'
      /\ \A y \in Slots : y # o => Untouched(y)
  <2>1. (\A u \in Threads \ {t} : ~Uses(u, o)) /\ o \notin known
    BY <1>2, <1>5, Apart, MineUnknown
  <2> QED BY <1>1, <1>2, <1>4, <1>6, <2>1, FreesHandle DEF AtTable
<1>8. Untouched(h)
  BY <1>2, <1>3, <1>7
<1>9. (Owns(t)' => Owns(t)) /\ (Drops(t)' => Drops(t))
  BY <1>1, <1>2, <1>3 DEF Drops, Owns, Opens
<1>10. Alone' /\ TakenBack'
  BY <1>1, <1>2, <1>6, <1>7, <1>9, StillCommands, PairsKept DEF Commands
<1>11. KeysApart'
  BY <1>1, KeysKept
<1>12. Sections'
  BY <1>1, SectionsKept DEF UnderLock
<1>13. PlaceOK(t)'
  BY <1>1 DEF PlaceOK
<1>14. HandleIsGood(t)'
  <2>1. ~Left(t, h)'
    BY <1>1, <1>2, <1>6
  <2> QED BY <1>1, <1>2, <1>3, <1>8, <2>1 DEF HandleIsGood, Untouched, Db2Alive, Usable, OfStmt
<1>15. OtherIsGood(t)'
  BY <1>1, <1>2, <1>7 DEF OtherIsGood
<1>16. StateIsGood(t)'
  BY ZenonT(60), <1>1, <1>2, <1>3, <1>8, GoodFacts
  DEF StateIsGood, Opens, Untouched, ConnectOps, CloseOps, ReleaseOps
<1>17. LongInv'
  BY <1>1, <1>7, <1>10, <1>11, <1>12, <1>13, <1>14, <1>15, <1>16, StepKeeps DEF Good
<1> QED BY <1>7, <1>17

LEMMA FreeStmtTableStep ==
  ASSUME LongInv, TypeOK', NEW t \in Threads, FreeStmtInTable(t)
  PROVE  LongInv' /\ KeyStays
<1> DEFINE h == call[t].h
           o == call[t].o
<1>1. /\ call[t].at = "freed" /\ Others(t)
      /\ call'[t].at = (IF call[t].op \in ConnectOps THEN "unlock" ELSE "stmts")
      /\ call[t].op \in Aggregates
      /\ call'[t].op = call[t].op /\ call'[t].h = h /\ call'[t].c = call[t].c
      /\ call'[t].m = call[t].m /\ call'[t].key = call[t].key
      /\ call'[t].active = call[t].active
      /\ glock' = NoThread /\ UNCHANGED <<mutex, db2, known>> /\ table' = Dtor(table, o)
  BY GotoAll, GoodFacts DEF FreeStmtInTable, PlaceOK
<1>2. Claims(t) /\ o # h /\ o \in Slots /\ Left(t, o)
  BY <1>1, OtherFacts DEF Left
<1>3. /\ h = call[t].c /\ Usable(h) /\ call[t].op \notin OfStmt \cup ReleaseOps
      /\ db2[h].parent = h /\ h \in Slots /\ call[t].m = call[t].c /\ table[h].hdbc = h
  BY <1>1, <1>2, Inside
<1>4. call[t].at \in AtTable /\ call'[t].at \notin AtTable
  BY <1>1 DEF AtTable
<1>5. /\ World' /\ Frame(t) /\ KeyStays /\ LockMoves(t)
      /\ \A y \in Slots : y # o => Untouched(y)
      /\ \A y : ~New(t, y)' /\ ~Left(t, y)'
  BY <1>1, <1>2, <1>4, ForgetsHandle
<1>6. Untouched(h)
  BY <1>2, <1>3, <1>5
<1>7. (Owns(t)' => Owns(t)) /\ (Drops(t)' => Drops(t))
  BY <1>1, <1>2, <1>3 DEF Drops, Owns, Opens
<1>8. Alone' /\ TakenBack'
  BY <1>1, <1>2, <1>5, <1>7, PairsKept
<1>9. KeysApart'
  BY <1>1, KeysKept
<1>10. Sections'
  BY <1>1, SectionsKept DEF UnderLock
<1>11. PlaceOK(t)'
  BY <1>1 DEF PlaceOK, Aggregates
<1>12. HandleIsGood(t)'
  BY <1>1, <1>2, <1>3, <1>5, <1>6 DEF HandleIsGood, Untouched, Db2Alive, Usable, OfStmt
<1>13. OtherIsGood(t)'
  BY <1>1 DEF OtherIsGood
<1>14. StateIsGood(t)'
  BY ZenonT(60), <1>1, <1>2, <1>3, <1>6, GoodFacts
  DEF StateIsGood, Opens, Untouched, ConnectOps, CloseOps, ReleaseOps
<1>15. LongInv'
  BY <1>1, <1>5, <1>8, <1>9, <1>10, <1>11, <1>12, <1>13, <1>14, StepKeeps DEF Good
<1> QED BY <1>5, <1>15

-----------------------------------------------------------------------------
(* SQL400Close, SQL400pClose, SQL400CloseAllStmts                            *)

LEMMA CloseChecksStep ==
  ASSUME LongInv, TypeOK', NEW t \in Threads, CloseChecks(t)
  PROVE  LongInv' /\ KeyStays
<1> DEFINE h == call[t].h
<1>1. /\ call[t].at = "db2" /\ call'[t].at = "stmts" /\ Others(t)
      /\ call[t].op \in CloseOps /\ call[t].op \in Aggregates
      /\ call'[t].op = call[t].op /\ call'[t].h = h /\ call'[t].c = call[t].c
      /\ call'[t].m = call[t].m /\ call'[t].key = call[t].key
      /\ call'[t].active = (\/ call[t].op = "SQL400CloseAllStmts"
                            \/ call[t].op = "SQL400Close" /\ HashActive(table, h))
      /\ UNCHANGED <<table, mutex, glock, db2, known>>
  BY DEF CloseChecks, Aggregates, LongInv, TypeOK, Call, Others
<1>2. Claims(t)
  BY <1>1 DEF Claims, Named, ConnectOps, CloseOps
<1>3. /\ Owns(t) /\ h = call[t].c /\ Usable(h) /\ call[t].op \notin OfStmt \cup ReleaseOps
      /\ db2[h].parent = h /\ h \in Slots /\ call[t].m = call[t].c /\ table[h].hdbc = h
  BY <1>1, <1>2, Inside
<1>4. SameMapping(table, table')
  BY <1>1 DEF SameMapping
<1>5. (Owns(t)' => Owns(t)) /\ (Drops(t)' => Drops(t))
  BY <1>1, <1>3 DEF Drops
<1>6. Sections'
  BY <1>1, SectionsKept DEF UnderLock
<1>7. PlaceOK(t)' /\ LockMoves(t)
  BY <1>1 DEF PlaceOK, LockMoves, AtTable
<1>8. HandleIsGood(t)'
  <2>1. \A x : ~Left(t, x)'
    BY <1>1 DEF Left
  <2> QED BY <1>1, <1>3, <2>1 DEF HandleIsGood, Db2Alive, Usable, OfStmt
<1>9. OtherIsGood(t)'
  BY <1>1 DEF OtherIsGood
<1>10. StateIsGood(t)'
  BY <1>1, <1>2, <1>3, GoodFacts DEF StateIsGood, Opens, ConnectOps, CloseOps, ReleaseOps, HashActive
<1> QED BY <1>1, <1>2, <1>4, <1>5, <1>6, <1>7, <1>8, <1>9, <1>10, MoveOn DEF Good, Updating

\* The statement the scan of the table returns is one of those it accepts.
LEMMA FindStmtLeast ==
  ASSUME NEW tab \in [Slots -> Slot], NEW c, StmtsOf(tab, c) # {}
  PROVE  FindStmt(tab, c) \in StmtsOf(tab, c)
<1> DEFINE S == StmtsOf(tab, c)
<1>1. S # {} /\ S \subseteq Nat
  BY TableAssumption DEF StmtsOf, Slots
<1>2. PICK i \in S : \A j \in S : ~(<<j, i>> \in OpToRel(<, Nat))
  BY <1>1, NatLessThanWellFounded, WFMin
<1>3. \A j \in S : i <= j
  <2> SUFFICES ASSUME NEW j \in S PROVE i <= j
    OBVIOUS
  <2>1. i \in Nat /\ j \in Nat
    BY <1>1
  <2>2. ~(j < i)
    BY <1>2, <2>1 DEF OpToRel
  <2> QED BY <2>1, <2>2
<1>4. FindStmt(tab, c) = CHOOSE k \in S : \A j \in S : k <= j
  BY <1>1 DEF FindStmt
<1> HIDE DEF S
<1>5. FindStmt(tab, c) \in S
  BY <1>2, <1>3, <1>4
<1> QED BY <1>5 DEF S

LEMMA FindStmtFacts ==
  ASSUME NEW tab \in [Slots -> Slot], NEW c, FindStmt(tab, c) # 0
  PROVE  /\ FindStmt(tab, c) \in Slots
         /\ tab[FindStmt(tab, c)].hstmt # 0
         /\ tab[FindStmt(tab, c)].hdbc = c
         /\ tab[FindStmt(tab, c)].hstmt # c
<1>1. StmtsOf(tab, c) # {}
  BY DEF FindStmt
<1> QED BY <1>1, FindStmtLeast DEF StmtsOf

LEMMA CloseFindStep ==
  ASSUME LongInv, TypeOK', NEW t \in Threads, CloseFindStmt(t)
  PROVE  LongInv' /\ KeyStays
<1> DEFINE h == call[t].h
           s == FindStmt(table, h)
<1>1. /\ call[t].at = "stmts" /\ Others(t)
      /\ call'[t].at = (IF s # 0 THEN "free" ELSE IF call[t].active THEN "unlock" ELSE "dtor")
      /\ call[t].op \in CloseOps /\ call[t].op \in Aggregates
      /\ call'[t].op = call[t].op /\ call'[t].h = h /\ call'[t].c = call[t].c
      /\ call'[t].m = call[t].m /\ call'[t].key = call[t].key /\ call'[t].o = s
      /\ call'[t].active = call[t].active
      /\ UNCHANGED <<table, mutex, glock, db2, known>>
  BY GoodFacts DEF CloseFindStmt, Aggregates, PlaceOK, LongInv, TypeOK, Call, Others
<1>2. Claims(t)
  BY <1>1 DEF Claims, Named, ConnectOps, CloseOps
<1>3. /\ Owns(t) /\ h = call[t].c /\ Usable(h) /\ call[t].op \notin OfStmt \cup ReleaseOps
      /\ db2[h].parent = h /\ h \in Slots /\ call[t].m = call[t].c /\ table[h].hdbc = h
  BY <1>1, <1>2, Inside
<1>4. s # 0 => /\ s \in HandleNums /\ db2[s].kind = "stmt" /\ db2[s].parent = h
               /\ table[s].hstmt # 0
  <2> SUFFICES ASSUME s # 0
               PROVE  /\ s \in HandleNums /\ db2[s].kind = "stmt" /\ db2[s].parent = h
                      /\ table[s].hstmt # 0
    OBVIOUS
  <2>1. s \in Slots /\ table[s].hstmt # 0 /\ table[s].hdbc = h /\ table[s].hstmt # h
    BY FindStmtFacts DEF LongInv, TypeOK
  <2>2. Mine(t, s)
    BY <1>3, <2>1 DEF Mine
  <2>3. ASSUME NEW v \in Threads, Left(v, s) PROVE FALSE
    <3>1. v # t
      BY <1>1, <2>3 DEF Left
    <3> QED BY <2>1, <2>2, <2>3, <3>1, Apart, LeftFacts
  <2>4. Db2Alive(db2, s) /\ db2[s].parent = h /\ s \in HandleNums /\ s # h
    BY <2>1, <2>3, FiledFacts
  <2> HIDE DEF s
  <2> QED BY <2>1, <2>4, TreeFacts DEF LongInv
<1> HIDE DEF s
<1>5. SameMapping(table, table')
  BY <1>1 DEF SameMapping
<1>6. (Owns(t)' => Owns(t)) /\ (Drops(t)' => Drops(t))
  BY <1>1, <1>3 DEF Drops
<1>7. Sections'
  BY <1>1, SectionsKept DEF UnderLock
<1>8. PlaceOK(t)' /\ LockMoves(t)
  BY <1>1 DEF PlaceOK, LockMoves, AtTable
<1>9. HandleIsGood(t)'
  <2>1. \A x : ~Left(t, x)'
    BY <1>1 DEF Left
  <2> QED BY <1>1, <1>3, <2>1 DEF HandleIsGood, Db2Alive, Usable, OfStmt
<1>10. OtherIsGood(t)'
  BY <1>1, <1>4 DEF OtherIsGood
<1>11. StateIsGood(t)'
  BY <1>1, <1>2, <1>3, GoodFacts DEF StateIsGood, Opens, ConnectOps, CloseOps, ReleaseOps
<1>12. call[t].op \notin ConnectOps
  BY <1>1 DEF CloseOps, ConnectOps
<1> QED BY <1>1, <1>2, <1>5, <1>6, <1>7, <1>8, <1>9, <1>10, <1>11, <1>12, MoveOn DEF Good, Updating

\* The slot of the connection is cleared, and with it the key if there is one: only
\* SQL400pClose gets here with a key.
LEMMA CloseDtorStep ==
  ASSUME LongInv, TypeOK', NEW t \in Threads, CloseDtor(t)
  PROVE  LongInv' /\ KeyStays
<1> DEFINE h == call[t].h
<1>1. /\ call[t].at = "dtor" /\ call'[t].at = "bye" /\ Others(t)
      /\ call[t].op \in CloseOps /\ call[t].op \in Aggregates
      /\ call'[t].op = call[t].op /\ call'[t].h = h /\ call'[t].c = call[t].c
      /\ call'[t].m = call[t].m /\ call'[t].key = call[t].key
      /\ call'[t].active = call[t].active
      /\ table' = Dtor(table, h) /\ UNCHANGED <<mutex, glock, db2, known>>
  BY GotoAll, GoodFacts DEF CloseDtor, Aggregates, PlaceOK
<1>2. Claims(t)
  BY <1>1 DEF Claims, Named, ConnectOps, CloseOps
<1>3. /\ Owns(t) /\ h = call[t].c /\ Usable(h) /\ call[t].op \notin OfStmt \cup ReleaseOps
      /\ db2[h].parent = h /\ h \in Slots /\ h \in HandleNums /\ call[t].m = call[t].c
      /\ table[h].hdbc = h /\ ~Drops(t)
  BY <1>1, <1>2, Inside
<1>4. (\A x : ~New(t, x) /\ ~Left(t, x)) /\ (\A x : ~New(t, x)' /\ ~Left(t, x)')
  BY <1>1 DEF New, Left
<1>5. SameUpdates
  <2>1. ASSUME NEW v \in Threads, NEW y \in Slots
        PROVE (New(v, y)' <=> New(v, y)) /\ (Left(v, y)' <=> Left(v, y))
    <3>1. CASE v = t
      BY <1>4, <3>1
    <3>2. CASE v # t
      BY <1>1, <3>2, Unmoved DEF Others
    <3> QED BY <3>1, <3>2
  <2> QED BY <2>1 DEF SameUpdates
<1>6. /\ World'
      /\ \A i \in Slots : ~Mine(t, i) => table'[i] = table[i]
      /\ \A i \in Slots : Mine(t, i) => table'[i].hKey = NoKey
      /\ table'[h].hstmt = 0 /\ table'[h].hKey = NoKey
  <2>1. call[t].at \notin AtTable /\ table[h].hstmt # 0 /\ Mine(t, h)
    BY <1>1, <1>3 DEF AtTable, Usable, Mine
  <2> QED BY <1>1, <1>3, <1>5, <2>1, CloseWorld
<1>7. \A i \in Slots : ~Mine(t, i) => Untouched(i)
  BY <1>1, <1>6 DEF Untouched
<1>8. Frame(t)
  <2>1. \A u \in Threads \ {t}, y \in Slots : Uses(u, y) => Untouched(y)
    BY <1>7, Apart
  <2>2. \A y \in known : Untouched(y)
    <3>1. known \subseteq Slots
      BY DEF LongInv, TypeOK
    <3> QED BY <1>7, <3>1, MineUnknown
  <2> QED BY <1>1, <1>6, <2>1, <2>2 DEF Frame
<1>9. KeyStays
  <2>1. ASSUME NEW g \in Slots, table[g].hKey # NoKey, table'[g].hKey = NoKey
        PROVE  call[t].op = "SQL400pClose" /\ call[t].at = "dtor" /\ call[t].h = g
    <3>1. Mine(t, g)
      BY <1>6, <2>1
    <3>2. table[g].hdbc = g
      BY <2>1 DEF LongInv, Keyed
    <3>3. g = h
      BY <1>1, <1>3, <1>4, <3>1, <3>2 DEF Mine, Commands
    <3>4. call[t].op # "SQL400Close" /\ call[t].op # "SQL400CloseAllStmts"
      BY <1>1, <2>1, <3>3, GoodFacts DEF StateIsGood, CloseOps
    <3> QED BY <1>1, <3>3, <3>4 DEF CloseOps
  <2> QED BY <2>1 DEF KeyStays
<1>10. (Owns(t)' => Owns(t)) /\ (Drops(t)' => Drops(t))
  BY <1>1, <1>3 DEF Drops
<1>11. Alone' /\ TakenBack'
  BY <1>1, <1>2, <1>4, <1>8, <1>10, PairsKept
<1>12. KeysApart'
  BY <1>1, KeysKept
<1>13. Sections'
  BY <1>1, SectionsKept DEF UnderLock
<1>14. PlaceOK(t)' /\ LockMoves(t)
  BY <1>1 DEF PlaceOK, LockMoves, AtTable
<1>15. HandleIsGood(t)'
  BY <1>1, <1>3, <1>4, <1>6 DEF HandleIsGood, Db2Alive, Usable, OfStmt, ConnectOps, CloseOps
<1>16. OtherIsGood(t)'
  BY <1>1 DEF OtherIsGood
<1>17. StateIsGood(t)'
  BY <1>1, <1>3, <1>6, GoodFacts DEF StateIsGood, Opens, ConnectOps, CloseOps, ReleaseOps
<1>18. LongInv'
  BY <1>1, <1>6, <1>8, <1>11, <1>12, <1>13, <1>14, <1>15, <1>16, <1>17, StepKeeps DEF Good
<1> QED BY <1>9, <1>18

\* SQLDisconnect inside a close.  The slot is clear, so no key is found, and the
\* statements DB2 frees are ones the table has forgotten.
LEMMA CloseDisconnectStep ==
  ASSUME LongInv, TypeOK', NEW t \in Threads, CloseDisconnect(t)
  PROVE  LongInv' /\ KeyStays
<1> DEFINE h == call[t].h
<1>1. /\ call[t].at = "bye" /\ call'[t].at = "byelock" /\ Others(t) /\ glock = NoThread
      /\ call[t].op \in CloseOps /\ call[t].op \in Aggregates
      /\ call'[t].op = call[t].op /\ call'[t].h = h /\ call'[t].c = call[t].c
      /\ call'[t].m = call[t].m /\ call'[t].key = call[t].key
      /\ call'[t].active = call[t].active
      /\ UNCHANGED <<mutex, glock, known>>
  BY GotoAll, GoodFacts DEF CloseDisconnect, Aggregates, PlaceOK
<1>2. Claims(t)
  BY <1>1 DEF Claims, Named, ConnectOps, CloseOps
<1>3. /\ Owns(t) /\ h = call[t].c /\ call[t].op \notin OfStmt \cup ReleaseOps
      /\ Db2Alive(db2, h) /\ db2[h].parent = h /\ db2[h].kind = "dbc"
      /\ h \in Slots /\ h \in HandleNums /\ call[t].m = call[t].c /\ ~Drops(t)
  BY <1>1, <1>2, Inside
<1>4. table[h].hstmt = 0 /\ table[h].hKey = NoKey
  BY <1>1, <1>3, GoodFacts DEF HandleIsGood, LongInv, Keyed
<1>5. SameMapping(table, table') /\ (db2' = db2 \/ db2' = Db2Disconnect(db2, h))
  <2>1. /\ table' = MarkIdle(MarkBusy(table, h, 0, t), h, 0)
        /\ db2' = db2 \/ db2' = Db2Disconnect(db2, h)
    BY <1>4 DEF CloseDisconnect, HashActive
  <2>2. SameMapping(table, MarkBusy(table, h, 0, t)) /\ MarkBusy(table, h, 0, t) \in [Slots -> Slot]
    BY <1>3, MarkBusyFacts DEF LongInv, TypeOK
  <2>3. SameMapping(MarkBusy(table, h, 0, t), table')
    BY <1>3, <2>1, <2>2, MarkIdleFacts
  <2> QED BY <2>1, <2>2, <2>3 DEF SameMapping
<1>6. (\A x : ~New(t, x) /\ ~Left(t, x)) /\ (\A x : ~New(t, x)' /\ ~Left(t, x)')
  BY <1>1 DEF New, Left
<1>7. Sections'
  BY <1>1, SectionsKept DEF UnderLock
<1>8. PlaceOK(t)' /\ LockMoves(t)
  BY <1>1 DEF PlaceOK, LockMoves, AtTable
<1>9. (Owns(t)' => Owns(t)) /\ (Drops(t)' => Drops(t))
  BY <1>1, <1>3 DEF Drops
<1>10. ASSUME Db2Alive(db2, h)', db2'[h].parent = h PROVE Good(t)'
  <2>1. table'[h].hstmt = 0 /\ table'[h].hKey = NoKey
    BY <1>3, <1>4, <1>5 DEF SameMapping
  <2>2. HandleIsGood(t)'
    BY <1>1, <1>3, <1>6, <1>10, <2>1 DEF HandleIsGood, Db2Alive, OfStmt, ConnectOps, CloseOps
  <2>3. OtherIsGood(t)'
    BY <1>1 DEF OtherIsGood
  <2>4. StateIsGood(t)'
    BY <1>1, <1>3, <2>1, GoodFacts DEF StateIsGood, Opens, ConnectOps, CloseOps, ReleaseOps
  <2> QED BY <2>2, <2>3, <2>4 DEF Good
<1>11. CASE db2' = db2
  <2>1. Good(t)'
    BY <1>1, <1>3, <1>10, <1>11 DEF Db2Alive
  <2> QED BY <1>1, <1>2, <1>5, <1>7, <1>8, <1>9, <1>11, <2>1, MoveOn DEF Updating
<1>12. CASE db2' = Db2Disconnect(db2, h)
  <2>1. SameUpdates
    <3>1. ASSUME NEW v \in Threads, NEW y \in Slots
          PROVE (New(v, y)' <=> New(v, y)) /\ (Left(v, y)' <=> Left(v, y))
      <4>1. CASE v = t
        BY <1>6, <4>1
      <4>2. CASE v # t
        BY <1>1, <4>2, Unmoved DEF Others
      <4> QED BY <4>1, <4>2
    <3> QED BY <3>1 DEF SameUpdates
  <2>2. \A i \in Db2Stmts(db2, h) : /\ i \in Slots /\ db2[i].parent = h /\ table[i].hstmt = 0
                                    /\ \A v \in Threads : ~New(v, i) /\ ~Left(v, i)
    <3> SUFFICES ASSUME NEW i \in Slots, db2[i].parent = h
                 PROVE  /\ table[i].hstmt = 0
                        /\ \A v \in Threads : ~New(v, i) /\ ~Left(v, i)
      BY DEF Db2Stmts
    <3>1. \A v \in Threads : ~New(v, i) /\ ~Left(v, i)
      BY <1>1, FreeLock
    <3>2. ASSUME table[i].hstmt # 0 PROVE FALSE
      <4>1. table[i].hdbc = h /\ table[table[i].hdbc].hstmt = table[i].hdbc
        BY <1>1, <3>2, FreeLock, FiledFacts
      <4> QED BY <1>3, <1>4, <4>1 DEF HandleNums
    <3> QED BY <3>1, <3>2
  <2>3. /\ World'
        /\ \A i \in Slots \ ({h} \cup Db2Stmts(db2, h)) : db2'[i] = db2[i]
        /\ \A i \in Slots : db2'[i].connected => db2[i].connected
        /\ db2'[h].kind = "dbc" /\ db2'[h].parent = h
    BY <1>3, <1>4, <1>5, <1>12, <2>1, <2>2, DisconnectWorld
  <2>4. \A x \in Slots : db2[x].parent # h => Untouched(x)
    BY <1>3, <1>5, <2>2, <2>3 DEF Untouched, SameMapping
  <2>5. Frame(t)
    <3>1. \A u \in Threads \ {t}, x \in Slots : Uses(u, x) => Untouched(x)
      BY <1>1, <1>3, <2>4, OwnsInDb2
    <3>2. \A x \in known : Untouched(x)
      <4>1. known \subseteq Slots /\ \A x \in known : db2[x].parent # h
        BY <1>3 DEF LongInv, TypeOK, TakenBack
      <4> QED BY <2>4, <4>1
    <3>3. \A x \in Slots : table'[x].hKey = table[x].hKey
      BY <1>5 DEF SameMapping
    <3> QED BY <1>1, <2>3, <3>1, <3>2, <3>3 DEF Frame
  <2>6. Alone' /\ TakenBack'
    BY <1>1, <1>2, <1>6, <1>9, <2>5, PairsKept
  <2>7. KeysApart'
    BY <1>1, KeysKept
  <2>8. Good(t)'
    BY <1>1, <1>10, <2>3 DEF Db2Alive
  <2>9. LongInv'
    BY <1>1, <1>7, <1>8, <2>3, <2>5, <2>6, <2>7, <2>8, StepKeeps
  <2> QED BY <1>5, <2>9 DEF KeyStays, SameMapping
<1> QED BY <1>5, <1>11, <1>12

\* DB2 frees the connection, unless it is still connected.
LEMMA CloseFreeInDb2Step ==
  ASSUME LongInv, TypeOK', NEW t \in Threads, CloseFreeInDb2(t)
  PROVE  LongInv' /\ KeyStays
<1> DEFINE h == call[t].h
<1>1. /\ call[t].at = "byelock" /\ glock = NoThread
      /\ call[t].op \in CloseOps /\ call[t].op \in Aggregates
      /\ UNCHANGED <<table, mutex, known>>
  BY GoodFacts DEF CloseFreeInDb2, Aggregates, PlaceOK
<1>2. Claims(t)
  BY <1>1 DEF Claims, Named, ConnectOps, CloseOps
<1>3. /\ Owns(t) /\ h = call[t].c /\ call[t].op \notin OfStmt \cup ReleaseOps
      /\ Db2Alive(db2, h) /\ db2[h].parent = h /\ db2[h].kind = "dbc" /\ Mine(t, h)
      /\ h \in Slots /\ h \in HandleNums /\ call[t].m = call[t].c /\ ~Drops(t)
  BY <1>1, <1>2, Inside
<1>4. table[h].hstmt = 0 /\ table[h].hKey = NoKey
  BY <1>1, <1>3, GoodFacts DEF HandleIsGood, LongInv, Keyed
<1>5. Goto(t, "byetable") /\ db2' = Db2FreeDbc(db2, h) /\ glock' = t
  BY <1>4 DEF CloseFreeInDb2, HashActive
<1>6. /\ call'[t].at = "byetable" /\ Others(t)
      /\ call'[t].op = call[t].op /\ call'[t].h = h /\ call'[t].c = call[t].c
      /\ call'[t].m = call[t].m /\ call'[t].key = call[t].key
      /\ call'[t].active = call[t].active
  BY <1>5, GotoAll
<1>7. \A x : ~New(t, x)' /\ ~Left(t, x)'
  BY <1>6 DEF New, Left
<1>8. Sections'
  BY <1>1, <1>6, SectionsKept DEF UnderLock
<1>9. PlaceOK(t)' /\ LockMoves(t)
  BY <1>1, <1>5, <1>6 DEF PlaceOK, LockMoves, AtTable
<1>10. (Owns(t)' => Owns(t)) /\ (Drops(t)' => Drops(t))
  BY <1>1, <1>3, <1>6 DEF Drops
<1>11. HandleIsGood(t)'
  BY <1>1, <1>3, <1>4, <1>6, <1>7 DEF HandleIsGood, Db2Alive, OfStmt, ConnectOps, CloseOps
<1>12. OtherIsGood(t)'
  BY <1>6 DEF OtherIsGood
<1>13. StateIsGood(t)'
  BY <1>1, <1>3, <1>4, <1>6, GoodFacts DEF StateIsGood, Opens, ConnectOps, CloseOps, ReleaseOps
<1>14. CASE db2' = db2
  <2>1. SameMapping(table, table')
    BY <1>1 DEF SameMapping
  <2> QED BY <1>1, <1>2, <1>6, <1>8, <1>9, <1>10, <1>11, <1>12, <1>13, <1>14, <2>1, MoveOn
          DEF Good, Updating
<1>15. CASE db2' # db2
  <2>1. db2' = [db2 EXCEPT ![h] = Db2Free] /\ ~db2[h].connected
    BY <1>5, <1>15 DEF Db2FreeDbc
  <2>2. (\A u \in Threads \ {t} : ~Uses(u, h)) /\ h \notin known
    BY <1>3, Apart, MineUnknown
  <2>3. World' /\ Frame(t) /\ KeyStays
    BY <1>1, <1>3, <1>4, <1>5, <1>6, <1>7, <2>1, <2>2, FreesHandle DEF AtTable
  <2>4. Alone' /\ TakenBack'
    BY <1>1, <1>2, <1>6, <1>7, <1>10, <2>3, PairsKept
  <2>5. KeysApart'
    BY <1>6, KeysKept
  <2>6. LongInv'
    BY <1>1, <1>8, <1>9, <1>11, <1>12, <1>13, <2>3, <2>4, <2>5, StepKeeps DEF Good
  <2> QED BY <2>3, <2>6
<1> QED BY <1>14, <1>15

\* The slot is cleared again: it was clear, so no statement goes with it.
LEMMA CloseFreeInTableStep ==
  ASSUME LongInv, TypeOK', NEW t \in Threads, CloseFreeInTable(t)
  PROVE  LongInv' /\ KeyStays
<1> DEFINE h == call[t].h
<1>1. /\ call[t].at = "byetable" /\ call'[t].at = "unlock" /\ Others(t)
      /\ call[t].op \in CloseOps /\ call[t].op \in Aggregates
      /\ call'[t].op = call[t].op /\ call'[t].h = h /\ call'[t].c = call[t].c
      /\ call'[t].m = call[t].m /\ call'[t].key = call[t].key
      /\ call'[t].active = call[t].active
      /\ table' = Dtor(table, h) /\ glock' = NoThread /\ UNCHANGED <<mutex, db2, known>>
  BY GotoAll, GoodFacts DEF CloseFreeInTable, Aggregates, PlaceOK
<1>2. Claims(t)
  BY <1>1 DEF Claims, Named, ConnectOps, CloseOps
<1>3. /\ Owns(t) /\ h = call[t].c /\ call[t].op \notin OfStmt \cup ReleaseOps
      /\ h \in Slots /\ h \in HandleNums /\ call[t].m = call[t].c /\ ~Drops(t)
  BY <1>1, <1>2, Inside
<1>4. /\ table[h].hstmt = 0 /\ table[h].hdbc = 0 /\ table[h].hKey = NoKey
      /\ ~call[t].active
  <2>1. table[h].hstmt = 0 /\ ~call[t].active
    BY <1>1, GoodFacts DEF HandleIsGood, StateIsGood
  <2> QED BY <1>3, <2>1 DEF LongInv, Filing, SlotOK
<1>5. SameMapping(table, table')
  <2>1. \A i \in Slots : ~(table[i].hstmt > 0 /\ table[i].hdbc = 0)
    BY FiledFacts DEF HandleNums
  <2>2. StmtsOf(table, 0) = {}
    BY <2>1 DEF StmtsOf
  <2>3. table' = [i \in Slots |-> IF i = h THEN Cleared(table[i]) ELSE table[i]]
    BY <1>1, <1>4, <2>2 DEF Dtor
  <2>4. /\ Cleared(table[h]).hstmt = 0 /\ Cleared(table[h]).hdbc = 0
        /\ Cleared(table[h]).hKey = NoKey
        /\ Cleared(table[h]).thread_init = table[h].thread_init
    BY DEF Cleared, ZeroSlot
  <2> QED BY <1>4, <2>3, <2>4 DEF SameMapping
<1>6. ~Claims(t)' /\ ~Owns(t)' /\ ~Drops(t)' /\ \A x : ~Left(t, x)'
  BY <1>1, <1>3, <1>4 DEF Claims, Owns, Opens, Drops, Left
<1>7. Sections'
  BY <1>1, SectionsKept DEF UnderLock
<1>8. PlaceOK(t)' /\ LockMoves(t)
  BY <1>1 DEF PlaceOK, LockMoves, AtTable
<1>9. HandleIsGood(t)'
  BY <1>1, <1>3, <1>6 DEF HandleIsGood, OfStmt
<1>10. OtherIsGood(t)'
  BY <1>1 DEF OtherIsGood
<1>11. StateIsGood(t)'
  BY <1>1, <1>3, <1>6, GoodFacts DEF StateIsGood, Opens, ConnectOps, CloseOps, ReleaseOps
<1> QED BY <1>1, <1>5, <1>6, <1>7, <1>8, <1>9, <1>10, <1>11, MoveOn DEF Good, Updating

\* A connect with a library list hands its connection out; a close hands out the
\* one it left open, if any.
LEMMA UnlockReturnsStep ==
  ASSUME LongInv, TypeOK', NEW t \in Threads, UnlockReturns(t)
  PROVE  LongInv' /\ KeyStays
<1> DEFINE back == IF call[t].op \in ConnectOps \/ call[t].active THEN {call[t].h} ELSE {}
<1>1. /\ call[t].at = "unlock" /\ call[t].op \in Aggregates
      /\ TableUnlock(t) /\ Return(t, back) /\ glock' = glock /\ db2' = db2
  BY GoodFacts DEF UnlockReturns, PlaceOK
<1>2. UnderLock(t) /\ call[t].at \notin AtTable
  BY <1>1 DEF UnderLock, AtTable
<1>3. back # {} => Claims(t) /\ call[t].h = call[t].c /\ Usable(call[t].h)
  <2>1. back # {} => Claims(t)
    BY <1>1 DEF Claims, Named, ConnectOps, CloseOps, Aggregates
  <2> QED BY <1>1, <2>1, Inside
<1>4. \A x \in back : x = call[t].h
  OBVIOUS
<1> QED BY <1>1, <1>2, <1>3, <1>4, UnlockAndReturn

-----------------------------------------------------------------------------
(* Type correctness                                                          *)

\* The connection a key leads to is a slot of the table.
LEMMA Hash2ConnType ==
  ASSUME NEW tab \in [Slots -> Slot], NEW key
  PROVE  Hash2Conn(tab, key) \in Slots
<1>1. CASE key \notin WideKeys /\ \E g \in Slots : tab[g].hKey = key
  <2>1. PICK i \in Slots : Hash2Conn(tab, key) = tab[i].hdbc
    BY <1>1, HashLeast
  <2> QED BY <2>1 DEF Slot
<1>2. CASE ~(key \notin WideKeys /\ \E g \in Slots : tab[g].hKey = key)
  BY <1>2, SlotTypes DEF Hash2Conn
<1> QED BY <1>1, <1>2

LEMMA FindStmtType ==
  ASSUME NEW tab \in [Slots -> Slot], NEW c
  PROVE  FindStmt(tab, c) \in Slots
BY FindStmtFacts, SlotTypes

LEMMA BeginLongType ==
  ASSUME TypeOK, NEW t \in Threads, BeginLong(t)
  PROVE  TypeOK'
<1> USE SlotTypes, CallAssumption
<1>1. ASSUME NEW op \in LongOps, NEW key \in Keys \cup {NoKey}, BeginConnectBoth(t, op, key)
      PROVE  TypeOK'
  <2>1. call' \in [Threads -> Call]
    <3> DEFINE at == IF op = "SQL400pConnect" THEN "lookup" ELSE "glock"
               started == Started(at, op, 0, 0, 0)
    <3>1. call' = [call EXCEPT ![t] = [started EXCEPT !.key = key]]
      BY <1>1 DEF BeginConnectBoth
    <3>2. started \in Call
      BY DEF Call, Labels, Started
    <3> HIDE DEF started
    <3>3. [started EXCEPT !.key = key] \in Call
      BY <3>2 DEF Call
    <3> QED BY <3>1, <3>3 DEF TypeOK
  <2>2. calls' \in [Threads -> 0 .. MaxCalls]
    BY <1>1 DEF BeginConnectBoth, TypeOK
  <2> QED BY <1>1, <2>1, <2>2 DEF BeginConnectBoth, TypeOK
<1>2. ASSUME NEW op \in LongOps, NEW h \in HandleNums, BeginClose(t, op, h)
      PROVE  TypeOK'
  <2>1. h \in Slots /\ table[h].hKey \in Keys \cup {NoKey}
    BY DEF TypeOK, Slot
  <2>2. call' \in [Threads -> Call]
    <3> DEFINE started == Started("want", op, h, h, h)
    <3>1. call' = [call EXCEPT ![t] = [started EXCEPT !.key = table[h].hKey]]
      BY <1>2 DEF BeginClose
    <3>2. started \in Call
      BY <2>1 DEF Call, Labels, Started
    <3> HIDE DEF started
    <3>3. [started EXCEPT !.key = table[h].hKey] \in Call
      BY <2>1, <3>2 DEF Call
    <3> QED BY <3>1, <3>3 DEF TypeOK
  <2>3. calls' \in [Threads -> 0 .. MaxCalls]
    BY <1>2 DEF BeginClose, TypeOK
  <2> QED BY <1>2, <2>2, <2>3 DEF BeginClose, TypeOK
<1> QED BY <1>1, <1>2 DEF BeginLong, CloseOps, LongOps

LEMMA ConnectStepType ==
  ASSUME TypeOK, NEW t \in Threads,
         \/ Lookup(t) \/ ConnectAllocs(t) \/ ConnectCtor(t) \/ ConnectInDb2(t)
         \/ ConnectAddHash(t) \/ ConnectSetup(t) \/ ConnectCmdCtor(t) \/ ConnectCmd(t)
  PROVE  TypeOK'
<1> USE SlotTypes
<1> DEFINE h == call[t].h
           o == call[t].o
<1>1. /\ call[t] \in Call /\ h \in Slots /\ o \in Slots
      /\ table \in [Slots -> Slot] /\ db2 \in [Slots -> Db2Handle]
      /\ {} \in SUBSET Slots /\ {h} \in SUBSET Slots
  BY DEF TypeOK, Call
<1>2. CASE Lookup(t)
  <2>1. Hash2Conn(table, call[t].key) \in Slots
    BY <1>1, Hash2ConnType
  <2>2. CASE Return(t, {Hash2Conn(table, call[t].key)})
    BY <1>2, <2>1, <2>2, ReturnType DEF Lookup, TypeOK
  <2>3. CASE Goto(t, "glock") /\ UNCHANGED known
    BY <1>2, <2>3, GotoType DEF Lookup, TypeOK, Labels
  <2> QED BY <1>2, <2>2, <2>3 DEF Lookup
<1>3. CASE ConnectAllocs(t)
  <2>1. ASSUME NEW x \in HandleNums, db2' = Db2NewDbc(db2, x),
               call' = [call EXCEPT ![t].at = "table", ![t].h = x, ![t].c = x, ![t].m = x],
               glock' = t, UNCHANGED known
        PROVE  TypeOK'
    <3>1. db2' \in [Slots -> Db2Handle]
      BY <1>1, <2>1, Db2Types
    <3>2. call' \in [Threads -> Call]
      BY ZenonT(60), <1>1, <2>1 DEF TypeOK, Call, Labels
    <3> QED BY <1>3, <2>1, <3>1, <3>2 DEF ConnectAllocs, TypeOK
  <2>2. CASE Return(t, {}) /\ UNCHANGED <<glock, db2>>
    BY <1>1, <1>3, <2>2, ReturnType DEF ConnectAllocs, TypeOK
  <2> QED BY <1>3, <2>1, <2>2 DEF ConnectAllocs
<1>4. CASE ConnectCtor(t)
  <2>1. table' \in [Slots -> Slot] /\ call' \in [Threads -> Call]
    BY <1>1, <1>4, CtorType, GotoType DEF ConnectCtor, Labels
  <2> QED BY <1>4, <2>1 DEF ConnectCtor, TypeOK
<1>5. CASE ConnectInDb2(t)
  <2>1. CASE TableUnlock(t) /\ Return(t, {h}) /\ UNCHANGED db2
    <3>1. call' \in [Threads -> Call] /\ known' \in SUBSET Slots
      BY <1>1, <2>1, ReturnType
    <3> QED BY <1>5, <2>1, <3>1, TableUnlockType DEF ConnectInDb2, TypeOK
  <2>2. CASE /\ db2' = Db2Connect(db2, h)
             /\ Goto(t, IF call[t].op = "SQL400pConnect" THEN "addhash" ELSE "setup")
             /\ UNCHANGED <<table, mutex, known>>
    <3>1. db2' \in [Slots -> Db2Handle] /\ call' \in [Threads -> Call]
      BY <1>1, <2>2, Db2Types, GotoType DEF Labels
    <3> QED BY <1>5, <2>2, <3>1 DEF ConnectInDb2, TypeOK
  <2> QED BY <1>5, <2>1, <2>2 DEF ConnectInDb2
<1>6. CASE ConnectAddHash(t)
  <2>1. call[t].key \in Keys \cup {NoKey}
    BY <1>1 DEF Call
  <2>2. table' \in [Slots -> Slot]
    BY <1>1, <1>6, <2>1 DEF ConnectAddHash, AddHash, Slot
  <2>3. call' \in [Threads -> Call]
    BY <1>6, GotoType DEF ConnectAddHash, Labels
  <2> QED BY <1>6, <2>2, <2>3 DEF ConnectAddHash, TypeOK
<1>7. CASE ConnectSetup(t)
  <2>1. CASE TableUnlock(t) /\ Return(t, {h}) /\ UNCHANGED <<glock, db2>>
    <3>1. call' \in [Threads -> Call] /\ known' \in SUBSET Slots
      BY <1>1, <2>1, ReturnType
    <3> QED BY <1>7, <2>1, <3>1, TableUnlockType DEF ConnectSetup, TypeOK
  <2>2. ASSUME NEW x \in HandleNums, db2' = Db2NewStmt(db2, x, h),
               call' = [call EXCEPT ![t].at = "cmdtable", ![t].o = x],
               glock' = t, UNCHANGED <<table, mutex, known>>
        PROVE  TypeOK'
    <3>1. db2' \in [Slots -> Db2Handle]
      BY <1>1, <2>2, Db2Types
    <3>2. call' \in [Threads -> Call]
      BY ZenonT(60), <1>1, <2>2 DEF TypeOK, Call, Labels
    <3> QED BY <1>7, <2>2, <3>1, <3>2 DEF ConnectSetup, TypeOK
  <2> QED BY <1>7, <2>1, <2>2 DEF ConnectSetup
<1>8. CASE ConnectCmdCtor(t)
  <2>1. table' \in [Slots -> Slot] /\ call' \in [Threads -> Call]
    BY <1>1, <1>8, CtorType, GotoType DEF ConnectCmdCtor, Labels
  <2> QED BY <1>8, <2>1 DEF ConnectCmdCtor, TypeOK
<1>9. CASE ConnectCmd(t)
  <2>1. MarkBusy(table, o, 1, t) \in [Slots -> Slot]
    BY <1>1, MarkBusyFacts
  <2>2. table' \in [Slots -> Slot] /\ call' \in [Threads -> Call]
    BY <1>1, <1>9, <2>1, MarkIdleFacts, GotoType DEF ConnectCmd, Labels
  <2> QED BY <1>9, <2>2 DEF ConnectCmd, TypeOK
<1> QED BY <1>2, <1>3, <1>4, <1>5, <1>6, <1>7, <1>8, <1>9

LEMMA CloseStepType ==
  ASSUME TypeOK, NEW t \in Threads,
         \/ FreeStmtInDb2(t) \/ FreeStmtInTable(t)
         \/ CloseChecks(t) \/ CloseFindStmt(t) \/ CloseDtor(t) \/ CloseDisconnect(t)
         \/ CloseFreeInDb2(t) \/ CloseFreeInTable(t) \/ UnlockReturns(t)
  PROVE  TypeOK'
<1> USE SlotTypes
<1> DEFINE h == call[t].h
           o == call[t].o
<1>1. /\ call[t] \in Call /\ h \in Slots /\ o \in Slots
      /\ table \in [Slots -> Slot] /\ db2 \in [Slots -> Db2Handle]
      /\ {} \in SUBSET Slots /\ {h} \in SUBSET Slots
  BY DEF TypeOK, Call
<1>2. CASE FreeStmtInDb2(t)
  <2>1. db2' \in [Slots -> Db2Handle] /\ call' \in [Threads -> Call]
    BY <1>1, <1>2, Db2Types, GotoType DEF FreeStmtInDb2, Labels
  <2> QED BY <1>2, <2>1 DEF FreeStmtInDb2, TypeOK
<1>3. CASE FreeStmtInTable(t)
  <2>1. table' \in [Slots -> Slot] /\ call' \in [Threads -> Call]
    BY <1>1, <1>3, DtorType, GotoType DEF FreeStmtInTable, Labels
  <2> QED BY <1>3, <2>1 DEF FreeStmtInTable, TypeOK
<1>4. CASE CloseChecks(t)
  <2>1. call' \in [Threads -> Call]
    BY ZenonT(60), <1>1, <1>4 DEF CloseChecks, TypeOK, Call, Labels
  <2> QED BY <1>4, <2>1 DEF CloseChecks, TypeOK
<1>5. CASE CloseFindStmt(t)
  <2>1. FindStmt(table, h) \in Slots
    BY <1>1, FindStmtType
  <2>2. call' \in [Threads -> Call]
    BY <1>1, <1>5, <2>1 DEF CloseFindStmt, TypeOK, Call, Labels
  <2> QED BY <1>5, <2>2 DEF CloseFindStmt, TypeOK
<1>6. CASE CloseDtor(t) \/ CloseFreeInTable(t)
  <2>1. table' \in [Slots -> Slot] /\ call' \in [Threads -> Call]
    BY ZenonT(60), <1>1, <1>6, DtorType, GotoType DEF CloseDtor, CloseFreeInTable, Labels
  <2> QED BY <1>6, <2>1 DEF CloseDtor, CloseFreeInTable, TypeOK
<1>7. CASE CloseDisconnect(t)
  <2>1. MarkBusy(table, h, 0, t) \in [Slots -> Slot]
    BY <1>1, MarkBusyFacts
  <2>2. /\ MarkIdle(MarkBusy(table, h, 0, t), h, 0) \in [Slots -> Slot]
        /\ Db2Disconnect(db2, h) \in [Slots -> Db2Handle]
    BY <1>1, <2>1, MarkIdleFacts, Db2Types
  <2>3. table' \in [Slots -> Slot] /\ db2' \in [Slots -> Db2Handle]
    BY <1>1, <1>7, <2>2 DEF CloseDisconnect
  <2>4. call' \in [Threads -> Call]
    BY <1>7, GotoType DEF CloseDisconnect, Labels
  <2> QED BY <1>7, <2>3, <2>4 DEF CloseDisconnect, TypeOK
<1>8. CASE CloseFreeInDb2(t)
  <2>1. Db2FreeDbc(db2, h) \in [Slots -> Db2Handle]
    BY <1>1, Db2Types
  <2>2. call' \in [Threads -> Call]
    BY <1>8, GotoType DEF CloseFreeInDb2, Labels
  <2> QED BY <1>1, <1>8, <2>1, <2>2 DEF CloseFreeInDb2, TypeOK
<1>9. CASE UnlockReturns(t)
  <2>1. call' \in [Threads -> Call] /\ known' \in SUBSET Slots
    BY <1>1, <1>9, ReturnType DEF UnlockReturns
  <2> QED BY <1>9, <2>1, TableUnlockType DEF UnlockReturns, TypeOK
<1> QED BY <1>2, <1>3, <1>4, <1>5, <1>6, <1>7, <1>8, <1>9

LEMMA LongNextType ==
  ASSUME TypeOK, [LongNext]_vars
  PROVE  TypeOK'
<1>1. ASSUME NEW t \in Threads, BeginCall(t) \/ CallStep(t) \/ BeginLong(t) \/ LongStep(t)
      PROVE  TypeOK'
  BY <1>1, BeginCallType, CallStepType, BeginLongType, ConnectStepType, CloseStepType DEF LongStep
<1>2. CASE UNCHANGED vars
  BY <1>2 DEF vars, TypeOK
<1> QED BY <1>1, <1>2 DEF LongNext, Quiescent

-----------------------------------------------------------------------------
(* The initial state                                                         *)

LEMMA InitLongInv == Init => LongInv
<1> SUFFICES ASSUME Init PROVE LongInv
  OBVIOUS
<1> DEFINE conn(h) == CHOOSE c \in OpenedUnder(h) : TRUE
           key(h) == IF h \in Pooled THEN CHOOSE k \in Keys : TRUE ELSE NoKey
<1>1. TypeOK /\ Db2Tree /\ AllFiled /\ KnownAlive
  BY InitIInv DEF IInv
<1>2. /\ \A t \in Threads : call[t] = NoCall
      /\ glock = NoThread
      /\ \A s \in Slots : mutex[s] = FreeMutex
  BY DEF Init
<1>3. \A t \in Threads : /\ call[t].at = "idle" /\ call[t].op = "none"
                         /\ ~Named(t) /\ ~Claims(t) /\ ~Owns(t) /\ ~Drops(t) /\ ~UnderLock(t)
                         /\ \A x : ~New(t, x) /\ ~Left(t, x)
  BY <1>2 DEF NoCall, Started, Named, Claims, Owns, Opens, Drops, UnderLock, New, Left
<1>4. ASSUME NEW h \in Slots
      PROVE  /\ OpenedUnder(h) = {} => table[h] = ZeroSlot /\ db2[h] = Db2Free
             /\ OpenedUnder(h) # {} =>
                  /\ h \in HandleNums
                  /\ table[h] = [hstmt |-> h, hdbc |-> conn(h), tid |-> NoThread, in_progress |-> 0,
                                 hKey |-> key(h), thread_init |-> TRUE]
                  /\ db2[h] = [kind |-> IF conn(h) = h THEN "dbc" ELSE "stmt",
                               parent |-> conn(h), connected |-> conn(h) = h]
  <2>1. OpenedUnder(h) # {} => h \in HandleNums
    <3>1. \A p \in Opened : p[1] \in HandleNums
      BY CallAssumption
    <3> QED BY <3>1 DEF OpenedUnder
  <2> QED BY <2>1 DEF Init, OpenedSlot
<1> HIDE DEF conn, key
<1>5. ASSUME NEW h \in Slots
      PROVE  /\ OpenedUnder(h) = {} =>
                  /\ table[h].hstmt = 0 /\ table[h].hdbc = 0 /\ table[h].hKey = NoKey
                  /\ ~Db2Alive(db2, h)
             /\ OpenedUnder(h) # {} =>
                  /\ h \in HandleNums /\ h # 0
                  /\ table[h].hstmt = h /\ table[h].hdbc = conn(h)
                  /\ table[h].hKey = key(h)
                  /\ Db2Alive(db2, h) /\ db2[h].parent = conn(h)
                  /\ db2[h].kind = (IF conn(h) = h THEN "dbc" ELSE "stmt")
                  /\ db2[h].connected = (conn(h) = h)
  <2>1. CASE OpenedUnder(h) = {}
    <3>1. table[h] = ZeroSlot /\ db2[h] = Db2Free
      BY <1>4, <2>1
    <3>2. /\ table[h].hstmt = 0 /\ table[h].hdbc = 0 /\ table[h].hKey = NoKey
          /\ ~Db2Alive(db2, h)
      BY <3>1 DEF ZeroSlot, Db2Free, Db2Alive
    <3> QED BY <2>1, <3>2
  <2>2. CASE OpenedUnder(h) # {}
    <3>1. /\ h \in HandleNums
          /\ table[h] = [hstmt |-> h, hdbc |-> conn(h), tid |-> NoThread, in_progress |-> 0,
                         hKey |-> key(h), thread_init |-> TRUE]
          /\ db2[h] = [kind |-> IF conn(h) = h THEN "dbc" ELSE "stmt",
                       parent |-> conn(h), connected |-> conn(h) = h]
      BY <1>4, <2>2
    <3>2. table[h].hstmt = h /\ table[h].hdbc = conn(h) /\ table[h].hKey = key(h)
      BY <3>1
    <3>3. /\ db2[h].kind = (IF conn(h) = h THEN "dbc" ELSE "stmt")
          /\ db2[h].parent = conn(h)
      BY <3>1
    <3>4. db2[h].connected = (conn(h) = h)
      BY <3>1
    <3>5. h # 0
      BY <3>1 DEF HandleNums
    <3> QED BY <2>2, <3>1, <3>2, <3>3, <3>4, <3>5 DEF Db2Alive
  <2> QED BY <2>1, <2>2
<1>6. Tree
  BY <1>1, <1>5 DEF Tree
<1>7. ASSUME NEW i \in Slots PROVE SlotOK(i)
  <2>1. CASE OpenedUnder(i) = {}
    BY <1>5, <2>1 DEF SlotOK
  <2>2. CASE OpenedUnder(i) # {}
    <3>1. /\ i \in HandleNums /\ table[i].hstmt = i /\ i # 0
          /\ table[i].hdbc = conn(i) /\ Db2Alive(db2, i) /\ db2[i].parent = conn(i)
      BY <1>5, <2>2
    <3>2. conn(i) \in Slots /\ Db2Alive(db2, conn(i)) /\ conn(i) \in HandleNums
          /\ db2[conn(i)].parent = conn(i)
      BY <1>1, <1>6, <3>1, TreeFacts
    <3>3. OpenedUnder(conn(i)) # {}
      BY <1>5, <3>2
    <3>4. table[conn(i)].hstmt # 0 /\ table[conn(i)].hdbc = conn(i)
      BY <1>5, <3>2, <3>3
    <3>5. table[i].thread_init
      BY <1>1, <3>1 DEF AllFiled
    <3> QED BY <3>1, <3>2, <3>4, <3>5 DEF SlotOK
  <2> QED BY <2>1, <2>2
<1>8. Filing
  BY <1>3, <1>7 DEF Filing
<1>9. ASSUME NEW h \in Slots, table[h].hKey # NoKey
      PROVE  h \in Pooled /\ OpenedUnder(h) # {} /\ conn(h) = h
  <2>1. h \in Pooled /\ OpenedUnder(h) # {}
    BY <1>5, <1>9 DEF key
  <2>2. <<h, h>> \in Opened
    BY <2>1, CallAssumption
  <2>3. \A p \in Opened : p[1] = h => p = <<h, h>>
    BY <2>2, CallAssumption
  <2>4. \A c \in OpenedUnder(h) : c = h
    BY <2>3 DEF OpenedUnder
  <2>5. conn(h) \in OpenedUnder(h)
    BY <2>1 DEF conn
  <2> QED BY <2>1, <2>4, <2>5
<1>10. Keyed
  <2>1. \A h \in Slots : table[h].hKey # NoKey =>
          /\ table[h].hstmt # 0 /\ table[h].hdbc = h
          /\ db2[h].kind = "dbc" /\ db2[h].connected
    BY <1>5, <1>9
  <2> QED BY <2>1 DEF Keyed
<1>11. Places /\ TableOwner /\ Sections
  <2>1. TableOwner
    BY <1>2, <1>3, TableAssumption DEF TableOwner, AtTable
  <2> QED BY <1>2, <1>3, <2>1 DEF Places, Sections
<1>12. KeysApart
  BY <1>3 DEF KeysApart, ConnectOps
<1>13. ThreadsGood
  <2>1. ASSUME NEW t \in Threads PROVE HandleIsGood(t) /\ OtherIsGood(t) /\ StateIsGood(t)
    <3>1. HandleIsGood(t) /\ OtherIsGood(t)
      BY <1>3 DEF HandleIsGood, OtherIsGood
    <3>2. StateIsGood(t)
      BY <1>3 DEF StateIsGood, ConnectOps, CloseOps
    <3> QED BY <3>1, <3>2
  <2> QED BY <2>1 DEF ThreadsGood
<1>14. KnownGood
  <2>1. ASSUME NEW x \in known PROVE Usable(x)
    <3>1. x \in HandleNums /\ x \in Slots /\ Db2Alive(db2, x)
      BY <1>1, SlotTypes DEF KnownAlive
    <3> QED BY <1>5, <3>1 DEF Usable
  <2> QED BY <2>1 DEF KnownGood
<1>15. Alone /\ TakenBack
  BY <1>3 DEF Alone, TakenBack, Commands
<1> QED BY <1>1, <1>6, <1>8, <1>10, <1>11, <1>12, <1>13, <1>14, <1>15 DEF LongInv

LEMMA StandStill ==
  ASSUME LongInv, UNCHANGED vars
  PROVE  LongInv' /\ KeyStays
<1> USE DEF vars
<1>1. TypeOK' /\ Places' /\ TableOwner' /\ Sections'
  BY DEF LongInv, TypeOK, Places, TableOwner, Sections, UnderLock
<1>2. \A u \in Threads : /\ (Named(u)' <=> Named(u)) /\ (Claims(u)' <=> Claims(u))
                         /\ (Drops(u)' <=> Drops(u)) /\ (Opens(u)' <=> Opens(u))
                         /\ (Owns(u)' <=> Owns(u)) /\ (Commands(u)' <=> Commands(u))
                         /\ \A x : (New(u, x)' <=> New(u, x)) /\ (Left(u, x)' <=> Left(u, x))
  BY Unmoved DEF Owns, Claims, Named
<1>3. Tree' /\ Filing' /\ Keyed' /\ KeysApart'
  BY <1>2 DEF LongInv, Tree, Db2Tree, Filing, SlotOK, Keyed, KeysApart, Db2Alive
<1>4. ThreadsGood'
  <2>1. ASSUME NEW u \in Threads PROVE HandleIsGood(u)' /\ OtherIsGood(u)' /\ StateIsGood(u)'
    <3>1. HandleIsGood(u) /\ OtherIsGood(u) /\ StateIsGood(u)
      BY GoodFacts
    <3> QED BY <1>2, <3>1 DEF HandleIsGood, OtherIsGood, StateIsGood, Db2Alive
  <2> QED BY <2>1 DEF ThreadsGood
<1>5. KnownGood' /\ Alone' /\ TakenBack'
  BY <1>2 DEF LongInv, KnownGood, Usable, Db2Alive, Alone, TakenBack
<1> QED BY <1>1, <1>3, <1>4, <1>5 DEF LongInv, KeyStays

-----------------------------------------------------------------------------
(* Theorems                                                                  *)

LEMMA CallStepSteps ==
  ASSUME CarefulClients, LongInv, TypeOK', NEW t \in Threads, CallStep(t), Tidy
  PROVE  LongInv' /\ KeyStays
<1>1. CASE DisconnectReturns(t)
  <2>1. CASE db2' = Db2Disconnect(db2, call[t].h) /\ Return(t, {call[t].h})
    <3>1. Db2Stmts(db2, call[t].h) = {}
      BY <1>1, <2>1 DEF Tidy
    <3> QED BY <1>1, <2>1, <3>1, DisconnectGranted
  <2>2. CASE db2' = db2 /\ Return(t, KeptUnder(call[t].h))
    BY <1>1, <2>2, DisconnectRefused
  <2> QED BY <1>1, <2>1, <2>2 DEF DisconnectReturns
<1>2. CASE \/ TableLock(t) \/ LockedCallReturns(t) \/ ConnectReturns(t)
           \/ BareCallReturns(t) \/ CheckPersistent(t)
  BY <1>2, LockStep, ReturnSteps, CheckStep
<1>3. CASE AllocInDb2(t) \/ AllocInTable(t) \/ FreeInDb2(t) \/ FreeInTable(t)
  BY <1>3, AllocStep, AllocTableStep, FreeStep, FreeTableStep
<1> QED BY <1>1, <1>2, <1>3 DEF CallStep

LEMMA LongStepSteps ==
  ASSUME LongInv, TypeOK', NEW t \in Threads, LongStep(t)
  PROVE  LongInv' /\ KeyStays
<1>1. CASE Lookup(t) \/ ConnectAllocs(t) \/ ConnectCtor(t) \/ ConnectInDb2(t) \/ ConnectAddHash(t)
  BY <1>1, LookupStep, ConnectAllocsStep, ConnectCtorStep, ConnectInDb2Step, ConnectAddHashStep
<1>2. CASE ConnectSetup(t) \/ ConnectCmdCtor(t) \/ ConnectCmd(t)
  BY <1>2, ConnectSetupStep, ConnectCmdCtorStep, ConnectCmdStep
<1>3. CASE FreeStmtInDb2(t) \/ FreeStmtInTable(t)
  BY <1>3, FreeStmtDb2Step, FreeStmtTableStep
<1>4. CASE CloseChecks(t) \/ CloseFindStmt(t) \/ CloseDtor(t)
  BY <1>4, CloseChecksStep, CloseFindStep, CloseDtorStep
<1>5. CASE CloseDisconnect(t) \/ CloseFreeInDb2(t) \/ CloseFreeInTable(t) \/ UnlockReturns(t)
  BY <1>5, CloseDisconnectStep, CloseFreeInDb2Step, CloseFreeInTableStep, UnlockReturnsStep
<1> QED BY <1>1, <1>2, <1>3, <1>4, <1>5 DEF LongStep

LEMMA LongNextKeeps ==
  ASSUME CarefulClients, LongInv, [LongNext]_vars, [Tidy]_vars
  PROVE  LongInv' /\ KeyStays
<1>1. TypeOK'
  BY LongNextType DEF LongInv
<1>2. CASE UNCHANGED vars
  BY <1>2, StandStill
<1>3. ASSUME NEW t \in Threads, Tidy, BeginCall(t) \/ CallStep(t) \/ BeginLong(t) \/ LongStep(t)
      PROVE  LongInv' /\ KeyStays
  BY <1>1, <1>3, BeginCallStep, CallStepSteps, BeginLongStep, LongStepSteps
<1> QED BY <1>2, <1>3 DEF LongNext, Quiescent

\* Whatever the clients do, careful or not, the aggregate functions beside the plain
\* calls keep the shape of the table, the mutexes, DB2's handles and the calls: the
\* scans for a statement or a key (init_table_find_stmt, init_table_hash_2_conn_both)
\* lead to slots of the table.
THEOREM LongTypeCorrect == LongSpec => []TypeOK
<1>1. Init => TypeOK
  BY InitTypeOK
<1>2. TypeOK /\ [LongNext]_vars => TypeOK'
  BY LongNextType
<1> QED BY <1>1, <1>2, PTL DEF LongSpec

\* The inductive invariant of the aggregate functions and the plain calls together,
\* for careful and tidy clients: what the table files is alive and under its own
\* connection, but for the handle the owner of the global lock is about; and a
\* thread that closes a connection is alone with it.
THEOREM LongInvariant ==
  ASSUME CarefulClients
  PROVE  LongSpec /\ TidyClients => []LongInv
<1>1. Init => LongInv
  BY InitLongInv
<1>2. LongInv /\ [LongNext]_vars /\ [Tidy]_vars => LongInv'
  BY LongNextKeeps
<1> QED BY <1>1, <1>2, PTL DEF LongSpec, TidyClients

\* However many threads, connections and keys there are, no two threads are inside
\* DB2 or inside an aggregate function on one connection: the mutex SQL400Connect,
\* SQL400Close and the others take is held until their own unlock, through every
\* call they make and although CloseDtor wipes the slot it is looked up by.
THEOREM LongOneAtATime ==
  ASSUME CarefulClients
  PROVE  LongSpec /\ TidyClients => []OneCallPerConnection
<1>1. LongInv => OneCallPerConnection
  <2> SUFFICES ASSUME LongInv, NEW t \in Threads, NEW u \in Threads,
                      t # u, UnderLock(t), UnderLock(u), call[t].c = call[u].c
               PROVE  FALSE
    BY DEF OneCallPerConnection
  <2>1. Held(t) = Held(u)
    BY DEF LongInv, Sections
  <2> QED BY <2>1, HeldFacts
<1> QED BY <1>1, LongInvariant, PTL

\* A thread back at its client holds neither the global lock nor a mutex, the
\* error paths of a connect and the wiped slot of a close included.
THEOREM LongNothingKept ==
  ASSUME CarefulClients
  PROVE  LongSpec /\ TidyClients => []NothingHeldAfterReturn
<1>1. LongInv => NothingHeldAfterReturn
  <2> SUFFICES ASSUME LongInv, NEW t \in Threads, call[t].at = "idle"
               PROVE  glock # t /\ \A s \in Slots : mutex[s].owner # t
    BY DEF NothingHeldAfterReturn
  <2>1. glock # t
    BY DEF LongInv, TableOwner, AtTable
  <2>2. ~UnderLock(t)
    BY DEF UnderLock
  <2>3. ASSUME NEW s \in Slots PROVE mutex[s].owner # t
    <3>1. CASE mutex[s] = FreeMutex
      BY <3>1, TableAssumption DEF FreeMutex
    <3>2. ASSUME NEW u \in Threads, UnderLock(u), mutex[s] = Held(u)
          PROVE  mutex[s].owner # t
      BY <2>2, <3>2, HeldFacts
    <3> QED BY <3>1, <3>2 DEF LongInv, Sections
  <2> QED BY <2>1, <2>3
<1> QED BY <1>1, LongInvariant, PTL

\* A handle a client holds is alive and filed under its own, connected, connection:
\* neither a close nor the refused disconnect of a persistent connection, both of
\* which hand handles back to the client, hands out one that is gone.
THEOREM LongKnownLive ==
  ASSUME CarefulClients
  PROVE  LongSpec /\ TidyClients => []KnownHandlesAreLive
<1>1. LongInv => KnownHandlesAreLive
  <2> SUFFICES ASSUME LongInv, NEW h \in known
               PROVE  /\ Db2Alive(db2, h)
                      /\ table[h].hstmt = h /\ table[h].hdbc = db2[h].parent
                      /\ db2[h].kind = "stmt" => db2[db2[h].parent].connected
    BY DEF KnownHandlesAreLive
  <2>1. Usable(h)
    BY DEF LongInv, KnownGood
  <2>2. /\ Db2Alive(db2, h) /\ h \in Slots
        /\ table[h].hstmt = h /\ table[h].hdbc = db2[h].parent
    BY <2>1, UsableFacts DEF Usable
  <2>3. db2[h].kind = "stmt" => db2[db2[h].parent].connected
    BY <2>2, TreeFacts DEF LongInv
  <2> QED BY <2>2, <2>3
<1> QED BY <1>1, LongInvariant, PTL

\* Whatever the keys, narrow and wide: a slot with a key belongs to a connected
\* connection, so SQL400pConnect never hands out one that was closed.
THEOREM KeyedConnections ==
  ASSUME CarefulClients
  PROVE  LongSpec /\ TidyClients => []KeyedIsConnected
<1>1. LongInv => KeyedIsConnected
  BY DEF LongInv, Keyed, KeyedIsConnected
<1> QED BY <1>1, LongInvariant, PTL

\* "persistent connect only close with SQL400pClose": for careful and tidy clients
\* no other step of any call takes the key off a slot or disconnects a connection
\* that has one.  Without tidiness a close can wipe the slot of another's.
THEOREM OnlyPClose ==
  ASSUME CarefulClients
  PROVE  LongSpec /\ TidyClients => OnlyPCloseCloses
<1> DEFINE Kept ==
      \A h \in Slots :
       /\ table[h].hKey # NoKey
       /\ table'[h].hKey = NoKey \/ ~db2'[h].connected
       => \E t \in Threads : /\ call[t].op = "SQL400pClose"
                            /\ call[t].at = "dtor" /\ call[t].h = h
<1>1. LongInv /\ LongInv' /\ [LongNext]_vars /\ [Tidy]_vars => [Kept]_vars
  <2> SUFFICES ASSUME LongInv, LongInv', [LongNext]_vars, [Tidy]_vars PROVE Kept
    OBVIOUS
  <2>1. KeyStays
    BY LongNextKeeps
  <2>2. \A h \in Slots : table'[h].hKey # NoKey => db2'[h].connected
    BY DEF LongInv, Keyed
  <2> QED BY <2>1, <2>2 DEF KeyStays
<1>2. LongSpec /\ TidyClients => []LongInv
  BY LongInvariant
<1> QED BY <1>1, <1>2, PTL DEF LongSpec, TidyClients, OnlyPCloseCloses

-----------------------------------------------------------------------------
(* How many connections a key may name.  A thread that has looked a key up in  *)
(* vain will enter it, whoever else enters it meanwhile: it counts as one       *)
(* connection more.                                                            *)

Seeking == {"glock", "table", "want", "db2", "addhash"}

Seeks(t, k) == call[t].op = "SQL400pConnect" /\ call[t].key = k /\ call[t].at \in Seeking

SlotsOf(k) == {h \in Slots : table[h].hKey = k}

SeekersOf(k) == {t \in Threads : Seeks(t, k)}

KeyCount ==
  \A k \in Keys \ WideKeys :
    Cardinality(SlotsOf(k)) + Cardinality(SeekersOf(k)) =< Cardinality(Threads)

\* No slot gets a key.
Unkeyed(tab, new) == \A i \in Slots : new[i].hKey \in {tab[i].hKey, NoKey}

LEMMA UnkeyedSteps ==
  ASSUME NEW tab \in [Slots -> Slot], NEW h \in Slots
  PROVE  /\ Unkeyed(tab, tab)
         /\ \A c : Unkeyed(tab, Ctor(tab, h, c))
         /\ Unkeyed(tab, Dtor(tab, h))
         /\ \A f : Unkeyed(tab, MarkIdle(tab, h, f))
         /\ \A f : \A t \in Threads : Unkeyed(tab, MarkBusy(tab, h, f, t))
         /\ \A f : \A t \in Threads : Unkeyed(tab, MarkIdle(MarkBusy(tab, h, f, t), h, f))
<1>1. Unkeyed(tab, tab)
  BY DEF Unkeyed
<1>2. ASSUME NEW c, NEW i \in Slots PROVE Ctor(tab, h, c)[i].hKey \in {tab[i].hKey, NoKey}
  BY DEF Ctor
<1>3. ASSUME NEW i \in Slots PROVE Dtor(tab, h)[i].hKey \in {tab[i].hKey, NoKey}
  <2>1. Cleared(tab[i]).hKey = NoKey
    BY DEF Cleared, ZeroSlot
  <2>2. Dtor(tab, h)[i] \in {Cleared(tab[i]), tab[i]}
    BY DEF Dtor
  <2> QED BY <2>1, <2>2
<1>4. ASSUME NEW f PROVE Unkeyed(tab, MarkIdle(tab, h, f))
  BY MarkIdleFacts DEF SameMapping, Unkeyed
<1>5. ASSUME NEW f, NEW t \in Threads
      PROVE  /\ Unkeyed(tab, MarkBusy(tab, h, f, t))
             /\ Unkeyed(tab, MarkIdle(MarkBusy(tab, h, f, t), h, f))
  <2>1. /\ MarkBusy(tab, h, f, t) \in [Slots -> Slot]
        /\ SameMapping(tab, MarkBusy(tab, h, f, t))
    BY MarkBusyFacts
  <2>2. SameMapping(MarkBusy(tab, h, f, t), MarkIdle(MarkBusy(tab, h, f, t), h, f))
    BY <2>1, MarkIdleFacts
  <2> QED BY <2>1, <2>2 DEF SameMapping, Unkeyed
<1> QED BY <1>1, <1>2, <1>3, <1>4, <1>5 DEF Unkeyed

LEMMA KeySetsFinite ==
  ASSUME NEW k
  PROVE  /\ IsFiniteSet(SlotsOf(k)) /\ IsFiniteSet(SeekersOf(k)) /\ IsFiniteSet(Threads)
         /\ Cardinality(SlotsOf(k)) \in Nat /\ Cardinality(SeekersOf(k)) \in Nat
         /\ Cardinality(Threads) \in Nat
<1>1. IsFiniteSet(Slots)
  BY TableAssumption, FS_Interval DEF Slots
<1>2. SlotsOf(k) \in SUBSET Slots /\ SeekersOf(k) \in SUBSET Threads
  BY DEF SlotsOf, SeekersOf
<1>3. IsFiniteSet(SlotsOf(k)) /\ IsFiniteSet(SeekersOf(k)) /\ IsFiniteSet(Threads)
  BY <1>1, <1>2, FS_Subset, ThreadsAssumption
<1> QED BY <1>3, FS_CardinalityType

\* A step that enters no key and sends nobody looking for one.
LEMMA CountKept ==
  ASSUME KeyCount, NEW t \in Threads, Others(t), Unkeyed(table, table'),
         \A k \in Keys : Seeks(t, k)' => Seeks(t, k)
  PROVE  KeyCount'
<1> SUFFICES ASSUME NEW k \in Keys \ WideKeys
             PROVE  Cardinality(SlotsOf(k)') + Cardinality(SeekersOf(k)') =< Cardinality(Threads)
  BY DEF KeyCount
<1>1. SlotsOf(k)' \in SUBSET SlotsOf(k)
  BY TableAssumption DEF SlotsOf, Unkeyed
<1>2. \A u \in Threads : Seeks(u, k)' => Seeks(u, k)
  BY DEF Others, Seeks
<1>3. SeekersOf(k)' \in SUBSET SeekersOf(k)
  BY <1>2 DEF SeekersOf
<1>4. /\ IsFiniteSet(SlotsOf(k)') /\ Cardinality(SlotsOf(k)') =< Cardinality(SlotsOf(k))
      /\ IsFiniteSet(SeekersOf(k)') /\ Cardinality(SeekersOf(k)') =< Cardinality(SeekersOf(k))
  BY <1>1, <1>3, KeySetsFinite, FS_Subset
<1>5. Cardinality(SlotsOf(k)') \in Nat /\ Cardinality(SeekersOf(k)') \in Nat
  BY <1>4, FS_CardinalityType
<1>6. Cardinality(SlotsOf(k)) + Cardinality(SeekersOf(k)) =< Cardinality(Threads)
  BY DEF KeyCount
<1> QED BY <1>4, <1>5, <1>6, KeySetsFinite

\* The beginning of a call, and the calls that look for no key.
LEMMA PlainCount ==
  ASSUME LongInv, KeyCount, NEW t \in Threads, BeginCall(t) \/ CallStep(t) \/ BeginLong(t)
  PROVE  KeyCount'
<1>1. TypeOK /\ PlaceOK(t) /\ call[t].h \in Slots /\ call[t].o \in Slots
  BY GoodFacts DEF LongInv
<1>2. table \in [Slots -> Slot]
  BY <1>1 DEF TypeOK
<1>3. ASSUME NEW op \in CallOps, NEW h, NEW label, Begin(t, op, h, label) PROVE KeyCount'
  <2>1. Others(t) /\ call'[t].op = op /\ table' = table
    BY <1>1, <1>3, BeginFacts
  <2>2. \A k \in Keys : ~Seeks(t, k)'
    BY <2>1 DEF Seeks, CallOps
  <2> QED BY <1>1, <1>2, <2>1, <2>2, CountKept, UnkeyedSteps
<1>4. CASE BeginCall(t)
  BY <1>3, <1>4 DEF BeginCall, BeginAllocConnect, BeginAllocStmt, BeginStmtCall, BeginConnCall,
     BeginConnect, BeginEndTran, BeginFreeStmt, BeginDisconnect, BeginFreeConnect, BeginRelease,
     CallOps
<1>5. CASE BeginLong(t)
  <2>1. ASSUME NEW op, NEW key, BeginConnectBoth(t, op, key)
        PROVE  /\ Others(t) /\ table' = table
               /\ call'[t].op = op /\ (op = "SQL400pConnect" => call'[t].at = "lookup")
    BY <1>1, <2>1 DEF BeginConnectBoth, Started, Others, TypeOK
  <2>2. ASSUME NEW op \in CloseOps, NEW h, BeginClose(t, op, h)
        PROVE  Others(t) /\ table' = table /\ call'[t].op \in CloseOps
    BY <1>1, <2>2 DEF BeginClose, Started, Others, TypeOK
  <2>3. Others(t) /\ table' = table /\ \A k \in Keys : ~Seeks(t, k)'
    BY <1>5, <2>1, <2>2 DEF BeginLong, Seeks, Seeking, CloseOps
  <2> QED BY <1>1, <1>2, <2>3, CountKept, UnkeyedSteps
<1>6. ASSUME NEW back, Return(t, back) PROVE Others(t) /\ \A k \in Keys : ~Seeks(t, k)'
  BY <1>6, ReturnAll DEF Seeks, Seeking
<1>7. ASSUME NEW label, Goto(t, label), call[t].op # "SQL400pConnect"
      PROVE  Others(t) /\ \A k \in Keys : ~Seeks(t, k)'
  BY <1>7, GotoAll DEF Seeks
<1>8. CASE TableLock(t)
  <2>1. /\ call[t].at = "want" /\ Goto(t, "db2")
        /\ table' = MarkBusy(table, call[t].h, Flag(call[t].op), t)
    BY <1>8 DEF TableLock
  <2>2. Others(t) /\ \A k \in Keys : Seeks(t, k)' => Seeks(t, k)
    BY <2>1, GotoAll DEF Seeks, Seeking
  <2>3. Unkeyed(table, table')
    BY <1>1, <1>2, <2>1, UnkeyedSteps
  <2> QED BY <2>2, <2>3, CountKept
<1>9. CASE \/ LockedCallReturns(t) \/ ConnectReturns(t) \/ BareCallReturns(t)
           \/ DisconnectReturns(t)
  <2>1. /\ Others(t) /\ \A k \in Keys : ~Seeks(t, k)'
        /\ table' \in {table, MarkIdle(table, call[t].h, Flag(call[t].op))}
    BY <1>6, <1>9 DEF LockedCallReturns, ConnectReturns, BareCallReturns, DisconnectReturns,
       TableUnlock
  <2> QED BY <1>1, <1>2, <2>1, CountKept, UnkeyedSteps
<1>10. CASE CheckPersistent(t)
  <2>1. Others(t) /\ table' = table /\ \A k \in Keys : ~Seeks(t, k)'
    BY <1>6, <1>7, <1>10 DEF CheckPersistent
  <2> QED BY <1>1, <1>2, <2>1, CountKept, UnkeyedSteps
<1>11. CASE AllocInDb2(t) \/ AllocInTable(t)
  <2>1. /\ Others(t) /\ \A k \in Keys : ~Seeks(t, k)'
        /\ table' = table \/ \E c : table' = Ctor(table, call[t].o, c)
    <3>1. ASSUME NEW o, call[t].op \in {"AllocConnect", "AllocStmt"},
                 call' = [call EXCEPT ![t] = WithNew(call[t], o)]
          PROVE  Others(t) /\ \A k \in Keys : ~Seeks(t, k)'
      <4>1. Others(t) /\ call'[t].op = call[t].op
        BY <1>1, <3>1, WithNewFacts
      <4> QED BY <3>1, <4>1 DEF Seeks
    <3> QED BY <1>6, <1>11, <3>1 DEF AllocInDb2, AllocInTable
  <2> QED BY <1>1, <1>2, <2>1, CountKept, UnkeyedSteps
<1>12. CASE FreeInDb2(t) \/ FreeInTable(t)
  <2>1. /\ Others(t) /\ \A k \in Keys : ~Seeks(t, k)'
        /\ table' \in {table, Dtor(table, call[t].h)}
    BY <1>6, <1>7, <1>12 DEF FreeInDb2, FreeInTable
  <2> QED BY <1>1, <1>2, <2>1, CountKept, UnkeyedSteps
<1> QED BY <1>4, <1>5, <1>8, <1>9, <1>10, <1>11, <1>12 DEF CallStep

\* A thread goes looking only when no slot has its key.
LEMMA LookupCount ==
  ASSUME LongInv, KeyCount, NEW t \in Threads, Lookup(t)
  PROVE  KeyCount'
<1>1. /\ call[t].at = "lookup" /\ call[t].op = "SQL400pConnect" /\ table' = table
      /\ call[t].key \in Keys /\ table \in [Slots -> Slot]
  BY GoodFacts DEF Lookup, PlaceOK, StateIsGood, LongInv, TypeOK
<1>2. ASSUME NEW back, Return(t, back) PROVE KeyCount'
  <2>1. Others(t) /\ \A k \in Keys : ~Seeks(t, k)'
    BY <1>2, ReturnAll DEF Seeks, Seeking
  <2> QED BY <1>1, <2>1, CountKept DEF Unkeyed
<1>3. ASSUME Goto(t, "glock"), ~(Hash2Conn(table, call[t].key) > 1) PROVE KeyCount'
  <2>1. Others(t) /\ call'[t].key = call[t].key
    BY <1>3, GotoAll
  <2>2. ASSUME call[t].key \notin WideKeys, NEW g \in Slots, table[g].hKey = call[t].key
        PROVE  FALSE
    <3>1. PICK i \in Slots : /\ table[i].hKey = call[t].key
                             /\ Hash2Conn(table, call[t].key) = table[i].hdbc
      BY <1>1, <2>2, HashLeast
    <3>2. table[i].hdbc = i /\ db2[i].kind = "dbc"
      BY <1>1, <3>1, TableAssumption DEF LongInv, Keyed
    <3>3. i \in HandleNums
      BY <3>2 DEF LongInv, Tree, Db2Alive
    <3> QED BY <1>3, <3>1, <3>2, <3>3, TableAssumption DEF HandleNums
  <2> SUFFICES ASSUME NEW k \in Keys \ WideKeys
               PROVE  Cardinality(SlotsOf(k)') + Cardinality(SeekersOf(k)')
                        =< Cardinality(Threads)
    BY DEF KeyCount
  <2>3. SlotsOf(k)' = SlotsOf(k)
    BY <1>1 DEF SlotsOf
  <2>4. CASE k = call[t].key
    <3>1. SlotsOf(k)' = {}
      BY <2>2, <2>3, <2>4 DEF SlotsOf
    <3>2. SeekersOf(k)' \in SUBSET Threads
      BY DEF SeekersOf
    <3>3. /\ IsFiniteSet(SeekersOf(k)') /\ Cardinality(SeekersOf(k)') =< Cardinality(Threads)
      BY <3>2, ThreadsAssumption, FS_Subset
    <3>4. Cardinality(SlotsOf(k)') = 0 /\ Cardinality(SeekersOf(k)') \in Nat
      BY <3>1, <3>3, FS_EmptySet, FS_CardinalityType
    <3> QED BY <3>3, <3>4, KeySetsFinite
  <2>5. CASE k # call[t].key
    <3>1. \A u \in Threads : Seeks(u, k)' <=> Seeks(u, k)
      BY <2>1, <2>5 DEF Seeks, Others
    <3>2. SeekersOf(k)' = SeekersOf(k)
      BY <3>1 DEF SeekersOf
    <3> QED BY <2>3, <3>2 DEF KeyCount
  <2> QED BY <2>4, <2>5
<1> QED BY <1>2, <1>3 DEF Lookup

\* One seeker fewer, at most one connection more.
LEMMA AddHashCount ==
  ASSUME LongInv, KeyCount, NEW t \in Threads, ConnectAddHash(t)
  PROVE  KeyCount'
<1>0. PICK h \in Slots : h = call[t].h
  BY GoodFacts
<1>1. /\ call[t].at = "addhash" /\ call[t].op = "SQL400pConnect" /\ Goto(t, "setup")
      /\ table' = [table EXCEPT ![h].hKey = call[t].key] /\ table \in [Slots -> Slot]
  BY <1>0, GoodFacts DEF ConnectAddHash, AddHash, PlaceOK, LongInv, TypeOK
<1>2. Others(t) /\ call'[t].at = "setup"
  BY <1>1, GotoAll
<1>3. \A i \in Slots : table'[i].hKey = IF i = h THEN call[t].key ELSE table[i].hKey
  BY <1>1 DEF Slot
<1> SUFFICES ASSUME NEW k \in Keys \ WideKeys
             PROVE  Cardinality(SlotsOf(k)') + Cardinality(SeekersOf(k)') =< Cardinality(Threads)
  BY DEF KeyCount
<1>4. Cardinality(SlotsOf(k)) + Cardinality(SeekersOf(k)) =< Cardinality(Threads)
  BY DEF KeyCount
<1>5. ~Seeks(t, k)' /\ \A u \in Threads \ {t} : Seeks(u, k)' <=> Seeks(u, k)
  BY <1>2 DEF Seeks, Seeking, Others
<1>6. SeekersOf(k)' = SeekersOf(k) \ {t}
  BY <1>5 DEF SeekersOf
<1>7. CASE k = call[t].key
  <2>1. t \in SeekersOf(k)
    BY <1>1, <1>7 DEF SeekersOf, Seeks, Seeking
  <2>2. SlotsOf(k)' = SlotsOf(k) \cup {h}
    BY <1>3, <1>7 DEF SlotsOf
  <2>3. Cardinality(SeekersOf(k)') = Cardinality(SeekersOf(k)) - 1
    BY <1>6, <2>1, KeySetsFinite, FS_RemoveElement
  <2>4. Cardinality(SlotsOf(k)') \in {Cardinality(SlotsOf(k)), Cardinality(SlotsOf(k)) + 1}
    BY <2>2, KeySetsFinite, FS_AddElement
  <2> QED BY <1>4, <2>3, <2>4, KeySetsFinite
<1>8. CASE k # call[t].key
  <2>1. SlotsOf(k)' \in SUBSET SlotsOf(k)
    BY <1>3, <1>8 DEF SlotsOf
  <2>2. SeekersOf(k)' = SeekersOf(k)
    BY <1>1, <1>6, <1>8 DEF SeekersOf, Seeks
  <2>3. Cardinality(SlotsOf(k)') \in Nat /\ Cardinality(SlotsOf(k)') =< Cardinality(SlotsOf(k))
    BY <2>1, KeySetsFinite, FS_Subset, FS_CardinalityType
  <2> QED BY <1>4, <2>2, <2>3, KeySetsFinite
<1> QED BY <1>7, <1>8

\* The other steps of the aggregate functions.
LEMMA LongCount ==
  ASSUME LongInv, KeyCount, NEW t \in Threads, LongStep(t)
  PROVE  KeyCount'
<1>1. /\ TypeOK /\ PlaceOK(t) /\ call[t].h \in Slots /\ call[t].o \in Slots
      /\ table \in [Slots -> Slot]
  BY GoodFacts DEF LongInv, TypeOK
<1>2. ASSUME NEW back, Return(t, back) PROVE Others(t) /\ \A k \in Keys : Seeks(t, k)' => Seeks(t, k)
  BY <1>2, ReturnAll DEF Seeks, Seeking
<1>3. ASSUME NEW label, Goto(t, label), label \in Seeking => call[t].at \in Seeking
      PROVE  Others(t) /\ \A k \in Keys : Seeks(t, k)' => Seeks(t, k)
  BY <1>3, GotoAll DEF Seeks
<1>4. ASSUME Others(t), call'[t].at \notin Seeking
      PROVE  \A k \in Keys : Seeks(t, k)' => Seeks(t, k)
  BY <1>4 DEF Seeks
<1>5. CASE ConnectAllocs(t)
  <2>1. ASSUME NEW o \in HandleNums,
               call' = [call EXCEPT ![t].at = "table", ![t].h = o, ![t].c = o, ![t].m = o]
        PROVE  Others(t) /\ \A k \in Keys : Seeks(t, k)' => Seeks(t, k)
    <3>1. Others(t) /\ call'[t].op = call[t].op /\ call'[t].key = call[t].key
      BY <1>1, <2>1 DEF TypeOK, Call, Others
    <3> QED BY <1>5, <3>1 DEF Seeks, Seeking, ConnectAllocs
  <2>2. table' = table
    BY <1>5 DEF ConnectAllocs
  <2>3. Others(t) /\ \A k \in Keys : Seeks(t, k)' => Seeks(t, k)
    BY <1>2, <1>5, <2>1 DEF ConnectAllocs
  <2> QED BY <1>1, <2>2, <2>3, CountKept, UnkeyedSteps
<1>6. CASE ConnectCtor(t) \/ ConnectInDb2(t) \/ ConnectCmdCtor(t) \/ ConnectCmd(t)
  <2>1. Others(t) /\ \A k \in Keys : Seeks(t, k)' => Seeks(t, k)
    BY <1>2, <1>3, <1>6 DEF ConnectCtor, ConnectInDb2, ConnectCmdCtor, ConnectCmd, Seeking
  <2>2. \/ table' \in {table, MarkIdle(table, call[t].h, Flag(call[t].op)),
                       MarkIdle(MarkBusy(table, call[t].o, 1, t), call[t].o, 1)}
        \/ \E c : table' \in {Ctor(table, call[t].h, c), Ctor(table, call[t].o, c)}
    BY <1>6 DEF ConnectCtor, ConnectInDb2, ConnectCmdCtor, ConnectCmd, TableUnlock
  <2>3. /\ Unkeyed(table, MarkIdle(MarkBusy(table, call[t].o, 1, t), call[t].o, 1))
        /\ \A c : Unkeyed(table, Ctor(table, call[t].h, c)) /\ Unkeyed(table, Ctor(table, call[t].o, c))
        /\ Unkeyed(table, table) /\ Unkeyed(table, MarkIdle(table, call[t].h, Flag(call[t].op)))
    BY <1>1, UnkeyedSteps
  <2>4. Unkeyed(table, table')
    BY <2>2, <2>3
  <2> QED BY <2>1, <2>4, CountKept
<1>7. CASE ConnectSetup(t) \/ UnlockReturns(t)
  <2>1. ASSUME NEW o \in HandleNums, call' = [call EXCEPT ![t].at = "cmdtable", ![t].o = o]
        PROVE  Others(t) /\ call'[t].at = "cmdtable"
    BY <1>1, <2>1 DEF TypeOK, Call, Others
  <2>2. Others(t) /\ \A k \in Keys : Seeks(t, k)' => Seeks(t, k)
    BY <1>2, <1>4, <1>7, <2>1 DEF ConnectSetup, UnlockReturns, Seeking
  <2>3. table' \in {table, MarkIdle(table, call[t].h, Flag(call[t].op))}
    BY <1>7 DEF ConnectSetup, UnlockReturns, TableUnlock
  <2> QED BY <1>1, <2>2, <2>3, CountKept, UnkeyedSteps
<1>8. CASE FreeStmtInDb2(t) \/ FreeStmtInTable(t) \/ CloseDtor(t)
           \/ CloseFreeInDb2(t) \/ CloseFreeInTable(t)
  <2>1. Others(t) /\ \A k \in Keys : Seeks(t, k)' => Seeks(t, k)
    BY <1>3, <1>8 DEF FreeStmtInDb2, FreeStmtInTable, CloseDtor, CloseFreeInDb2,
       CloseFreeInTable, Seeking
  <2>2. table' \in {table, Dtor(table, call[t].h), Dtor(table, call[t].o)}
    BY <1>8 DEF FreeStmtInDb2, FreeStmtInTable, CloseDtor, CloseFreeInDb2, CloseFreeInTable
  <2> QED BY <1>1, <2>1, <2>2, CountKept, UnkeyedSteps
<1>9. CASE CloseChecks(t) \/ CloseFindStmt(t)
  <2>1. /\ Others(t) /\ table' = table
        /\ call'[t].at \in {"stmts", "free", "unlock", "dtor"}
    BY <1>1, <1>9 DEF CloseChecks, CloseFindStmt, TypeOK, Call, Others
  <2>2. \A k \in Keys : Seeks(t, k)' => Seeks(t, k)
    BY <1>4, <2>1 DEF Seeking
  <2> QED BY <1>1, <2>1, <2>2, CountKept, UnkeyedSteps
<1>10. CASE CloseDisconnect(t)
  <2>1. Others(t) /\ \A k \in Keys : Seeks(t, k)' => Seeks(t, k)
    BY <1>3, <1>10 DEF CloseDisconnect, Seeking
  <2>2. table' \in {table, MarkIdle(MarkBusy(table, call[t].h, 0, t), call[t].h, 0)}
    BY <1>10 DEF CloseDisconnect
  <2>3. Unkeyed(table, table')
    BY <1>1, <2>2, UnkeyedSteps
  <2> QED BY <2>1, <2>3, CountKept
<1> QED BY <1>5, <1>6, <1>7, <1>8, <1>9, <1>10, LookupCount, AddHashCount DEF LongStep

LEMMA InitCount == Init => KeyCount
<1> SUFFICES ASSUME Init, NEW k \in Keys \ WideKeys
             PROVE  Cardinality(SlotsOf(k)) + Cardinality(SeekersOf(k)) =< Cardinality(Threads)
  BY DEF KeyCount
<1>1. SeekersOf(k) = {}
  BY DEF Init, SeekersOf, Seeks, NoCall, Started
<1>2. Cardinality(SeekersOf(k)) = 0
  BY <1>1, FS_EmptySet
<1>3. ASSUME NEW h \in SlotsOf(k) PROVE h \in Pooled
  <2>1. h \in Slots /\ table[h].hKey # NoKey
    BY <1>3, TableAssumption DEF SlotsOf
  <2>2. table[h] \in {ZeroSlot, OpenedSlot(h)}
    BY <2>1 DEF Init
  <2> QED BY <2>1, <2>2 DEF ZeroSlot, OpenedSlot
<1>4. Cardinality(SlotsOf(k)) =< 1
  <2>1. CASE SlotsOf(k) = {}
    BY <2>1, FS_EmptySet
  <2>2. CASE \E h : h \in SlotsOf(k)
    <3>1. PICK h : SlotsOf(k) = {h}
      BY <1>3, <2>2, CallAssumption
    <3>2. Cardinality({h}) = 1
      BY FS_Singleton
    <3> QED BY <3>1, <3>2
  <2> QED BY <2>1, <2>2
<1>5. Cardinality(Threads) >= 1
  BY ThreadsAssumption, FS_EmptySet, KeySetsFinite
<1> QED BY <1>2, <1>4, <1>5, KeySetsFinite

\* Opening a key is a search and an entry with everything SQLConnect takes between
\* them, and threads may do it at once; however often they open and close it, one
\* narrow key never names more connections than there are threads: nobody who comes
\* when it names one opens another.  The clients are careful and tidy; they may open
\* a key at once.  There is no such bound for a wide key, which no search finds again.
THEOREM KeysBounded ==
  ASSUME CarefulClients
  PROVE  LongSpec /\ TidyClients => []KeyedByThreads
<1>1. Init => KeyCount
  BY InitCount
<1>2. LongInv /\ KeyCount /\ [LongNext]_vars => KeyCount'
  <2> SUFFICES ASSUME LongInv, KeyCount, [LongNext]_vars PROVE KeyCount'
    OBVIOUS
  <2>1. CASE UNCHANGED vars
    BY <2>1 DEF vars, KeyCount, SlotsOf, SeekersOf, Seeks
  <2> QED BY <2>1, PlainCount, LongCount DEF LongNext, Quiescent
<1>3. KeyCount => KeyedByThreads
  <2> SUFFICES ASSUME KeyCount, NEW k \in Keys \ WideKeys
               PROVE  Cardinality(SlotsOf(k)) =< Cardinality(Threads)
    BY DEF KeyedByThreads, SlotsOf
  <2> QED BY KeySetsFinite DEF KeyCount
<1>4. LongSpec /\ TidyClients => []LongInv
  BY LongInvariant
<1> QED BY <1>1, <1>2, <1>3, <1>4, PTL DEF LongSpec

-----------------------------------------------------------------------------
(* Nothing is left over: every handle DB2 knows is a client's or is answered for *)
(* by a call in flight.                                                      *)

\* The call answers for a handle: one it allocated, drops or closes, or one of the
\* connection it releases, unless it has just found that there are none left.
Keeps(t, x) ==
  \/ Drops(t) /\ x = call[t].h
  \/ New(t, x)
  \/ call[t].at \in {"cmd", "free"} /\ x = call[t].o
  \/ Named(t) /\ call[t].op \in ConnectOps /\ x = call[t].h
  \/ /\ Claims(t) /\ call[t].op \in ReleaseOps \cup CloseOps
     /\ \/ x = call[t].h /\ call[t].at # "byetable"
        \/ /\ call[t].at \in {"check", "want", "db2", "glock", "stmts", "free", "freed"}
           /\ db2[x].parent = call[t].h

Orphanless ==
  /\ \A t \in Threads : call[t].at = "idle" => call[t] = NoCall
  /\ \A t \in Threads : call[t].at = "byelock" => ~db2[call[t].h].connected
  /\ \A x \in HandleNums : Db2Alive(db2, x) => x \in known \/ \E t \in Threads : Keeps(t, x)

\* A handle that a step of t leaves in the care of whoever had it.
Stays(t, x) ==
  /\ Db2Alive(db2, x) /\ db2'[x].parent = db2[x].parent
  /\ \/ ~Keeps(t, x) /\ (x \in known => x \in known')
     \/ \E u \in Threads \ {t} : Keeps(u, x)

LEMMA KeepsUnmoved ==
  ASSUME NEW u \in Threads, call'[u] = call[u], NEW x, db2'[x].parent = db2[x].parent
  PROVE  Keeps(u, x)' <=> Keeps(u, x)
BY Unmoved DEF Keeps

LEMMA OrphansKept ==
  ASSUME LongInv, Orphanless, NEW t \in Threads, Others(t),
         call'[t].at = "idle" => call'[t] = NoCall,
         call'[t].at = "byelock" => ~db2'[call'[t].h].connected,
         \A x \in Slots : db2'[x].connected => db2[x].connected \/ (Claims(t) /\ x = call[t].c),
         \A x \in HandleNums : Db2Alive(db2, x)' => x \in known' \/ Keeps(t, x)' \/ Stays(t, x)
  PROVE  Orphanless'
<1>1. \A u \in Threads : call'[u].at = "idle" => call'[u] = NoCall
  BY DEF Others, Orphanless
<1>2. ASSUME NEW u \in Threads, call'[u].at = "byelock" PROVE ~db2'[call'[u].h].connected
  <2>1. CASE u = t
    BY <1>2, <2>1
  <2>2. CASE u # t
    <3>1. call'[u] = call[u] /\ ~db2[call[u].h].connected
      BY <1>2, <2>2 DEF Others, Orphanless
    <3>2. call[u].op \in CloseOps /\ Claims(u) /\ call[u].op \in Aggregates
      BY <1>2, <3>1, GoodFacts DEF PlaceOK, Claims, Named, CloseOps, ConnectOps, Aggregates
    <3>3. Owns(u) /\ call[u].h \in Slots
      BY <3>2, Inside
    <3>4. Claims(t) => call[t].c # call[u].h
      BY <2>2, <3>3 DEF LongInv, Alone
    <3> QED BY <3>1, <3>3, <3>4
  <2> QED BY <2>1, <2>2
<1>3. ASSUME NEW x \in HandleNums, Db2Alive(db2, x)'
      PROVE  x \in known' \/ \E u \in Threads : Keeps(u, x)'
  <2>1. CASE Stays(t, x)
    <3>1. x \in known' \/ \E u \in Threads \ {t} : Keeps(u, x)
      BY <2>1 DEF Stays, Orphanless
    <3>2. \A u \in Threads \ {t} : Keeps(u, x) => Keeps(u, x)'
      BY <2>1, KeepsUnmoved DEF Stays, Others
    <3> QED BY <3>1, <3>2
  <2> QED BY <1>3, <2>1
<1> QED BY <1>1, <1>2, <1>3 DEF Orphanless

\* A step after which DB2 has the handles it had before.
LEMMA SameHandles ==
  ASSUME LongInv, Orphanless, NEW t \in Threads, Others(t),
         call'[t].at = "idle" => call'[t] = NoCall,
         call'[t].at # "byelock",
         \/ db2' = db2
         \/ Claims(t) /\ db2' = Db2Connect(db2, call[t].c),
         \A x \in HandleNums :
           /\ x \in known => x \in known' \/ Keeps(t, x)'
           /\ Db2Alive(db2, x) /\ Keeps(t, x) =>
                x \in known' \/ Keeps(t, x)' \/ \E u \in Threads \ {t} : Keeps(u, x)
  PROVE  Orphanless'
<1>1. /\ \A x \in Slots : Db2Alive(db2, x)' <=> Db2Alive(db2, x)
      /\ \A x \in Slots : db2'[x].parent = db2[x].parent
      /\ \A x \in Slots : db2'[x].connected =>
           db2[x].connected \/ (Claims(t) /\ x = call[t].c)
  <2>1. CASE db2' = db2
    BY <2>1 DEF Db2Alive
  <2>2. CASE Claims(t) /\ db2' = Db2Connect(db2, call[t].c)
    BY <2>2, GoodFacts, Db2ConnectFacts DEF Db2Alive, LongInv, TypeOK
  <2> QED BY <2>1, <2>2
<1>2. ASSUME NEW x \in HandleNums, Db2Alive(db2, x)'
      PROVE  x \in known' \/ Keeps(t, x)' \/ Stays(t, x)
  BY <1>1, <1>2, SlotTypes DEF Stays
<1> QED BY <1>1, <1>2, OrphansKept

\* A call starts: what it takes from the clients it answers for.
LEMMA OrphansAtStart ==
  ASSUME LongInv, Orphanless, NEW t \in Threads, Others(t), call[t].at = "idle", db2' = db2,
         call'[t].at \in Starting,
         \A x \in HandleNums : x \in known => x \in known' \/ Keeps(t, x)'
  PROVE  Orphanless'
<1>1. call[t] = NoCall
  BY DEF Orphanless
<1>2. \A x : ~Keeps(t, x)
  BY <1>1 DEF Keeps, NoCall, Started, Drops, New, Named, Claims
<1> QED BY <1>2, SameHandles DEF Starting

LEMMA BeginOrphans ==
  ASSUME CarefulClients, LongInv, Orphanless, NEW t \in Threads, BeginCall(t) \/ BeginLong(t)
  PROVE  Orphanless'
<1>1. TypeOK
  BY DEF LongInv
<1>2. CASE BeginAllocConnect(t)
  <2>1. PICK h : Begin(t, "AllocConnect", h, "glock") /\ known' = known
    BY <1>2 DEF BeginAllocConnect
  <2> QED BY <1>1, <2>1, BeginFacts, OrphansAtStart DEF Starting
<1>3. ASSUME NEW h \in HandleNums, NEW op, NEW label \in Starting, Begin(t, op, h, label),
             known' = known
      PROVE  Orphanless'
  BY <1>1, <1>3, BeginFacts, OrphansAtStart
<1>4. ASSUME NEW h \in HandleNums, Begin(t, "FreeStmtDrop", h, "glock"), known' = known \ {h}
      PROVE  Orphanless'
  <2>1. Drops(t)' /\ call'[t].h = h
    BY <1>1, <1>4, BeginFacts DEF Drops
  <2>2. Keeps(t, h)'
    BY <2>1 DEF Keeps
  <2> QED BY <1>1, <1>4, <2>2, BeginFacts, OrphansAtStart DEF Starting
<1>5. ASSUME NEW h \in HandleNums, NEW op \in ReleaseOps, BeginRelease(t, op, h)
      PROVE  Orphanless'
  <2>1. Begin(t, op, h, "check") /\ db2[h].kind = "dbc" /\ known' = known \ GivenBack(h)
    BY <1>5 DEF BeginRelease
  <2>2. /\ Others(t) /\ call[t].at = "idle" /\ db2' = db2
        /\ call'[t].at = "check" /\ call'[t].op = op /\ call'[t].h = h
    BY <1>1, <2>1, BeginFacts
  <2>3. Claims(t)'
    BY <2>2 DEF Claims, Named, ReleaseOps, ConnectOps, CloseOps
  <2>4. ASSUME NEW x \in HandleNums, x \in known, x \notin known' PROVE Keeps(t, x)'
    <3>1. db2'[x].parent = call'[t].h
      BY <2>1, <2>2, <2>4 DEF GivenBack
    <3> QED BY <2>2, <2>3, <3>1 DEF Keeps
  <2> QED BY <2>2, <2>4, OrphansAtStart DEF Starting
<1>6. ASSUME NEW op \in CloseOps, NEW h \in HandleNums, BeginClose(t, op, h) PROVE Orphanless'
  <2>1. /\ Others(t) /\ call[t].at = "idle" /\ db2' = db2 /\ known' = known \ GivenBack(h)
        /\ call'[t].at = "want" /\ call'[t].op = op /\ call'[t].h = h
        /\ db2[h].kind = "dbc"
    BY <1>1, <1>6 DEF BeginClose, Started, Others, TypeOK
  <2>2. Claims(t)'
    BY <2>1 DEF Claims, Named, ConnectOps, CloseOps
  <2>3. ASSUME NEW x \in HandleNums, x \in known, x \notin known' PROVE Keeps(t, x)'
    <3>1. db2'[x].parent = call'[t].h
      BY <2>1, <2>3 DEF GivenBack
    <3> QED BY <2>1, <2>2, <3>1 DEF Keeps
  <2> QED BY <2>1, <2>3, OrphansAtStart DEF Starting
<1>7. ASSUME NEW op, NEW key, BeginConnectBoth(t, op, key) PROVE Orphanless'
  <2>1. /\ Others(t) /\ call[t].at = "idle" /\ db2' = db2 /\ known' = known
        /\ call'[t].at \in {"lookup", "glock"}
    BY <1>1, <1>7 DEF BeginConnectBoth, Started, Others, TypeOK
  <2> QED BY <2>1, OrphansAtStart DEF Starting
<1>8. ASSUME NEW h \in HandleNums,
             \/ BeginAllocStmt(t, h) \/ BeginStmtCall(t, h) \/ BeginConnCall(t, h)
             \/ BeginConnect(t, h) \/ BeginEndTran(t, h)
      PROVE  Orphanless'
  BY <1>3, <1>8 DEF BeginAllocStmt, BeginStmtCall, BeginConnCall, BeginConnect, BeginEndTran,
       Starting
<1>9. ASSUME NEW h \in HandleNums,
             BeginFreeStmt(t, h) \/ BeginDisconnect(t, h) \/ BeginFreeConnect(t, h)
      PROVE  Orphanless'
  BY <1>3, <1>4, <1>5, <1>9 DEF BeginFreeStmt, BeginDisconnect, BeginFreeConnect, ReleaseOps,
       Starting
<1>10. CASE BeginCall(t)
  BY <1>2, <1>8, <1>9, <1>10 DEF BeginCall
<1>11. CASE BeginLong(t)
  BY <1>6, <1>7, <1>11 DEF BeginLong
<1> QED BY <1>10, <1>11

\* What a return hands the client: the handles the call answered for.
LEMMA OrphansAtReturn ==
  ASSUME LongInv, Orphanless, NEW t \in Threads, NEW back, Return(t, back),
         \/ db2' = db2
         \/ Claims(t) /\ db2' = Db2Connect(db2, call[t].c),
         \A x \in HandleNums : Db2Alive(db2, x) /\ Keeps(t, x) =>
           x \in back \/ \E u \in Threads \ {t} : Keeps(u, x)
  PROVE  Orphanless'
BY ReturnAll, SameHandles

LEMMA LockedCallOrphans ==
  ASSUME LongInv, Orphanless, NEW t \in Threads,
         \/ TableLock(t) \/ LockedCallReturns(t) \/ ConnectReturns(t) \/ BareCallReturns(t)
  PROVE  Orphanless'
<1>1. CASE TableLock(t)
  <2>1. call[t].at = "want" /\ db2' = db2 /\ known' = known /\ Goto(t, "db2")
    BY <1>1 DEF TableLock
  <2>2. /\ Others(t) /\ call'[t].at = "db2"
        /\ call'[t].op = call[t].op /\ call'[t].h = call[t].h /\ call'[t].o = call[t].o
    BY <2>1, GotoAll
  <2>3. ASSUME NEW x, Keeps(t, x) PROVE Keeps(t, x)'
    BY <2>1, <2>2, <2>3 DEF Keeps, Drops, New, Named, Claims
  <2> QED BY <2>1, <2>2, <2>3, SameHandles
<1>2. CASE LockedCallReturns(t) \/ ConnectReturns(t) \/ BareCallReturns(t)
  <2>1. /\ call[t].at \in {"db2", "bare"} /\ Return(t, {})
        /\ call[t].op \in {"StmtCall", "ConnCall", "Connect", "EndTran"}
        /\ db2' = db2 \/ (call[t].op = "Connect" /\ db2' = Db2Connect(db2, call[t].h))
    BY <1>2 DEF LockedCallReturns, ConnectReturns, BareCallReturns
  <2>2. \A x : ~Keeps(t, x)
    BY <2>1 DEF Keeps, Drops, New, ConnectOps, CloseOps, ReleaseOps
  <2>3. call[t].op = "Connect" => Claims(t) /\ call[t].h = call[t].c
    <3> SUFFICES ASSUME call[t].op = "Connect" PROVE Claims(t) /\ call[t].h = call[t].c
      OBVIOUS
    <3>1. Claims(t)
      BY <2>1 DEF Claims, Named, ConnectOps, CloseOps
    <3> QED BY <3>1, ClaimFacts DEF OfStmt
  <2> QED BY <2>1, <2>2, <2>3, OrphansAtReturn
<1> QED BY <1>1, <1>2

\* A disconnect of a connection without statements is granted.
LEMMA DisconnectOrphans ==
  ASSUME LongInv, Orphanless, NEW t \in Threads, DisconnectReturns(t), ~Faults, Tidy
  PROVE  Orphanless'
<1> DEFINE h == call[t].h
<1>1. /\ call[t].at = "db2" /\ call[t].op = "Disconnect"
      /\ db2' = Db2Disconnect(db2, h) /\ Return(t, {h})
  BY DEF DisconnectReturns
<1>2. Db2Stmts(db2, h) = {}
  BY <1>1 DEF Tidy
<1>3. Claims(t) /\ ~Left(t, h)
  BY <1>1 DEF Claims, Named, Left, ConnectOps, CloseOps
<1>4. h = call[t].c /\ h \in Slots /\ Db2Alive(db2, h) /\ db2[h].parent = h
  BY <1>1, <1>3, ClaimFacts DEF OfStmt
<1>5. db2[h].kind = "dbc"
  BY <1>4, TreeFacts DEF LongInv
<1>6. db2' = [db2 EXCEPT ![h].connected = FALSE]
  BY <1>1, <1>2, <1>4 DEF Db2Disconnect, LongInv, TypeOK
<1>7. \A x \in Slots : /\ db2'[x].kind = db2[x].kind /\ db2'[x].parent = db2[x].parent
                       /\ db2'[x].connected => db2[x].connected
  BY <1>6 DEF LongInv, TypeOK, Db2Handle
<1>8. ASSUME NEW x \in HandleNums, Db2Alive(db2, x), Keeps(t, x) PROVE x = h
  <2>1. x \in Slots
    BY SlotTypes
  <2>2. x = h \/ db2[x].parent = h
    BY <1>1, <1>8 DEF Keeps, Drops, New, ConnectOps, CloseOps, ReleaseOps
  <2>3. x \notin Db2Stmts(db2, h)
    BY <1>2
  <2> QED BY <1>8, <2>1, <2>2, <2>3, TreeFacts DEF Db2Stmts, LongInv
<1>9. /\ Others(t) /\ call'[t] = NoCall /\ call'[t].at = "idle"
      /\ known' = known \cup {h}
  BY <1>1, ReturnAll
<1>10. ASSUME NEW x \in HandleNums, Db2Alive(db2, x)'
       PROVE  x \in known' \/ Stays(t, x)
  <2>1. Db2Alive(db2, x) /\ db2'[x].parent = db2[x].parent
    BY <1>7, <1>10, SlotTypes DEF Db2Alive
  <2> QED BY <1>8, <1>9, <2>1 DEF Stays
<1> QED BY <1>7, <1>9, <1>10, OrphansKept

\* SQLDisconnect or SQLFreeConnect finds a key and gives the connection back, but for
\* the statements other threads are dropping: those answer for them.
LEMMA CheckOrphans ==
  ASSUME LongInv, Orphanless, NEW t \in Threads, CheckPersistent(t)
  PROVE  Orphanless'
<1> DEFINE h == call[t].h
<1>1. call[t].at = "check" /\ call[t].op \in ReleaseOps /\ db2' = db2
  BY DEF CheckPersistent, ReleaseOps
<1>2. CASE Return(t, KeptUnder(h))
  <2>1. ASSUME NEW x \in HandleNums, Db2Alive(db2, x), Keeps(t, x), x \notin KeptUnder(h)
        PROVE  \E u \in Threads \ {t} : Keeps(u, x)
    <3>1. x = h \/ db2[x].parent = h
      BY <1>1, <2>1 DEF Keeps, Drops, New, ConnectOps, CloseOps, ReleaseOps
    <3>2. x # h /\ x \in Slots
      BY <2>1, SlotTypes DEF KeptUnder
    <3>3. x \in Db2Stmts(db2, h)
      BY <2>1, <3>1, <3>2, TreeFacts DEF Db2Stmts, LongInv
    <3>4. PICK u \in Threads : call[u].op = "FreeStmtDrop" /\ call[u].h = x
      BY <2>1, <3>3 DEF KeptUnder
    <3>5. u # t /\ call[u].at # "idle"
      BY <1>1, <3>4 DEF ReleaseOps, Orphanless, NoCall, Started
    <3> QED BY <3>4, <3>5 DEF Keeps, Drops
  <2> QED BY <1>1, <1>2, <2>1, OrphansAtReturn
<1>3. CASE /\ Goto(t, IF call[t].op = "Disconnect" THEN "want" ELSE "glock")
           /\ UNCHANGED known
  <2>1. /\ Others(t) /\ call'[t].at \in {"want", "glock"}
        /\ call'[t].op = call[t].op /\ call'[t].h = call[t].h /\ call'[t].o = call[t].o
    BY <1>3, GotoAll
  <2>2. ASSUME NEW x, Keeps(t, x) PROVE Keeps(t, x)'
    BY <1>1, <2>1, <2>2 DEF Keeps, Drops, New, Named, Claims, ConnectOps, CloseOps, ReleaseOps
  <2> QED BY <1>1, <1>3, <2>1, <2>2, SameHandles
<1> QED BY <1>2, <1>3 DEF CheckPersistent

LEMMA AllocOrphans ==
  ASSUME LongInv, Orphanless, NEW t \in Threads, AllocInDb2(t) \/ AllocInTable(t)
  PROVE  Orphanless'
<1>1. CASE AllocInDb2(t)
  <2>1. call[t].at = "glock" /\ call[t].op \in AllocOps
    BY <1>1 DEF AllocInDb2, AllocOps
  <2>2. \A x : ~Keeps(t, x)
    BY <2>1 DEF Keeps, Drops, New, AllocOps, ConnectOps, CloseOps, ReleaseOps
  <2>3. CASE Return(t, {}) /\ db2' = db2
    BY <2>2, <2>3, OrphansAtReturn
  <2>4. ASSUME NEW o \in HandleNums, ~Db2Alive(db2, o),
               db2' = Db2NewDbc(db2, o) \/ db2' = Db2NewStmt(db2, o, call[t].h),
               call' = [call EXCEPT ![t] = WithNew(call[t], o)], known' = known
        PROVE  Orphanless'
    <3>1. Others(t) /\ call'[t].at = "table" /\ call'[t].op = call[t].op /\ call'[t].o = o
      BY <2>4, WithNewFacts DEF LongInv
    <3>2. \A x \in Slots : /\ x # o => db2'[x] = db2[x]
                           /\ ~db2'[o].connected
      BY <2>4, SlotTypes DEF LongInv, TypeOK, Db2NewDbc, Db2NewStmt
    <3>3. Keeps(t, o)'
      BY <2>1, <3>1 DEF Keeps, New
    <3>4. ASSUME NEW x \in HandleNums, Db2Alive(db2, x)'
          PROVE  x \in known' \/ Keeps(t, x)' \/ Stays(t, x)
      BY <2>2, <2>4, <3>2, <3>3, <3>4, SlotTypes DEF Stays, Db2Alive
    <3> QED BY <2>4, <3>1, <3>2, <3>4, OrphansKept
  <2> QED BY <1>1, <2>3, <2>4 DEF AllocInDb2
<1>2. CASE AllocInTable(t)
  <2>1. /\ call[t].at = "table" /\ call[t].op \in AllocOps /\ db2' = db2
        /\ Return(t, {call[t].o})
    BY <1>2 DEF AllocInTable, AllocOps
  <2>2. \A x : Keeps(t, x) => x = call[t].o
    BY <2>1 DEF Keeps, Drops, New, AllocOps, ConnectOps, CloseOps, ReleaseOps
  <2> QED BY <2>1, <2>2, OrphansAtReturn
<1> QED BY <1>1, <1>2

\* A step that ends one handle x, the only one the call answered for that it does not
\* answer for any more.
LEMMA OrphansAtEnd ==
  ASSUME LongInv, Orphanless, NEW t \in Threads, Others(t), known' = known,
         call'[t].at \notin {"idle", "byelock"},
         NEW x \in Slots, db2'[x] = Db2Free, \A y \in Slots : y # x => db2'[y] = db2[y],
         \A y \in HandleNums : Db2Alive(db2, y) /\ y # x /\ Keeps(t, y) => Keeps(t, y)'
  PROVE  Orphanless'
<1>1. /\ ~Db2Alive(db2, x)'
      /\ \A y \in Slots : db2'[y].connected => db2[y].connected
  BY DEF Db2Alive, Db2Free
<1>2. ASSUME NEW y \in HandleNums, Db2Alive(db2, y)'
      PROVE  y \in known' \/ Keeps(t, y)' \/ Stays(t, y)
  <2>1. y # x /\ y \in Slots /\ db2'[y] = db2[y]
    BY <1>1, <1>2, SlotTypes
  <2> QED BY <1>2, <2>1 DEF Stays, Db2Alive
<1> QED BY <1>1, <1>2, OrphansKept

LEMMA FreeOrphans ==
  ASSUME LongInv, Orphanless, NEW t \in Threads, FreeInDb2(t) \/ FreeInTable(t)
  PROVE  Orphanless'
<1> DEFINE h == call[t].h
<1>1. /\ PlaceOK(t) /\ StateIsGood(t) /\ h \in Slots
  BY GoodFacts
<1>2. CASE FreeInDb2(t)
  <2>1. /\ call[t].at = "glock" /\ glock = NoThread /\ known' = known /\ Goto(t, "table")
        /\ call[t].op \in {"FreeStmtDrop", "FreeConnect"}
        /\ call[t].op = "FreeStmtDrop" => db2' = Db2FreeStmt(db2, h)
        /\ call[t].op = "FreeConnect" => db2' = Db2FreeDbc(db2, h)
    BY <1>1, <1>2 DEF FreeInDb2, PlaceOK, LockOps, AllocOps, ConnectOps, CloseOps, Aggregates
  <2>2. Claims(t) /\ Named(t)
    BY <2>1 DEF Claims, Named, ConnectOps, CloseOps
  <2>3. /\ Db2Alive(db2, h) /\ db2[h].parent = call[t].c
        /\ call[t].op = "FreeStmtDrop" <=> h # call[t].c
    BY <2>1, <2>2, FreeLock, ClaimFacts DEF OfStmt
  <2>4. /\ call[t].op = "FreeStmtDrop" => db2[h].kind = "stmt"
        /\ call[t].op = "FreeConnect" => db2[h].kind = "dbc" /\ ~db2[h].connected
    BY <1>1, <2>1, <2>2, <2>3, TreeFacts DEF StateIsGood, LongInv
  <2>5. db2' = [db2 EXCEPT ![h] = Db2Free]
    BY <2>1, <2>4 DEF Db2FreeStmt, Db2FreeDbc
  <2>6. db2'[h] = Db2Free /\ \A y \in Slots : y # h => db2'[y] = db2[y]
    BY <1>1, <2>5 DEF LongInv, TypeOK
  <2>7. Others(t) /\ call'[t].at = "table"
    BY <2>1, GotoAll
  <2>8. ASSUME NEW y \in HandleNums, Db2Alive(db2, y), y # h PROVE ~Keeps(t, y)
    <3>1. db2[y].parent = h => db2[h].connected /\ h = call[t].c
      BY <2>3, <2>8, SlotTypes, TreeFacts DEF LongInv
    <3>2. db2[y].parent # h \/ call[t].op = "FreeStmtDrop"
      BY <2>1, <2>4, <3>1
    <3> QED BY <2>1, <2>8, <3>2 DEF Keeps, New, ConnectOps, CloseOps, ReleaseOps
  <2> QED BY <1>1, <2>1, <2>6, <2>7, <2>8, OrphansAtEnd
<1>3. CASE FreeInTable(t)
  <2>1. /\ call[t].at = "table" /\ Return(t, {}) /\ db2' = db2
        /\ call[t].op \in {"FreeStmtDrop", "FreeConnect"}
    BY <1>1, <1>3 DEF FreeInTable, PlaceOK, LockOps, AllocOps, ConnectOps, CloseOps, Aggregates
  <2>2. Left(t, h)
    BY <2>1 DEF Left
  <2>3. ~Db2Alive(db2, h)
    BY <2>2, LeftFacts
  <2>4. \A x : Keeps(t, x) => x = h
    BY <2>1 DEF Keeps, Drops, New, AllocOps, ConnectOps, CloseOps, ReleaseOps
  <2> QED BY <2>1, <2>3, <2>4, OrphansAtReturn
<1> QED BY <1>2, <1>3

\* A connect: it hands out the connection it made, whatever came of it, and answers
\* for the statement of the library list until that is freed.
LEMMA ConnectOrphans ==
  ASSUME LongInv, Orphanless, NEW t \in Threads,
         \/ Lookup(t) \/ ConnectAllocs(t) \/ ConnectCtor(t) \/ ConnectInDb2(t)
         \/ ConnectAddHash(t) \/ ConnectSetup(t) \/ ConnectCmdCtor(t) \/ ConnectCmd(t)
  PROVE  Orphanless'
<1>0. PlaceOK(t) /\ call[t].h \in Slots
  BY GoodFacts
<1>1. CASE Lookup(t)
  <2>1. call[t].at = "lookup" /\ call[t].op = "SQL400pConnect" /\ db2' = db2
    BY <1>0, <1>1 DEF Lookup, PlaceOK
  <2>2. \A x : ~Keeps(t, x)
    BY <2>1 DEF Keeps, Drops, New, Named, Claims, ConnectOps, CloseOps, ReleaseOps
  <2>3. CASE Goto(t, "glock") /\ known' = known
    BY <2>1, <2>2, <2>3, GotoAll, SameHandles
  <2>4. ASSUME NEW back, Return(t, back) PROVE Orphanless'
    BY <2>1, <2>2, <2>4, OrphansAtReturn
  <2> QED BY <1>1, <2>3, <2>4 DEF Lookup
<1>2. CASE ConnectAllocs(t)
  <2>1. call[t].at = "glock" /\ call[t].op \in ConnectOps
    BY <1>2 DEF ConnectAllocs
  <2>2. \A x : ~Keeps(t, x)
    BY <2>1 DEF Keeps, Drops, New, Named, Claims, ConnectOps, CloseOps, ReleaseOps
  <2>3. CASE Return(t, {}) /\ db2' = db2
    BY <2>2, <2>3, OrphansAtReturn
  <2>4. ASSUME NEW o \in HandleNums, ~Db2Alive(db2, o), db2' = Db2NewDbc(db2, o),
               call' = [call EXCEPT ![t].at = "table", ![t].h = o, ![t].c = o, ![t].m = o],
               known' = known
        PROVE  Orphanless'
    <3>1. Others(t) /\ call'[t].at = "table" /\ call'[t].op = call[t].op /\ call'[t].h = o
      BY <2>4 DEF LongInv, TypeOK, Call, Others
    <3>2. \A x \in Slots : /\ x # o => db2'[x] = db2[x]
                           /\ ~db2'[o].connected
      BY <2>4, SlotTypes DEF LongInv, TypeOK, Db2NewDbc
    <3>3. Keeps(t, o)'
      BY <2>1, <3>1 DEF Keeps, New
    <3>4. ASSUME NEW x \in HandleNums, Db2Alive(db2, x)'
          PROVE  x \in known' \/ Keeps(t, x)' \/ Stays(t, x)
      BY <2>2, <2>4, <3>2, <3>3, <3>4, SlotTypes DEF Stays, Db2Alive
    <3> QED BY <2>4, <3>1, <3>2, <3>4, OrphansKept
  <2> QED BY <1>2, <2>3, <2>4 DEF ConnectAllocs
<1>3. ASSUME NEW label \in {"want", "addhash", "setup", "cmd", "free"}, Goto(t, label),
             call[t].op \in ConnectOps, known' = known,
             call[t].at \in {"table", "db2", "addhash", "setup", "cmdtable", "cmd"},
             call[t].at \in {"cmdtable", "cmd"} <=> label \in {"cmd", "free"},
             db2' = db2 \/ (call[t].at = "db2" /\ db2' = Db2Connect(db2, call[t].h))
      PROVE  Orphanless'
  <2>1. /\ Others(t) /\ call'[t].at = label
        /\ call'[t].op = call[t].op /\ call'[t].h = call[t].h /\ call'[t].o = call[t].o
    BY <1>3, GotoAll
  <2>2. ASSUME NEW x, Keeps(t, x) PROVE Keeps(t, x)'
    <3>1. CASE x = call[t].h
      BY <1>3, <2>1, <3>1 DEF Keeps, Named, ConnectOps
    <3>2. CASE x # call[t].h
      <4>1. x = call[t].o /\ call[t].at \in {"cmdtable", "cmd"}
        BY <1>3, <2>2, <3>2 DEF Keeps, Drops, New, AllocOps, ConnectOps, CloseOps, ReleaseOps
      <4> QED BY <1>3, <2>1, <4>1 DEF Keeps
    <3> QED BY <3>1, <3>2
  <2>3. Claims(t) /\ call[t].op \in Aggregates
    BY <1>3 DEF Claims, Named, ConnectOps, CloseOps, Aggregates
  <2>4. call[t].h = call[t].c
    BY <2>3, Inside
  <2> QED BY <1>3, <2>1, <2>2, <2>3, <2>4, SameHandles
<1>4. CASE ConnectCtor(t) \/ ConnectAddHash(t) \/ ConnectCmdCtor(t) \/ ConnectCmd(t)
  BY <1>0, <1>3, <1>4 DEF ConnectCtor, ConnectAddHash, ConnectCmdCtor, ConnectCmd, PlaceOK,
     ConnectOps
<1>5. ASSUME Return(t, {call[t].h}), db2' = db2, call[t].op \in ConnectOps,
             call[t].at \in {"db2", "setup"}
      PROVE  Orphanless'
  <2>1. \A x : Keeps(t, x) => x = call[t].h
    BY <1>5 DEF Keeps, Drops, New, ConnectOps, CloseOps, ReleaseOps
  <2> QED BY <1>5, <2>1, OrphansAtReturn
<1>6. CASE ConnectInDb2(t)
  <2>1. call[t].at = "db2" /\ call[t].op \in ConnectOps
    BY <1>6 DEF ConnectInDb2
  <2>2. CASE /\ db2' = Db2Connect(db2, call[t].h) /\ known' = known
             /\ Goto(t, IF call[t].op = "SQL400pConnect" THEN "addhash" ELSE "setup")
    BY <1>3, <2>1, <2>2
  <2>3. CASE Return(t, {call[t].h}) /\ db2' = db2
    BY <1>5, <2>1, <2>3
  <2> QED BY <1>6, <2>2, <2>3 DEF ConnectInDb2
<1>7. CASE ConnectSetup(t)
  <2>1. call[t].at = "setup" /\ call[t].op \in ConnectOps
    BY <1>0, <1>7 DEF ConnectSetup, PlaceOK
  <2>2. CASE Return(t, {call[t].h}) /\ db2' = db2
    BY <1>5, <2>1, <2>2
  <2>3. ASSUME NEW o \in HandleNums, ~Db2Alive(db2, o), db2' = Db2NewStmt(db2, o, call[t].h),
               call' = [call EXCEPT ![t].at = "cmdtable", ![t].o = o], known' = known
        PROVE  Orphanless'
    <3>1. /\ Others(t) /\ call'[t].at = "cmdtable" /\ call'[t].op = call[t].op
          /\ call'[t].h = call[t].h /\ call'[t].o = o
      BY <2>3 DEF LongInv, TypeOK, Call, Others
    <3>2. \A x \in Slots : /\ x # o => db2'[x] = db2[x]
                           /\ ~db2'[o].connected
      BY <2>3, SlotTypes DEF LongInv, TypeOK, Db2NewStmt
    <3>3. Keeps(t, o)' /\ \A x : x = call[t].h => Keeps(t, x)'
      BY <2>1, <3>1 DEF Keeps, New, Named, ConnectOps
    <3>4. \A x : Keeps(t, x) => x = call[t].h
      BY <2>1 DEF Keeps, Drops, New, ConnectOps, CloseOps, ReleaseOps
    <3>5. ASSUME NEW x \in HandleNums, Db2Alive(db2, x)'
          PROVE  x \in known' \/ Keeps(t, x)' \/ Stays(t, x)
      BY <2>3, <3>2, <3>3, <3>4, <3>5, SlotTypes DEF Stays, Db2Alive
    <3> QED BY <2>3, <3>1, <3>2, <3>5, OrphansKept
  <2> QED BY <1>7, <2>2, <2>3 DEF ConnectSetup
<1> QED BY <1>1, <1>2, <1>4, <1>6, <1>7

\* init_table_find_stmt finds nothing: the connection has no statement left, in the
\* table or with DB2.
LEMMA NoneLeft ==
  ASSUME LongInv, NEW t \in Threads, call[t].at = "stmts", FindStmt(table, call[t].h) = 0,
         NEW x \in HandleNums, Db2Alive(db2, x), db2[x].parent = call[t].h
  PROVE  x = call[t].h
<1> DEFINE h == call[t].h
<1>1. Claims(t) /\ call[t].op \in CloseOps /\ call[t].op \in Aggregates
  BY GoodFacts DEF PlaceOK, Claims, Named, CloseOps, ConnectOps, Aggregates
<1>2. Owns(t) /\ h = call[t].c /\ h \in Slots /\ Usable(h)
  BY <1>1, Inside
<1> SUFFICES ASSUME x # h PROVE FALSE
  OBVIOUS
<1>3. x \in Slots /\ table[h].hstmt # 0
  BY <1>2, SlotTypes DEF Usable
<1>4. ASSUME NEW v \in Threads, New(v, x) PROVE FALSE
  <2>1. Claims(v) /\ call[v].h = h
    BY <1>4, NewFacts
  <2>2. call[v].at \in {"table", "cmdtable"}
    BY <1>4 DEF New
  <2>3. v # t
    BY <2>2
  <2>4. ~Uses(v, h)
    BY <1>2, <2>3, OwnsAlone
  <2> QED BY <2>1, <2>4 DEF Uses
<1>5. table[x].hstmt # 0
  BY <1>3, <1>4 DEF LongInv, Filing, SlotOK
<1>6. table[x].hstmt = x /\ table[x].hdbc = h
  BY <1>3, <1>5, FiledFacts
<1>7. x \in StmtsOf(table, h)
  BY <1>3, <1>6, SlotTypes, TableAssumption DEF StmtsOf, HandleNums
<1>8. FindStmt(table, h) \in StmtsOf(table, h)
  BY <1>7, FindStmtLeast DEF LongInv, TypeOK
<1>9. 0 \in Slots /\ table[0].hstmt # 0
  BY <1>8, SlotTypes DEF StmtsOf
<1>10. 0 \in HandleNums
  BY <1>9, FiledFacts
<1> QED BY <1>10, TableAssumption DEF HandleNums

\* A close that goes on answers for its connection and, until it has seen that there
\* are none, for the statements of it.
LEMMA CloseOrphans ==
  ASSUME LongInv, Orphanless, NEW t \in Threads,
         CloseChecks(t) \/ CloseFindStmt(t) \/ CloseDtor(t)
  PROVE  Orphanless'
<1> DEFINE h == call[t].h
<1>0. PlaceOK(t) /\ h \in Slots
  BY GoodFacts
<1>1. /\ call[t].op \in CloseOps /\ call[t].at \in {"db2", "stmts", "dtor"}
      /\ db2' = db2 /\ known' = known
  BY <1>0 DEF CloseChecks, CloseFindStmt, CloseDtor, PlaceOK
<1>2. \A x : Keeps(t, x) => x = h \/ (db2[x].parent = h /\ call[t].at # "dtor")
  BY <1>1 DEF Keeps, Drops, New, AllocOps, ConnectOps, CloseOps, ReleaseOps
<1>3. ASSUME Others(t), call'[t].op = call[t].op, call'[t].h = h,
             call'[t].at \in {"stmts", "free", "dtor", "bye", "unlock"},
             call'[t].at = "unlock" => call'[t].active,
             \A x \in HandleNums :
               /\ Db2Alive(db2, x) /\ db2[x].parent = h
               /\ call[t].at # "dtor" /\ call'[t].at \notin {"stmts", "free"}
               => x = h
      PROVE  Orphanless'
  <2>1. Claims(t)'
    BY <1>1, <1>3 DEF Claims, Named, ConnectOps, CloseOps
  <2>2. \A x : \/ x = h
               \/ call'[t].at \in {"stmts", "free"} /\ db2[x].parent = h
               => Keeps(t, x)'
    BY <1>1, <1>3, <2>1 DEF Keeps
  <2>3. ASSUME NEW x \in HandleNums, Db2Alive(db2, x), Keeps(t, x) PROVE Keeps(t, x)'
    BY <1>2, <1>3, <2>2, <2>3
  <2> QED BY <1>1, <1>3, <2>3, SameHandles
<1>4. CASE CloseChecks(t)
  <2>1. /\ Others(t) /\ call'[t].at = "stmts"
        /\ call'[t].op = call[t].op /\ call'[t].h = h
    BY <1>4 DEF CloseChecks, LongInv, TypeOK, Call, Others
  <2> QED BY <1>3, <2>1
<1>5. CASE CloseFindStmt(t)
  <2> DEFINE s == FindStmt(table, h)
  <2>1. /\ Others(t) /\ call[t].at = "stmts"
        /\ call'[t].op = call[t].op /\ call'[t].h = h /\ call'[t].active = call[t].active
        /\ call'[t].at = IF s # 0 THEN "free"
                         ELSE IF call[t].active THEN "unlock" ELSE "dtor"
    BY <1>5 DEF CloseFindStmt, LongInv, TypeOK, Call, Others
  <2>2. ASSUME NEW x \in HandleNums, Db2Alive(db2, x), db2[x].parent = h, s = 0
        PROVE  x = h
    BY <2>1, <2>2, NoneLeft
  <2> QED BY <1>3, <2>1, <2>2
<1>6. CASE CloseDtor(t)
  <2>1. /\ Others(t) /\ call[t].at = "dtor" /\ call'[t].at = "bye"
        /\ call'[t].op = call[t].op /\ call'[t].h = h
    BY <1>6, GotoAll DEF CloseDtor
  <2> QED BY <1>3, <2>1
<1> QED BY <1>4, <1>5, <1>6

\* The statement a close or a connect frees is gone from DB2, then from the table.
LEMMA FreeStmtOrphans ==
  ASSUME LongInv, Orphanless, NEW t \in Threads, FreeStmtInDb2(t) \/ FreeStmtInTable(t)
  PROVE  Orphanless'
<1> DEFINE h == call[t].h
           o == call[t].o
<1>1. call[t].at \in {"free", "freed"} /\ call[t].op \in Aggregates /\ known' = known
  BY GoodFacts DEF PlaceOK, FreeStmtInDb2, FreeStmtInTable
<1>2. /\ o \in HandleNums /\ o \in Slots
      /\ call[t].at = "free" => db2[o].kind = "stmt"
      /\ Claims(t)
  BY <1>1, OtherFacts
<1>3. \A x : Keeps(t, x) => \/ x = h
                            \/ x = o
                            \/ call[t].op \in CloseOps /\ db2[x].parent = h
  BY <1>1 DEF Keeps, Drops, New, Aggregates, AllocOps, ConnectOps, CloseOps, ReleaseOps
<1>4. ASSUME Others(t), call'[t].op = call[t].op, call'[t].h = h,
             call'[t].at \in {"freed", "unlock", "stmts"},
             call'[t].at = "unlock" <=> call[t].op \in ConnectOps /\ call[t].at = "freed"
      PROVE  \A x : \/ x = h
                    \/ call[t].op \in CloseOps /\ db2'[x].parent = h
                    => Keeps(t, x)'
  <2>1. call[t].op \in ConnectOps => Named(t)'
    BY <1>4 DEF Named, ConnectOps
  <2>2. call[t].op \in CloseOps => Claims(t)' /\ call'[t].at \in {"freed", "stmts"}
    BY <1>4 DEF Claims, Named, ConnectOps, CloseOps
  <2>3. call[t].op \in ConnectOps \/ call[t].op \in CloseOps
    BY <1>1 DEF Aggregates
  <2> QED BY <1>4, <2>1, <2>2, <2>3 DEF Keeps
<1>5. CASE FreeStmtInDb2(t)
  <2>1. call[t].at = "free" /\ Goto(t, "freed") /\ db2' = Db2FreeStmt(db2, o)
    BY <1>5 DEF FreeStmtInDb2
  <2>2. /\ Others(t) /\ call'[t].at = "freed" /\ call'[t].op = call[t].op /\ call'[t].h = h
    BY <2>1, GotoAll
  <2>3. db2'[o] = Db2Free /\ \A y \in Slots : y # o => db2'[y] = db2[y]
    BY <1>2, <2>1 DEF Db2FreeStmt, LongInv, TypeOK
  <2>4. ASSUME NEW y \in HandleNums, y # o, Keeps(t, y) PROVE Keeps(t, y)'
    BY ZenonT(60), <1>3, <1>4, <2>1, <2>2, <2>3, <2>4, SlotTypes
  <2> QED BY <1>1, <1>2, <2>2, <2>3, <2>4, OrphansAtEnd
<1>6. CASE FreeStmtInTable(t)
  <2>1. /\ call[t].at = "freed" /\ db2' = db2
        /\ Goto(t, IF call[t].op \in ConnectOps THEN "unlock" ELSE "stmts")
    BY <1>6 DEF FreeStmtInTable
  <2>2. /\ Others(t) /\ call'[t].op = call[t].op /\ call'[t].h = h
        /\ call'[t].at = IF call[t].op \in ConnectOps THEN "unlock" ELSE "stmts"
    BY <2>1, GotoAll
  <2>3. ~Db2Alive(db2, o)
    BY <2>1, LeftFacts DEF Left
  <2>4. ASSUME NEW y \in HandleNums, Db2Alive(db2, y), Keeps(t, y) PROVE Keeps(t, y)'
    BY <1>3, <1>4, <2>1, <2>2, <2>3, <2>4
  <2> QED BY <1>1, <2>1, <2>2, <2>4, SameHandles
<1> QED BY <1>5, <1>6

\* The slot is wiped, so neither SQLDisconnect nor SQLFreeConnect finds a key; the
\* disconnect is granted and takes what DB2 still had of the connection along.
LEMMA EndOrphans ==
  ASSUME LongInv, Orphanless, NEW t \in Threads, ~Faults,
         CloseDisconnect(t) \/ CloseFreeInDb2(t) \/ CloseFreeInTable(t)
  PROVE  Orphanless'
<1> DEFINE h == call[t].h
<1>1. /\ call[t].op \in CloseOps /\ call[t].op \in Aggregates /\ Claims(t)
      /\ call[t].at \in {"bye", "byelock", "byetable"} /\ known' = known
  BY GoodFacts DEF PlaceOK, CloseDisconnect, CloseFreeInDb2, CloseFreeInTable, Claims, Named,
     CloseOps, ConnectOps, Aggregates
<1>2. h \in Slots /\ h = call[t].c
  BY <1>1, Inside
<1>3. \A x : Keeps(t, x) => x = h /\ call[t].at # "byetable"
  BY <1>1 DEF Keeps, Drops, New, AllocOps, ConnectOps, CloseOps, ReleaseOps
<1>4. ~HashActive(table, h)
  BY <1>1, <1>2, ClaimFacts DEF HashActive, LongInv, Filing, SlotOK
<1>5. CASE CloseDisconnect(t)
  <2>1. call[t].at = "bye" /\ db2' = Db2Disconnect(db2, h) /\ Goto(t, "byelock")
    BY <1>4, <1>5 DEF CloseDisconnect
  <2>2. /\ Others(t) /\ call'[t].at = "byelock" /\ call'[t].op = call[t].op /\ call'[t].h = h
    BY <2>1, GotoAll
  <2>3. db2[h].kind = "dbc"
    BY <1>1, <2>1, Inside
  <2>4. /\ ~db2'[h].connected
        /\ \A x \in Slots : /\ db2'[x].connected => db2[x].connected
                            /\ Db2Alive(db2, x)' =>
                                 Db2Alive(db2, x) /\ db2'[x].parent = db2[x].parent
    BY <1>2, <2>1, <2>3 DEF Db2Disconnect, Db2Stmts, Db2Alive, Db2Free, LongInv, TypeOK, Db2Handle
  <2>5. \A x : x = h => Keeps(t, x)'
    BY <1>1, <2>2 DEF Keeps, Claims, Named, ConnectOps, CloseOps
  <2>6. ASSUME NEW x \in HandleNums, Db2Alive(db2, x)' PROVE Keeps(t, x)' \/ Stays(t, x)
    BY <1>1, <1>3, <2>4, <2>5, <2>6, SlotTypes DEF Stays
  <2> QED BY <2>2, <2>4, <2>6, OrphansKept
<1>6. CASE CloseFreeInDb2(t)
  <2>1. call[t].at = "byelock" /\ db2' = Db2FreeDbc(db2, h) /\ Goto(t, "byetable")
    BY <1>4, <1>6 DEF CloseFreeInDb2
  <2>2. Others(t) /\ call'[t].at = "byetable"
    BY <2>1, GotoAll
  <2>3. db2[h].kind = "dbc" /\ ~db2[h].connected
    BY <1>1, <2>1, Inside DEF Orphanless
  <2>4. db2'[h] = Db2Free /\ \A y \in Slots : y # h => db2'[y] = db2[y]
    BY <1>2, <2>1, <2>3 DEF Db2FreeDbc, LongInv, TypeOK
  <2> QED BY <1>1, <1>2, <1>3, <2>2, <2>4, OrphansAtEnd
<1>7. CASE CloseFreeInTable(t)
  <2>1. call[t].at = "byetable" /\ Goto(t, "unlock") /\ db2' = db2
    BY <1>7 DEF CloseFreeInTable
  <2>2. Others(t) /\ call'[t].at = "unlock"
    BY <2>1, GotoAll
  <2> QED BY <1>1, <1>3, <2>1, <2>2, SameHandles
<1> QED BY <1>5, <1>6, <1>7

\* A connect and a close that leaves the connection open hand it out; the others have
\* none left to answer for.
LEMMA UnlockOrphans ==
  ASSUME LongInv, Orphanless, NEW t \in Threads, UnlockReturns(t)
  PROVE  Orphanless'
<1> DEFINE back == IF call[t].op \in ConnectOps \/ call[t].active THEN {call[t].h} ELSE {}
<1>1. /\ call[t].at = "unlock" /\ call[t].op \in Aggregates /\ db2' = db2
      /\ Return(t, back)
  BY GoodFacts DEF PlaceOK, UnlockReturns
<1>2. \A x : Keeps(t, x) => x = call[t].h /\ (call[t].op \in ConnectOps \/ call[t].active)
  BY <1>1 DEF Keeps, Drops, New, Claims, Aggregates, AllocOps, ConnectOps, CloseOps, ReleaseOps
<1> QED BY <1>1, <1>2, OrphansAtReturn

LEMMA LongNextOrphans ==
  ASSUME CarefulClients, ~Faults, LongInv, Orphanless, [LongNext]_vars, [Tidy]_vars
  PROVE  Orphanless'
<1>1. CASE UNCHANGED vars
  BY <1>1, Unmoved DEF vars, Orphanless, Keeps, Db2Alive
<1>2. ASSUME NEW t \in Threads, CallStep(t), Tidy PROVE Orphanless'
  BY <1>2, LockedCallOrphans, DisconnectOrphans, CheckOrphans, AllocOrphans, FreeOrphans
     DEF CallStep
<1>3. ASSUME NEW t \in Threads, LongStep(t) PROVE Orphanless'
  BY <1>3, ConnectOrphans, CloseOrphans, FreeStmtOrphans, EndOrphans, UnlockOrphans DEF LongStep
<1>4. CASE LongNext /\ Tidy
  BY <1>1, <1>2, <1>3, <1>4, BeginOrphans DEF LongNext, Quiescent
<1> QED BY <1>1, <1>4

\* As long as DB2 refuses nothing, nothing is left over: however the threads' calls
\* interleave, every handle DB2 knows is a client's or the business of a call in
\* flight, so a close leaves neither a statement nor the connection behind and a
\* connect frees the statement of its library list.  The argument needs to know for
\* which handles each call answers at each of its labels (Keeps).
THEOREM NothingLeftOver ==
  ASSUME CarefulClients, ~Faults
  PROVE  LongSpec /\ TidyClients => []NothingOrphaned
<1>1. Init => Orphanless
  <2> SUFFICES ASSUME Init PROVE Orphanless
    OBVIOUS
  <2>1. \A t \in Threads : call[t] = NoCall /\ call[t].at = "idle"
    BY DEF Init, NoCall, Started
  <2>2. ASSUME NEW x \in HandleNums, Db2Alive(db2, x) PROVE x \in known
    <3>1. OpenedUnder(x) # {}
      BY <2>2, SlotTypes DEF Init, Db2Alive, Db2Free
    <3> QED BY <3>1 DEF Init, OpenedUnder
  <2> QED BY <2>1, <2>2 DEF Orphanless
<1>2. LongInv /\ Orphanless /\ [LongNext]_vars /\ [Tidy]_vars => Orphanless'
  BY LongNextOrphans
<1>3. LongInv /\ Orphanless => NothingOrphaned
  BY DEF Orphanless, NothingOrphaned, Keeps, Drops, New, Named, Claims
<1>4. LongSpec /\ TidyClients => []LongInv
  BY LongInvariant
<1> QED BY <1>1, <1>2, <1>3, <1>4, PTL DEF LongSpec, TidyClients

-----------------------------------------------------------------------------
(* The calls are visits: LongSpec implements Db2Sessions                     *)

\* What a visitor sees: the handles DB2 knows but for the statement of a library list,
\* and the connections that are connected and not still being set up.
Seen(x) == Db2Alive(db2, x) /\ \A t \in Threads : ~CommandOf(t, x)

Shown(h) ==
  db2[h].kind = "dbc" /\ db2[h].connected /\ \A t \in Threads : ~ConnectsBehind(t, h)

Works(t) == UnderLock(t) /\ ~Closed(t)

VisitStep == [Visits!Next]_Visits!sessions

\* The statement of a library list is nobody's but the connect's.
LEMMA CommandFacts ==
  ASSUME LongInv, NEW u \in Threads, NEW x, CommandOf(u, x)
  PROVE  /\ x \in HandleNums /\ x \in Slots /\ Commands(u) /\ Claims(u)
         /\ db2[x].kind = "stmt" /\ Db2Alive(db2, x)
         /\ db2[x].parent = call[u].h /\ x # call[u].h
         /\ call[u].h = call[u].c
         /\ x \notin known
         /\ \A v \in Threads \ {u} : ~Uses(v, x)
<1>1. call[u].at \in {"cmdtable", "cmd", "free"} /\ call[u].o = x /\ Commands(u)
  BY DEF CommandOf, Commands
<1>2. /\ x \in HandleNums /\ x \in Slots /\ Claims(u)
      /\ db2[x].kind = "stmt" /\ Db2Alive(db2, x)
      /\ db2[x].parent = call[u].h /\ x # call[u].h
      /\ call[u].h = call[u].c
      /\ call[u].at # "cmdtable" => table[x].hstmt # 0 /\ table[x].hdbc = call[u].h
  BY <1>1, OtherFacts
<1>3. Mine(u, x)
  BY <1>1, <1>2 DEF Mine
<1>4. \A v \in Threads \ {u} : ~Uses(v, x)
  BY <1>2, <1>3, Apart
<1>5. x \notin known
  BY <1>2, <1>3, MineUnknown
<1> QED BY <1>1, <1>2, <1>4, <1>5

LEMMA SeenFacts ==
  ASSUME LongInv
  PROVE  /\ 0 \notin HandleNums
         /\ \A x \in HandleNums :
              /\ Seen(x) => VisitOwner[x] = db2[x].parent
                            /\ db2[x].parent \in HandleNums /\ VisitOwner[x] # 0
              /\ ~Seen(x) => VisitOwner[x] = 0
              /\ db2[x].kind = "dbc" <=> Seen(x) /\ db2[x].parent = x
              /\ db2[x].kind = "dbc" <=> Visits!Connection(x)
         /\ Visits!Alive = {x \in HandleNums : Seen(x)}
<1>1. 0 \notin HandleNums
  BY TableAssumption DEF HandleNums
<1>2. ASSUME NEW x \in HandleNums
      PROVE  /\ Seen(x) => VisitOwner[x] = db2[x].parent
                            /\ db2[x].parent \in HandleNums /\ VisitOwner[x] # 0
             /\ ~Seen(x) => VisitOwner[x] = 0
             /\ db2[x].kind = "dbc" <=> Seen(x) /\ db2[x].parent = x
  <2>1. x \in Slots
    BY SlotTypes
  <2>2. Seen(x) => db2[x].parent \in HandleNums
    BY <2>1, TreeFacts DEF Seen, LongInv
  <2>3. /\ Seen(x) => VisitOwner[x] = db2[x].parent
        /\ ~Seen(x) => VisitOwner[x] = 0
    BY DEF VisitOwner, Seen
  <2>4. db2[x].kind = "dbc" => Seen(x)
    BY CommandFacts DEF Seen, Db2Alive
  <2>5. Seen(x) => (db2[x].kind = "dbc" <=> db2[x].parent = x)
    BY <2>1, TreeFacts DEF Seen, LongInv
  <2> QED BY <1>1, <2>2, <2>3, <2>4, <2>5
<1>3. Visits!Alive = {x \in HandleNums : Seen(x)}
  BY <1>1, <1>2 DEF Visits!Alive
<1>4. \A x \in HandleNums : db2[x].kind = "dbc" <=> Visits!Connection(x)
  BY <1>2, <1>3 DEF Visits!Connection
<1> QED BY <1>1, <1>2, <1>3, <1>4

\* What a thread relies on, unless it is a connect's own statement, is seen.
LEMMA UsesSeen ==
  ASSUME LongInv, NEW v \in Threads, NEW x, Uses(v, x), Db2Alive(db2, x), ~CommandOf(v, x)
  PROVE  Seen(x)
BY CommandFacts DEF Seen

LEMMA KnownSeen ==
  ASSUME LongInv, NEW x \in known
  PROVE  x \in HandleNums /\ Seen(x)
BY CommandFacts DEF Seen, LongInv, KnownGood, Usable

LEMMA WorksFacts ==
  ASSUME LongInv, NEW t \in Threads
  PROVE  /\ Works(t) => /\ VisitInside[t] = call[t].h
                        /\ Claims(t) /\ call[t].h \in HandleNums /\ call[t].h # 0
                        /\ Seen(call[t].h) /\ VisitOwner[call[t].h] = call[t].c
         /\ ~Works(t) => VisitInside[t] = 0
<1>1. CASE Works(t)
  <2>1. Named(t) /\ Claims(t) /\ call[t].at # "byetable"
    BY <1>1, OwnIndex DEF Works, Closed, Claims
  <2>2. call[t].at # "table"
    BY <1>1 DEF Works, UnderLock
  <2>3. ~Left(t, call[t].h)
    BY <2>2, OtherFacts DEF Left
  <2>4. /\ call[t].h \in HandleNums /\ Db2Alive(db2, call[t].h)
        /\ db2[call[t].h].parent = call[t].c
    BY <2>1, <2>3, ClaimFacts
  <2>5. ~CommandOf(t, call[t].h)
    BY CommandFacts
  <2>6. Seen(call[t].h)
    BY <2>1, <2>4, <2>5, UsesSeen DEF Uses
  <2>7. call[t].h # 0
    BY <2>4, SeenFacts
  <2> QED BY <1>1, <2>1, <2>4, <2>6, <2>7, SeenFacts DEF VisitInside, Works
<1>2. CASE ~Works(t)
  BY <1>2 DEF VisitInside, Works
<1> QED BY <1>1, <1>2

\* Nobody visits a connection that no thread claims.
LEMMA NobodyVisits ==
  ASSUME LongInv, NEW c \in HandleNums,
         \A u \in Threads : Works(u) => call[u].c # c
  PROVE  ~Visits!AtWork(c)
<1> SUFFICES ASSUME NEW u \in Threads, VisitInside[u] # 0, VisitOwner[VisitInside[u]] = c
             PROVE  FALSE
  BY DEF Visits!AtWork
<1>1. Works(u)
  BY WorksFacts
<1> QED BY <1>1, WorksFacts

\* What a visitor sees is as before.
SameView ==
  \A x \in HandleNums : /\ Seen(x)' <=> Seen(x)
                        /\ Seen(x) => db2'[x].parent = db2[x].parent
                        /\ Shown(x)' <=> Shown(x)

LEMMA ViewKept ==
  /\ (\A x \in HandleNums : /\ Seen(x)' <=> Seen(x)
                            /\ Seen(x) => db2'[x].parent = db2[x].parent)
     => VisitOwner' = VisitOwner
  /\ (\A x \in HandleNums : Shown(x)' <=> Shown(x)) => VisitConnected' = VisitConnected
<1>1. ASSUME \A x \in HandleNums : /\ Seen(x)' <=> Seen(x)
                                   /\ Seen(x) => db2'[x].parent = db2[x].parent
      PROVE  VisitOwner' = VisitOwner
  BY <1>1 DEF VisitOwner, Seen
<1>2. ASSUME \A x \in HandleNums : Shown(x)' <=> Shown(x)
      PROVE  VisitConnected' = VisitConnected
  BY <1>2 DEF VisitConnected, Shown
<1> QED BY <1>1, <1>2

LEMMA WorkMoves ==
  ASSUME NEW t \in Threads, Others(t)
  PROVE  /\ VisitInside' = [VisitInside EXCEPT ![t] = IF Works(t)' THEN call'[t].h ELSE 0]
         /\ ~Works(t) /\ ~Works(t)' => VisitInside' = VisitInside
         /\ Works(t) /\ Works(t)' /\ call'[t].h = call[t].h => VisitInside' = VisitInside
<1>1. ASSUME NEW u \in Threads \ {t}
      PROVE  (IF Works(u)' THEN call'[u].h ELSE 0) = VisitInside[u]
  BY <1>1 DEF Others, VisitInside, Works, UnderLock, Closed
<1>2. VisitInside[t] = IF Works(t) THEN call[t].h ELSE 0
  BY DEF VisitInside, Works
<1>3. VisitInside' = [u \in Threads |-> IF Works(u)' THEN call'[u].h ELSE 0]
  BY DEF VisitInside, Works
<1>4. VisitInside = [u \in Threads |-> VisitInside[u]]
  BY DEF VisitInside
<1> HIDE DEF VisitInside, Works
<1> QED BY <1>1, <1>2, <1>3, <1>4

\* The kinds of steps.
LEMMA VisitStands ==
  ASSUME NEW t \in Threads, Others(t), SameView, known' = known,
         Works(t)' <=> Works(t), Works(t) => call'[t].h = call[t].h
  PROVE  VisitStep
BY ViewKept, WorkMoves DEF SameView, VisitStep, Visits!sessions

LEMMA VisitGivesBack ==
  ASSUME LongInv, NEW t \in Threads, Others(t), SameView, known' \subseteq known,
         ~Works(t), ~Works(t)'
  PROVE  VisitStep
<1> DEFINE given == known \ known'
<1>1. known \subseteq HandleNums
  BY KnownSeen
<1>2. given \in SUBSET HandleNums /\ known' = known \ given
  BY <1>1
<1> HIDE DEF given
<1>3. UNCHANGED <<VisitOwner, VisitConnected, VisitInside>>
  BY ViewKept, WorkMoves DEF SameView
<1> QED BY <1>2, <1>3 DEF VisitStep, Visits!Next, Visits!GiveBack

LEMMA VisitHands ==
  ASSUME LongInv, NEW t \in Threads, Others(t), SameView, ~Works(t), ~Works(t)',
         NEW back, known' = known \cup back, \A x \in back : x \in HandleNums /\ Seen(x)
  PROVE  VisitStep
<1>1. back \in SUBSET HandleNums /\ back \subseteq Visits!Alive
  BY SeenFacts
<1>2. UNCHANGED <<VisitOwner, VisitConnected, VisitInside>>
  BY ViewKept, WorkMoves DEF SameView
<1> QED BY <1>1, <1>2 DEF VisitStep, Visits!Next, Visits!Hand

\* The end of a visit, after which its connection may be connected, or disconnected
\* and without its statements.
LEMMA VisitEnds ==
  ASSUME LongInv, NEW t \in Threads, Others(t), Works(t), ~Works(t)',
         NEW back, known' = known \cup back, \A x \in back : x \in HandleNums /\ Seen(x),
         \A x \in HandleNums : Seen(x) /\ Seen(x)' => db2'[x].parent = db2[x].parent,
         \/ SameView
         \/ /\ db2[call[t].h].kind = "dbc"
            /\ \A x \in HandleNums : /\ Seen(x)' <=> Seen(x)
                                     /\ Shown(x)' <=> Shown(x) \/ x = call[t].h
         \/ /\ db2[call[t].h].kind = "dbc"
            /\ \A x \in HandleNums :
                 /\ Seen(x)' <=> Seen(x) /\ (db2[x].parent = call[t].h => x = call[t].h)
                 /\ Shown(x)' <=> Shown(x) /\ x # call[t].h
                 /\ x \in known' /\ db2[x].parent = call[t].h => x = call[t].h
  PROVE  VisitStep
<1> DEFINE h == call[t].h
<1>1. /\ VisitInside[t] = h /\ h # 0 /\ h \in HandleNums
      /\ VisitInside' = [VisitInside EXCEPT ![t] = 0]
  BY WorksFacts, WorkMoves
<1>2. \E given \in SUBSET Visits!Alive : known' = known \cup given
  <2>1. back \in SUBSET Visits!Alive
    BY SeenFacts
  <2> QED BY <2>1
<1>3. CASE SameView
  <2>1. UNCHANGED <<VisitOwner, VisitConnected>>
    BY <1>3, ViewKept DEF SameView
  <2> QED BY <1>1, <1>2, <2>1 DEF VisitStep, Visits!Next, Visits!Leave
<1>4. CASE /\ db2[h].kind = "dbc"
           /\ \A x \in HandleNums : /\ Seen(x)' <=> Seen(x)
                                    /\ Shown(x)' <=> Shown(x) \/ x = h
  <2>1. VisitOwner' = VisitOwner
    BY <1>4, ViewKept
  <2>2. VisitConnected' = VisitConnected \cup {h}
    BY <1>1, <1>4 DEF VisitConnected, Shown
  <2>3. Visits!Connection(VisitInside[t])
    BY <1>1, <1>4, SeenFacts
  <2> QED BY <1>1, <1>2, <2>1, <2>2, <2>3 DEF VisitStep, Visits!Next, Visits!Leave
<1>5. CASE /\ db2[h].kind = "dbc"
           /\ \A x \in HandleNums :
                /\ Seen(x)' <=> Seen(x) /\ (db2[x].parent = h => x = h)
                /\ Shown(x)' <=> Shown(x) /\ x # h
                /\ x \in known' /\ db2[x].parent = h => x = h
  <2>1. VisitConnected' = VisitConnected \ {h}
    BY <1>1, <1>5 DEF VisitConnected, Shown
  <2>2. Visits!Connection(VisitInside[t])
    BY <1>1, <1>5, SeenFacts
  <2>3. \A x \in HandleNums :
          x \in Visits!Statements(h) <=> Seen(x) /\ db2[x].parent = h /\ x # h
    BY SeenFacts DEF Visits!Statements
  <2>4. known' \cap Visits!Statements(h) = {}
    BY <1>5, <2>3, SeenFacts DEF Visits!Statements
  <2>5. VisitOwner' = [x \in HandleNums |->
                         IF x \in Visits!Statements(h) THEN 0 ELSE VisitOwner[x]]
    <3>1. ASSUME NEW x \in HandleNums
          PROVE  (IF Seen(x)' THEN db2'[x].parent ELSE 0)
                   = IF x \in Visits!Statements(h) THEN 0 ELSE VisitOwner[x]
      <4>1. CASE Seen(x)'
        BY <1>5, <2>3, <4>1, SeenFacts
      <4>2. CASE ~Seen(x)'
        BY <1>5, <2>3, <4>2, SeenFacts
      <4> QED BY <4>1, <4>2
    <3>2. VisitOwner' = [x \in HandleNums |-> IF Seen(x)' THEN db2'[x].parent ELSE 0]
      BY DEF VisitOwner, Seen
    <3> QED BY <3>1, <3>2
  <2> QED BY <1>1, <1>2, <2>1, <2>2, <2>4, <2>5 DEF VisitStep, Visits!Next, Visits!Leave
<1> QED BY <1>3, <1>4, <1>5

LEMMA VisitEnters ==
  ASSUME LongInv, NEW t \in Threads, Others(t), SameView, known' = known,
         ~Works(t), Works(t)', call'[t].h = call[t].h,
         call[t].h \in HandleNums, call[t].c \in HandleNums,
         Seen(call[t].h), db2[call[t].h].parent = call[t].c,
         \A u \in Threads : Works(u) => call[u].c # call[t].c
  PROVE  VisitStep
<1> DEFINE h == call[t].h
<1>1. VisitOwner[h] = call[t].c /\ h \in Visits!Alive
  BY SeenFacts
<1>2. ~Visits!AtWork(call[t].c)
  BY NobodyVisits
<1>3. VisitInside[t] = 0 /\ VisitInside' = [VisitInside EXCEPT ![t] = h]
  BY WorksFacts, WorkMoves
<1>4. UNCHANGED <<VisitOwner, VisitConnected>>
  BY ViewKept DEF SameView
<1>5. Visits!Enter(t, h)
  BY <1>1, <1>2, <1>3, <1>4 DEF Visits!Enter
<1> QED BY <1>5 DEF VisitStep, Visits!Next

\* DB2's new handle o appears.
LEMMA VisitNew ==
  ASSUME LongInv, NEW t \in Threads, Others(t), known' = known, ~Works(t), ~Works(t)',
         NEW o \in HandleNums, ~Seen(o), Seen(o)',
         \A x \in HandleNums : x # o => /\ Seen(x)' <=> Seen(x)
                                        /\ Seen(x) => db2'[x].parent = db2[x].parent,
         \A x \in HandleNums : Shown(x)' <=> Shown(x),
         \/ db2'[o].parent = o
         \/ \E c \in HandleNums : db2'[o].parent = c /\ Shown(c)
  PROVE  VisitStep
<1>1. UNCHANGED <<VisitConnected, VisitInside>>
  BY ViewKept, WorkMoves
<1>2. o \notin Visits!Alive
  BY SeenFacts
<1>3. ASSUME NEW c, db2'[o].parent = c PROVE VisitOwner' = [VisitOwner EXCEPT ![o] = c]
  <2>1. ASSUME NEW x \in HandleNums
        PROVE  (IF Seen(x)' THEN db2'[x].parent ELSE 0) = IF x = o THEN c ELSE VisitOwner[x]
    BY <1>3, <2>1, SeenFacts
  <2>2. VisitOwner' = [x \in HandleNums |-> IF Seen(x)' THEN db2'[x].parent ELSE 0]
    BY DEF VisitOwner, Seen
  <2>3. VisitOwner = [x \in HandleNums |-> VisitOwner[x]]
    BY DEF VisitOwner
  <2> HIDE DEF VisitOwner
  <2> QED BY <2>1, <2>2, <2>3
<1>4. CASE db2'[o].parent = o
  <2>1. VisitOwner' = [VisitOwner EXCEPT ![o] = o]
    BY <1>3, <1>4
  <2> QED BY <1>1, <1>2, <2>1 DEF VisitStep, Visits!Next, Visits!NewConnection
<1>5. ASSUME NEW c \in HandleNums, db2'[o].parent = c, Shown(c) PROVE VisitStep
  <2>1. VisitOwner' = [VisitOwner EXCEPT ![o] = c]
    BY <1>3, <1>5
  <2>2. c \in VisitConnected
    BY <1>5 DEF VisitConnected, Shown
  <2> QED BY <1>1, <1>2, <2>1, <2>2 DEF VisitStep, Visits!Next, Visits!NewStatement
<1> QED BY <1>4, <1>5

\* A handle x ends.
LEMMA VisitDrops ==
  ASSUME LongInv, NEW t \in Threads, Others(t), known' = known,
         Works(t)' <=> Works(t), Works(t) => call'[t].h = call[t].h,
         NEW x \in HandleNums, Seen(x), ~Seen(x)', x \notin known,
         \A y \in HandleNums : y # x => /\ Seen(y)' <=> Seen(y)
                                        /\ Seen(y) => db2'[y].parent = db2[y].parent,
         \A y \in HandleNums : Shown(y)' <=> Shown(y),
         \/ /\ db2[x].kind = "stmt"
            /\ \A u \in Threads : Works(u) => call[u].h # x
         \/ /\ db2[x].kind = "dbc" /\ ~db2[x].connected
            /\ \A y \in HandleNums : Seen(y) /\ db2[y].parent = x => y = x
            /\ \A u \in Threads : Works(u) => call[u].c # x
  PROVE  VisitStep
<1>1. UNCHANGED <<VisitConnected, VisitInside>>
  BY ViewKept, WorkMoves
<1>2. VisitOwner' = [VisitOwner EXCEPT ![x] = 0]
  <2>1. ASSUME NEW y \in HandleNums
        PROVE  (IF Seen(y)' THEN db2'[y].parent ELSE 0) = IF y = x THEN 0 ELSE VisitOwner[y]
    BY <2>1, SeenFacts
  <2>2. VisitOwner' = [y \in HandleNums |-> IF Seen(y)' THEN db2'[y].parent ELSE 0]
    BY DEF VisitOwner, Seen
  <2>3. VisitOwner = [y \in HandleNums |-> VisitOwner[y]]
    BY DEF VisitOwner
  <2> HIDE DEF VisitOwner
  <2> QED BY <2>1, <2>2, <2>3
<1>3. x \in Visits!Alive
  BY SeenFacts
<1>4. CASE /\ db2[x].kind = "stmt"
           /\ \A u \in Threads : Works(u) => call[u].h # x
  <2>1. ~Visits!Connection(x)
    BY <1>4, SeenFacts
  <2>2. \A u \in Threads : VisitInside[u] # x
    BY <1>4, WorksFacts, SeenFacts
  <2> QED BY <1>1, <1>2, <1>3, <2>1, <2>2 DEF VisitStep, Visits!Next, Visits!DropStatement
<1>5. CASE /\ db2[x].kind = "dbc" /\ ~db2[x].connected
           /\ \A y \in HandleNums : Seen(y) /\ db2[y].parent = x => y = x
           /\ \A u \in Threads : Works(u) => call[u].c # x
  <2>1. Visits!Connection(x) /\ x \notin VisitConnected
    BY <1>5, SeenFacts DEF VisitConnected
  <2>2. Visits!Statements(x) = {}
    BY <1>5, SeenFacts DEF Visits!Statements
  <2>3. ~Visits!AtWork(x)
    BY <1>5, NobodyVisits
  <2> QED BY <1>1, <1>2, <2>1, <2>2, <2>3 DEF VisitStep, Visits!Next, Visits!DropConnection
<1> QED BY <1>4, <1>5

\* A handle is seen as before unless DB2's record or the connect at work on it changes.
LEMMA ViewOfOne ==
  ASSUME NEW t \in Threads, Others(t), NEW x \in HandleNums
  PROVE  /\ (Db2Alive(db2, x)' <=> Db2Alive(db2, x)) /\ (CommandOf(t, x)' <=> CommandOf(t, x))
              => (Seen(x)' <=> Seen(x))
         /\ db2'[x].kind = db2[x].kind /\ (db2'[x].connected <=> db2[x].connected)
              /\ (ConnectsBehind(t, x)' <=> ConnectsBehind(t, x))
              => (Shown(x)' <=> Shown(x))
<1>1. ASSUME NEW u \in Threads \ {t}
      PROVE  /\ CommandOf(u, x)' <=> CommandOf(u, x)
             /\ ConnectsBehind(u, x)' <=> ConnectsBehind(u, x)
  BY <1>1 DEF Others, CommandOf, ConnectsBehind
<1> QED BY <1>1 DEF Seen, Shown

LEMMA SameClass ==
  ASSUME NEW t \in Threads, Others(t), db2' = db2,
         \A x \in HandleNums : /\ CommandOf(t, x)' <=> CommandOf(t, x)
                               /\ ConnectsBehind(t, x)' <=> ConnectsBehind(t, x)
  PROVE  SameView
<1> SUFFICES ASSUME NEW x \in HandleNums
             PROVE  /\ Seen(x)' <=> Seen(x)
                    /\ db2'[x].parent = db2[x].parent
                    /\ Shown(x)' <=> Shown(x)
  BY DEF SameView
<1> QED BY ViewOfOne DEF Db2Alive

\* The labels of a connect's command, and of a connect before and after it is behind
\* its connection.
Commanding == {"cmdtable", "cmd", "free"}

Looking == {"idle", "lookup", "glock"}

Entering == {"table", "want", "db2", "addhash"}

LEMMA GotoView ==
  ASSUME LongInv, NEW t \in Threads, NEW label, Goto(t, label), db2' = db2,
         call[t].op \in ConnectOps => /\ call[t].at \in Commanding <=> label \in Commanding
                                      /\ call[t].at \in Looking <=> label \in Looking
                                      /\ call[t].at \in Entering <=> label \in Entering
  PROVE  SameView
<1>1. /\ Others(t) /\ call'[t].at = label /\ call'[t].op = call[t].op
      /\ call'[t].h = call[t].h /\ call'[t].o = call[t].o /\ call'[t].key = call[t].key
  BY GotoAll
<1>2. \A x \in HandleNums : /\ CommandOf(t, x)' <=> CommandOf(t, x)
                            /\ ConnectsBehind(t, x)' <=> ConnectsBehind(t, x)
  BY <1>1 DEF CommandOf, ConnectsBehind, Commanding, Looking, Entering
<1> QED BY <1>1, <1>2, SameClass

LEMMA ReturnView ==
  ASSUME LongInv, NEW t \in Threads, NEW back, Return(t, back), db2' = db2,
         call[t].op \notin ConnectOps \/ call[t].at \in Looking
  PROVE  SameView
BY ReturnAll, SameClass DEF CommandOf, ConnectsBehind, Looking

\* Behind a connection there is a connect that owns it.
LEMMA BehindOwns ==
  ASSUME LongInv, NEW u \in Threads, NEW h, ConnectsBehind(u, h)
  PROVE  Claims(u) /\ Owns(u) /\ call[u].h = h /\ call[u].c = h
<1>1. /\ call[u].op \in ConnectOps /\ call[u].at \notin {"idle", "lookup", "glock"}
      /\ call[u].h = h /\ Opens(u)
  BY DEF ConnectsBehind, Opens
<1>2. Claims(u) /\ Owns(u)
  BY <1>1 DEF Claims, Named, Owns, ConnectOps, CloseOps
<1> QED BY <1>1, <1>2, ClaimFacts

-----------------------------------------------------------------------------
(* The visits of the plain calls                                             *)

LEMMA BeginVisit ==
  ASSUME LongInv, NEW t \in Threads, BeginCall(t) \/ BeginLong(t)
  PROVE  VisitStep
<1>1. TypeOK
  BY DEF LongInv
<1>2. ASSUME Others(t), call[t].at = "idle", db2' = db2, known' \subseteq known,
             call'[t].at \in Starting,
             call'[t].op \in ConnectOps => call'[t].at \in {"lookup", "glock"}
      PROVE  VisitStep
  <2>1. ~Works(t) /\ ~Works(t)'
    BY <1>2 DEF Works, UnderLock, Starting
  <2>2. SameView
    BY <1>2, SameClass DEF CommandOf, ConnectsBehind, Starting
  <2> QED BY <1>2, <2>1, <2>2, VisitGivesBack
<1>3. ASSUME NEW op \in CallOps, NEW h, NEW label \in Starting, Begin(t, op, h, label),
             known' \subseteq known
      PROVE  VisitStep
  <2>1. op \notin ConnectOps
    BY <1>3 DEF CallOps, ConnectOps
  <2> QED BY <1>1, <1>2, <1>3, <2>1, BeginFacts
<1>4. CASE BeginCall(t)
  BY <1>3, <1>4 DEF BeginCall, BeginAllocConnect, BeginAllocStmt, BeginStmtCall, BeginConnCall,
     BeginConnect, BeginEndTran, BeginFreeStmt, BeginDisconnect, BeginFreeConnect, BeginRelease,
     CallOps, Starting
<1>5. ASSUME NEW op \in CloseOps, NEW h \in HandleNums, BeginClose(t, op, h) PROVE VisitStep
  <2>1. /\ Others(t) /\ call[t].at = "idle" /\ db2' = db2 /\ known' \subseteq known
        /\ call'[t].at = "want" /\ call'[t].op = op
    BY <1>1, <1>5 DEF BeginClose, Started, Others, TypeOK
  <2> QED BY <1>2, <2>1 DEF Starting, CloseOps, ConnectOps
<1>6. ASSUME NEW op, NEW key, BeginConnectBoth(t, op, key) PROVE VisitStep
  <2>1. /\ Others(t) /\ call[t].at = "idle" /\ db2' = db2 /\ known' = known
        /\ call'[t].at \in {"lookup", "glock"}
    BY <1>1, <1>6 DEF BeginConnectBoth, Started, Others, TypeOK
  <2> QED BY <1>2, <2>1 DEF Starting
<1> QED BY <1>4, <1>5, <1>6 DEF BeginLong

\* A call enters with the mutex of its connection.
LEMMA LockVisit ==
  ASSUME LongInv, NEW t \in Threads, TableLock(t)
  PROVE  VisitStep
<1> DEFINE h == call[t].h
<1>1. call[t].at = "want" /\ Goto(t, "db2") /\ db2' = db2 /\ known' = known
  BY DEF TableLock
<1>2. /\ Others(t) /\ call'[t].at = "db2" /\ call'[t].op = call[t].op /\ call'[t].h = h
  BY <1>1, GotoAll
<1>3. SameView
  BY <1>1, GotoView DEF Commanding, Looking, Entering
<1>4. ~Works(t) /\ Works(t)'
  BY <1>1, <1>2 DEF Works, UnderLock, Closed
<1>5. Claims(t) /\ Named(t) /\ call[t].c \in Slots /\ call[t].m = call[t].c
  BY <1>1, OwnIndex DEF Claims
<1>6. /\ h \in HandleNums /\ call[t].c \in HandleNums
      /\ Db2Alive(db2, h) /\ db2[h].parent = call[t].c
      /\ table[h].hstmt # 0 /\ table[h].hdbc = call[t].c
  <2>1. ~Left(t, h)
    BY <1>1 DEF Left
  <2> QED BY <1>1, <1>5, <2>1, ClaimFacts, GoodFacts DEF HandleIsGood
<1>7. Seen(h)
  BY <1>1, <1>5, <1>6, UsesSeen DEF Uses, CommandOf
<1>8. table[call[t].c].thread_init
  <2>1. table[call[t].c].hstmt = call[t].c /\ call[t].c # 0
    BY <1>6, FiledFacts, GoodFacts, TableAssumption DEF HandleNums
  <2> QED BY <1>5, <2>1, FiledFacts
<1>9. MayLock(mutex[call[t].c], t)
  BY <1>5, <1>8 DEF TableLock
<1>10. ASSUME NEW u \in Threads, Works(u), call[u].c = call[t].c PROVE FALSE
  <2>1. UnderLock(u) /\ u # t
    BY <1>4, <1>10 DEF Works
  <2>2. mutex[call[t].c] = Held(u)
    BY <1>10, <2>1 DEF LongInv, Sections
  <2> QED BY <1>9, <2>1, <2>2, TableAssumption DEF MayLock, Held
<1> QED BY <1>1, <1>2, <1>3, <1>4, <1>6, <1>7, <1>10, VisitEnters

\* A call that returns under its lock.
LEMMA ReturnVisit ==
  ASSUME LongInv, NEW t \in Threads,
         LockedCallReturns(t) \/ ConnectReturns(t) \/ BareCallReturns(t)
  PROVE  VisitStep
<1> DEFINE h == call[t].h
           none == {}
<1>1. /\ Return(t, none)
      /\ \/ /\ call[t].at = "db2" /\ call[t].op \in {"StmtCall", "ConnCall", "Connect"}
            /\ db2' = db2
         \/ call[t].at = "db2" /\ call[t].op = "Connect" /\ db2' = Db2Connect(db2, h)
         \/ call[t].at = "bare" /\ call[t].op = "EndTran" /\ db2' = db2
  BY DEF LockedCallReturns, ConnectReturns, BareCallReturns
<1>2. /\ \A x \in none : x \in HandleNums /\ Seen(x)
      /\ call[t].op \notin ConnectOps
  BY <1>1 DEF ConnectOps
<1> HIDE DEF none
<1>3. Others(t) /\ call'[t] = NoCall /\ call'[t].at = "idle" /\ known' = known \cup none
  BY <1>1, ReturnAll
<1>4. ~Works(t)'
  BY <1>3 DEF Works, UnderLock
<1>5. db2' = db2 => SameView
  BY <1>1, <1>2, ReturnView
<1>6. CASE call[t].at = "bare"
  <2>1. ~Works(t)
    BY <1>6 DEF Works, UnderLock
  <2> QED BY <1>1, <1>2, <1>3, <1>4, <1>5, <1>6, <2>1, VisitHands
<1>7. CASE call[t].at = "db2"
  <2>1. Works(t)
    BY <1>7 DEF Works, UnderLock, Closed
  <2>2. CASE db2' = db2
    BY <1>2, <1>3, <1>4, <1>5, <2>1, <2>2, VisitEnds
  <2>3. CASE call[t].op = "Connect" /\ db2' = Db2Connect(db2, h)
    <3>1. Claims(t)
      BY <1>7, <2>3 DEF Claims, Named, ConnectOps, CloseOps
    <3>2. /\ h = call[t].c /\ h \in Slots /\ h \in HandleNums
          /\ Db2Alive(db2, h) /\ db2[h].parent = h
      BY <1>7, <2>3, <3>1, ClaimFacts DEF OfStmt, Left
    <3>3. db2[h].kind = "dbc"
      BY <3>2, TreeFacts DEF LongInv
    <3>4. /\ db2'[h].connected /\ db2'[h].kind = db2[h].kind /\ db2'[h].parent = h
          /\ \A x \in Slots : x # h => db2'[x] = db2[x]
      BY <2>3, <3>2, <3>3 DEF Db2Connect, LongInv, TypeOK, Db2Handle
    <3>5. \A u \in Threads : ~ConnectsBehind(u, h)
      <4> SUFFICES ASSUME NEW u \in Threads, ConnectsBehind(u, h) PROVE FALSE
        OBVIOUS
      <4>1. u # t
        BY <1>2 DEF ConnectsBehind
      <4> QED BY <3>1, <3>2, <4>1, BehindOwns DEF LongInv, Alone
    <3>6. \A x : /\ CommandOf(t, x)' <=> CommandOf(t, x)
                 /\ ConnectsBehind(t, x)' <=> ConnectsBehind(t, x)
      BY <1>2, <1>3 DEF CommandOf, ConnectsBehind
    <3>7. ASSUME NEW x \in HandleNums
          PROVE  /\ Seen(x)' <=> Seen(x)
                 /\ Shown(x)' <=> Shown(x) \/ x = h
                 /\ db2'[x].parent = db2[x].parent
      <4>1. x \in Slots /\ (Db2Alive(db2, x)' <=> Db2Alive(db2, x))
            /\ db2'[x].parent = db2[x].parent /\ db2'[x].kind = db2[x].kind
        BY <3>2, <3>4, SlotTypes DEF Db2Alive
      <4>2. Seen(x)' <=> Seen(x)
        BY <1>3, <3>6, <4>1, ViewOfOne
      <4>3. CASE x = h
        <5>1. \A u \in Threads : ~ConnectsBehind(u, x)'
          BY <1>3, <3>5, <3>6, <4>3 DEF ConnectsBehind, Others
        <5> QED BY <3>3, <3>4, <4>1, <4>2, <4>3, <5>1 DEF Shown
      <4>4. CASE x # h
        BY <1>3, <3>4, <3>6, <4>1, <4>2, <4>4, ViewOfOne
      <4> QED BY <4>3, <4>4
    <3> QED BY <1>2, <1>3, <1>4, <2>1, <3>3, <3>7, VisitEnds
  <2> QED BY <1>1, <1>7, <2>2, <2>3
<1> QED BY <1>1, <1>6, <1>7

\* A disconnect and what it finds of the connection.
LEMMA ReleaseFinds ==
  ASSUME LongInv, NEW t \in Threads, call[t].at \in {"check", "db2"},
         call[t].op \in ReleaseOps, db2' = db2
  PROVE  \A x \in KeptUnder(call[t].h) : x \in HandleNums /\ Seen(x)
<1> DEFINE h == call[t].h
<1>1. Claims(t) /\ ~Left(t, h)
  BY DEF Claims, Named, Left, ReleaseOps, ConnectOps, CloseOps
<1>2. /\ h = call[t].c /\ h \in Slots /\ h \in HandleNums
      /\ Db2Alive(db2, h) /\ db2[h].parent = h
  BY <1>1, ClaimFacts DEF OfStmt, ReleaseOps
<1>3. ASSUME NEW x \in KeptUnder(h)
      PROVE  x \in HandleNums /\ Db2Alive(db2, x) /\ db2[x].parent = h
  <2>1. CASE x = h
    BY <1>2, <2>1
  <2>2. CASE x # h
    <3>1. x \in Slots /\ db2[x].kind = "stmt" /\ db2[x].parent = h
      BY <1>3, <2>2 DEF KeptUnder, Db2Stmts
    <3> QED BY <3>1, TreeFacts DEF Db2Alive, LongInv
  <2> QED BY <2>1, <2>2
<1>4. ASSUME NEW x \in KeptUnder(h), NEW u \in Threads, CommandOf(u, x) PROVE FALSE
  <2>1. /\ u # t /\ Claims(u) /\ call[u].c = h /\ call[u].op \in ConnectOps
    BY <1>3, <1>4, CommandFacts DEF CommandOf, ReleaseOps, ConnectOps
  <2> QED BY <1>1, <1>2, <2>1 DEF LongInv, Alone
<1> QED BY <1>3, <1>4 DEF Seen

\* DB2 disconnects h: its statements are gone, it is not shown.
LEMMA DisconnectView ==
  ASSUME LongInv, NEW t \in Threads, Others(t), NEW h \in HandleNums,
         db2[h].kind = "dbc", db2' = Db2Disconnect(db2, h), NEW x \in HandleNums,
         CommandOf(t, x)' <=> CommandOf(t, x),
         ConnectsBehind(t, x)' <=> ConnectsBehind(t, x)
  PROVE  /\ Seen(x)' <=> Seen(x) /\ (db2[x].parent = h => x = h)
         /\ Shown(x)' <=> Shown(x) /\ x # h
         /\ Seen(x) /\ Seen(x)' => db2'[x].parent = db2[x].parent
<1>1. h \in Slots /\ x \in Slots /\ db2 \in [Slots -> Db2Handle]
  BY SlotTypes DEF LongInv, TypeOK
<1>2. CASE x = h
  <2>1. db2'[x].kind = "dbc" /\ db2'[x].parent = db2[x].parent /\ ~db2'[x].connected
    BY <1>1, <1>2 DEF Db2Disconnect, Db2Stmts, Db2Handle
  <2> QED BY <1>2, <2>1, ViewOfOne DEF Db2Alive, Shown
<1>3. CASE x # h /\ x \in Db2Stmts(db2, h)
  <2>1. db2[x].kind = "stmt" /\ db2[x].parent = h /\ db2'[x].kind = "free"
    BY <1>1, <1>3 DEF Db2Disconnect, Db2Stmts, Db2Free
  <2> QED BY <1>3, <2>1 DEF Seen, Shown, Db2Alive
<1>4. CASE x # h /\ x \notin Db2Stmts(db2, h)
  <2>1. db2'[x] = db2[x]
    BY <1>1, <1>4 DEF Db2Disconnect
  <2>2. Db2Alive(db2, x) => db2[x].parent # h
    BY <1>1, <1>4, TreeFacts DEF Db2Stmts, LongInv, Db2Alive, Db2Handle
  <2> QED BY <1>4, <2>1, <2>2, ViewOfOne DEF Db2Alive, Seen
<1> QED BY <1>2, <1>3, <1>4

LEMMA DisconnectVisit ==
  ASSUME LongInv, NEW t \in Threads, DisconnectReturns(t)
  PROVE  VisitStep
<1> DEFINE h == call[t].h
           kept == KeptUnder(h)
<1>1. /\ call[t].at = "db2" /\ call[t].op = "Disconnect"
      /\ call[t].op \in ReleaseOps /\ call[t].op \notin ConnectOps
  BY DEF DisconnectReturns, ReleaseOps, ConnectOps
<1>2. Works(t)
  BY <1>1 DEF Works, UnderLock, Closed
<1>3. CASE db2' = db2 /\ Return(t, kept)
  <2>1. \A x \in kept : x \in HandleNums /\ Seen(x)
    BY <1>1, <1>3, ReleaseFinds
  <2> HIDE DEF kept
  <2>2. Others(t) /\ call'[t].at = "idle" /\ known' = known \cup kept
    BY <1>3, ReturnAll
  <2>3. ~Works(t)' /\ SameView
    BY <1>1, <1>3, <2>2, ReturnView DEF Works, UnderLock
  <2> QED BY <1>2, <1>3, <2>1, <2>2, <2>3, VisitEnds
<1>4. CASE db2' = Db2Disconnect(db2, h) /\ Return(t, {h})
  <2>1. Claims(t) /\ Owns(t) /\ ~Left(t, h)
    BY <1>1 DEF Claims, Named, Owns, Opens, Left, ReleaseOps, ConnectOps, CloseOps
  <2>2. /\ h = call[t].c /\ h \in Slots /\ h \in HandleNums
        /\ Db2Alive(db2, h) /\ db2[h].parent = h
    BY <1>1, <2>1, ClaimFacts
  <2>3. db2[h].kind = "dbc"
    BY <2>2, TreeFacts DEF LongInv
  <2>4. \A x \in known : db2[x].parent # h
    BY <2>1 DEF LongInv, TakenBack
  <2>5. /\ Others(t) /\ call'[t] = NoCall /\ call'[t].at = "idle" /\ known' = known \cup {h}
    BY <1>4, ReturnAll
  <2>6. /\ ~Works(t)'
        /\ \A x : /\ CommandOf(t, x)' <=> CommandOf(t, x)
                  /\ ConnectsBehind(t, x)' <=> ConnectsBehind(t, x)
    BY <1>1, <2>5 DEF Works, UnderLock, CommandOf, ConnectsBehind
  <2>7. \A x : x = h => x \in HandleNums /\ Seen(x)
    <3>1. ~CommandOf(t, h)
      BY <1>1 DEF CommandOf
    <3> QED BY <2>1, <2>2, <3>1, UsesSeen DEF Uses
  <2> DEFINE back == {h}
  <2>8. known' = known \cup back /\ \A x \in back : x \in HandleNums /\ Seen(x)
    BY <2>5, <2>7
  <2> HIDE DEF back
  <2>9. ASSUME NEW x \in HandleNums
        PROVE  /\ Seen(x)' <=> Seen(x) /\ (db2[x].parent = h => x = h)
               /\ Shown(x)' <=> Shown(x) /\ x # h
               /\ Seen(x) /\ Seen(x)' => db2'[x].parent = db2[x].parent
    BY <1>4, <2>2, <2>3, <2>5, <2>6, <2>9, DisconnectView
  <2>10. ASSUME NEW x \in HandleNums, x \in known', db2[x].parent = h PROVE x = h
    BY <2>4, <2>5, <2>10
  <2> QED BY <1>2, <2>3, <2>5, <2>6, <2>8, <2>9, <2>10, VisitEnds
<1> QED BY <1>3, <1>4 DEF DisconnectReturns

\* SQLDisconnect and SQLFreeConnect do not touch a connection that has a key.
LEMMA CheckVisit ==
  ASSUME LongInv, NEW t \in Threads, CheckPersistent(t)
  PROVE  VisitStep
<1> DEFINE kept == KeptUnder(call[t].h)
<1>1. /\ call[t].at = "check" /\ db2' = db2
      /\ call[t].op \in ReleaseOps /\ call[t].op \notin ConnectOps
  BY DEF CheckPersistent, ReleaseOps, ConnectOps
<1>2. ~Works(t)
  BY <1>1 DEF Works, UnderLock
<1>3. CASE Return(t, kept)
  <2>1. \A x \in kept : x \in HandleNums /\ Seen(x)
    BY <1>1, ReleaseFinds
  <2> HIDE DEF kept
  <2>2. Others(t) /\ call'[t].at = "idle" /\ known' = known \cup kept
    BY <1>3, ReturnAll
  <2>3. ~Works(t)' /\ SameView
    BY <1>1, <1>3, <2>2, ReturnView DEF Works, UnderLock
  <2> QED BY <1>2, <2>1, <2>2, <2>3, VisitHands
<1>4. ASSUME NEW label \in {"want", "glock"}, Goto(t, label), known' = known PROVE VisitStep
  <2>1. Others(t) /\ call'[t].at = label
    BY <1>4, GotoAll
  <2>2. ~Works(t)' /\ SameView
    BY <1>1, <1>4, <2>1, GotoView DEF Works, UnderLock
  <2> QED BY <1>2, <1>4, <2>1, <2>2, VisitStands
<1> QED BY <1>3, <1>4 DEF CheckPersistent

\* A handle DB2 has just made: seen unless it is for the command of a connect.
LEMMA ViewOfNew ==
  ASSUME LongInv, NEW t \in Threads, Others(t),
         NEW o \in HandleNums, ~Db2Alive(db2, o), NEW c,
         \/ db2' = Db2NewDbc(db2, o) /\ c = o
         \/ db2' = Db2NewStmt(db2, o, c),
         \A x \in HandleNums : x # o => /\ CommandOf(t, x)' <=> CommandOf(t, x)
                                        /\ ConnectsBehind(t, x)' <=> ConnectsBehind(t, x)
  PROVE  /\ ~Seen(o) /\ (Seen(o)' <=> ~CommandOf(t, o)') /\ db2'[o].parent = c
         /\ \A x \in HandleNums :
              /\ x # o => /\ Seen(x)' <=> Seen(x)
                          /\ Seen(x) => db2'[x].parent = db2[x].parent
              /\ Shown(x)' <=> Shown(x)
<1>1. o \in Slots /\ db2 \in [Slots -> Db2Handle]
  BY SlotTypes DEF LongInv, TypeOK
<1>2. /\ db2'[o].parent = c /\ ~db2'[o].connected /\ Db2Alive(db2, o)'
      /\ \A x \in HandleNums : x # o => db2'[x] = db2[x]
  BY <1>1, SlotTypes DEF Db2NewDbc, Db2NewStmt, Db2Alive
<1>3. ~Seen(o)
  BY DEF Seen
<1>4. ASSUME NEW u \in Threads, u # t, CommandOf(u, o)' PROVE FALSE
  <2>1. CommandOf(u, o)
    BY <1>4 DEF CommandOf, Others
  <2> QED BY <2>1, CommandFacts
<1>5. Seen(o)' <=> ~CommandOf(t, o)'
  BY <1>2, <1>4 DEF Seen
<1>6. ASSUME NEW x \in HandleNums
      PROVE  /\ x # o => /\ Seen(x)' <=> Seen(x)
                         /\ Seen(x) => db2'[x].parent = db2[x].parent
             /\ Shown(x)' <=> Shown(x)
  <2>1. CASE x = o
    BY <1>2, <2>1 DEF Shown, Db2Alive
  <2>2. CASE x # o
    BY <1>2, <2>2, ViewOfOne DEF Db2Alive
  <2> QED BY <2>1, <2>2
<1> QED BY <1>2, <1>3, <1>5, <1>6

\* A handle DB2 has just ended.
LEMMA ViewOfGone ==
  ASSUME LongInv, NEW t \in Threads, Others(t),
         NEW o \in HandleNums, db2[o].kind = "stmt" \/ ~db2[o].connected,
         db2' = [db2 EXCEPT ![o] = Db2Free],
         \A x \in HandleNums : x # o => /\ CommandOf(t, x)' <=> CommandOf(t, x)
                                        /\ ConnectsBehind(t, x)' <=> ConnectsBehind(t, x)
  PROVE  /\ ~Seen(o)'
         /\ \A x \in HandleNums :
              /\ x # o => /\ Seen(x)' <=> Seen(x)
                          /\ Seen(x) => db2'[x].parent = db2[x].parent
              /\ Shown(x)' <=> Shown(x)
<1>1. o \in Slots /\ db2 \in [Slots -> Db2Handle]
  BY SlotTypes DEF LongInv, TypeOK
<1>2. /\ db2'[o].kind = "free"
      /\ \A x \in HandleNums : x # o => db2'[x] = db2[x]
  BY <1>1, SlotTypes DEF Db2Free
<1>3. ~Seen(o)'
  BY <1>2 DEF Seen, Db2Alive
<1>4. ASSUME NEW x \in HandleNums
      PROVE  /\ x # o => /\ Seen(x)' <=> Seen(x)
                         /\ Seen(x) => db2'[x].parent = db2[x].parent
             /\ Shown(x)' <=> Shown(x)
  <2>1. CASE x = o
    BY <1>2, <2>1 DEF Shown
  <2>2. CASE x # o
    BY <1>2, <2>2, ViewOfOne DEF Db2Alive
  <2> QED BY <2>1, <2>2
<1> QED BY <1>3, <1>4

LEMMA AllocVisit ==
  ASSUME LongInv, NEW t \in Threads, AllocInDb2(t) \/ AllocInTable(t)
  PROVE  VisitStep
<1>1. /\ call[t].at \in {"glock", "table"} /\ call[t].op \in AllocOps
      /\ call[t].op \notin ConnectOps /\ call[t].op \notin CloseOps
  BY DEF AllocInDb2, AllocInTable, AllocOps, ConnectOps, CloseOps
<1>2. ~Works(t)
  BY <1>1 DEF Works, UnderLock
<1>3. ASSUME NEW back, Return(t, back), db2' = db2,
             \A x \in back : x \in HandleNums /\ Seen(x)
      PROVE  VisitStep
  <2>1. Others(t) /\ call'[t].at = "idle" /\ known' = known \cup back
    BY <1>3, ReturnAll
  <2>2. ~Works(t)' /\ SameView
    BY <1>1, <1>3, <2>1, ReturnView DEF Works, UnderLock
  <2> QED BY <1>2, <1>3, <2>1, <2>2, VisitHands
<1>4. CASE AllocInTable(t)
  <2> DEFINE back == {call[t].o}
  <2>1. call[t].at = "table" /\ Return(t, back) /\ db2' = db2
    BY <1>4 DEF AllocInTable
  <2>2. New(t, call[t].o)
    BY <1>1, <2>1 DEF New
  <2>3. call[t].o \in HandleNums /\ Db2Alive(db2, call[t].o) /\ Uses(t, call[t].o)
    BY <2>2, NewFacts
  <2>4. Seen(call[t].o)
    BY <1>1, <2>3, UsesSeen DEF CommandOf
  <2>5. \A x \in back : x \in HandleNums /\ Seen(x)
    BY <2>3, <2>4
  <2> HIDE DEF back
  <2> QED BY <1>3, <2>1, <2>5
<1>5. ASSUME NEW o \in HandleNums, ~Db2Alive(db2, o), glock = NoThread, call[t].at = "glock",
             \/ call[t].op = "AllocConnect" /\ db2' = Db2NewDbc(db2, o)
             \/ /\ call[t].op = "AllocStmt" /\ db2[call[t].h].connected
                /\ db2' = Db2NewStmt(db2, o, call[t].h),
             call' = [call EXCEPT ![t] = WithNew(call[t], o)], known' = known
      PROVE  VisitStep
  <2> DEFINE c == call[t].h
  <2>1. Others(t) /\ call'[t].at = "table" /\ call'[t].op = call[t].op
    BY <1>5, WithNewFacts DEF LongInv
  <2>2. /\ ~Works(t)'
        /\ \A x : /\ ~CommandOf(t, x) /\ ~CommandOf(t, x)'
                  /\ ~ConnectsBehind(t, x) /\ ~ConnectsBehind(t, x)'
    BY <1>1, <2>1 DEF Works, UnderLock, CommandOf, ConnectsBehind
  <2>3. CASE db2' = Db2NewDbc(db2, o)
    <3>1. db2'[o].parent = o /\ ~Seen(o) /\ Seen(o)'
          /\ \A x \in HandleNums :
               /\ x # o => /\ Seen(x)' <=> Seen(x)
                           /\ Seen(x) => db2'[x].parent = db2[x].parent
               /\ Shown(x)' <=> Shown(x)
      BY <1>5, <2>1, <2>2, <2>3, ViewOfNew
    <3> QED BY <1>2, <1>5, <2>1, <2>2, <3>1, VisitNew
  <2>4. CASE /\ call[t].op = "AllocStmt" /\ db2[c].connected
             /\ db2' = Db2NewStmt(db2, o, c)
    <3>1. db2'[o].parent = c /\ ~Seen(o) /\ Seen(o)'
          /\ \A x \in HandleNums :
               /\ x # o => /\ Seen(x)' <=> Seen(x)
                           /\ Seen(x) => db2'[x].parent = db2[x].parent
               /\ Shown(x)' <=> Shown(x)
      BY <1>5, <2>1, <2>2, <2>4, ViewOfNew
    <3>2. Claims(t)
      BY <1>5, <2>4 DEF Claims, Named, ConnectOps, CloseOps
    <3>3. c = call[t].c /\ c \in HandleNums /\ Db2Alive(db2, c) /\ db2[c].parent = c
          /\ c \in Slots
      BY <1>5, <2>4, <3>2, FreeLock, ClaimFacts DEF OfStmt
    <3>4. db2[c].kind = "dbc"
      BY <3>3, TreeFacts DEF LongInv
    <3>5. ASSUME NEW u \in Threads, ConnectsBehind(u, c) PROVE FALSE
      <4>1. u # t /\ Owns(u) /\ call[u].h = c
        BY <2>2, <3>5, BehindOwns
      <4> QED BY <3>2, <3>3, <4>1 DEF LongInv, Alone
    <3>6. Shown(c)
      BY <2>4, <3>4, <3>5 DEF Shown
    <3> QED BY <1>2, <1>5, <2>1, <2>2, <3>1, <3>3, <3>6, VisitNew
  <2> QED BY <1>5, <2>3, <2>4
<1>6. CASE AllocInDb2(t)
  <2> DEFINE none == {}
  <2>1. \A x \in none : x \in HandleNums /\ Seen(x)
    OBVIOUS
  <2>2. CASE Return(t, none) /\ db2' = db2
    <3> HIDE DEF none
    <3> QED BY <1>3, <2>1, <2>2
  <2> QED BY <1>5, <1>6, <2>2 DEF AllocInDb2
<1> QED BY <1>4, <1>6

LEMMA FreeVisit ==
  ASSUME LongInv, NEW t \in Threads, FreeInDb2(t) \/ FreeInTable(t)
  PROVE  VisitStep
<1>0. PICK h : h = call[t].h
  OBVIOUS
<1>1. /\ PlaceOK(t) /\ StateIsGood(t) /\ h \in Slots
  BY <1>0, GoodFacts
<1>2. /\ call[t].op \in {"FreeStmtDrop", "FreeConnect"}
      /\ call[t].at \in {"glock", "table"}
      /\ call[t].op \notin ConnectOps
  BY <1>1 DEF FreeInDb2, FreeInTable, PlaceOK, LockOps, AllocOps, ConnectOps, CloseOps, Aggregates
<1>3. ~Works(t)
  BY <1>2 DEF Works, UnderLock
<1>4. CASE FreeInDb2(t)
  <2>1. /\ call[t].at = "glock" /\ glock = NoThread /\ known' = known /\ Goto(t, "table")
        /\ call[t].op = "FreeStmtDrop" => db2' = Db2FreeStmt(db2, h)
        /\ call[t].op = "FreeConnect" => db2' = Db2FreeDbc(db2, h)
    BY <1>0, <1>2, <1>4 DEF FreeInDb2
  <2>2. Claims(t) /\ Named(t)
    BY <1>2, <2>1 DEF Claims, Named, ConnectOps, CloseOps
  <2>3. /\ Db2Alive(db2, h) /\ db2[h].parent = call[t].c /\ h \in HandleNums
        /\ call[t].op = "FreeStmtDrop" <=> h # call[t].c
    BY <1>0, <1>2, <2>1, <2>2, FreeLock, ClaimFacts DEF OfStmt
  <2>4. /\ call[t].op = "FreeStmtDrop" => db2[h].kind = "stmt"
        /\ call[t].op = "FreeConnect" => db2[h].kind = "dbc" /\ ~db2[h].connected
    BY <1>0, <1>1, <2>1, <2>2, <2>3, TreeFacts DEF StateIsGood, LongInv
  <2>5. db2' = [db2 EXCEPT ![h] = Db2Free]
    BY <1>2, <2>1, <2>4 DEF Db2FreeStmt, Db2FreeDbc
  <2>6. Others(t) /\ call'[t].at = "table" /\ call'[t].op = call[t].op
    BY <2>1, GotoAll
  <2>7. /\ ~Works(t)'
        /\ \A x : /\ ~CommandOf(t, x) /\ ~CommandOf(t, x)'
                  /\ ~ConnectsBehind(t, x) /\ ~ConnectsBehind(t, x)'
    BY <1>2, <2>6 DEF Works, UnderLock, CommandOf, ConnectsBehind
  <2>8. Seen(h)
    BY <1>0, <2>2, <2>3, <2>7, UsesSeen DEF Uses
  <2>9. /\ ~Seen(h)'
        /\ \A x \in HandleNums :
             /\ x # h => /\ Seen(x)' <=> Seen(x)
                         /\ Seen(x) => db2'[x].parent = db2[x].parent
             /\ Shown(x)' <=> Shown(x)
    BY <1>2, <2>3, <2>4, <2>5, <2>6, <2>7, ViewOfGone
  <2>10. CASE call[t].op = "FreeStmtDrop"
    <3>1. Drops(t)
      BY <2>1, <2>10 DEF Drops
    <3>2. h \notin known
      BY <1>0, <3>1 DEF LongInv, TakenBack
    <3>3. ASSUME NEW u \in Threads, Works(u) PROVE call[u].h # h
      <4>1. u # t /\ Claims(u)
        BY <1>3, <3>3, WorksFacts
      <4> QED BY <1>0, <3>1, <4>1 DEF LongInv, Alone
    <3> QED BY <1>3, <2>1, <2>3, <2>4, <2>6, <2>7, <2>8, <2>9, <2>10, <3>2, <3>3, VisitDrops
  <2>11. CASE call[t].op = "FreeConnect"
    <3>1. Owns(t) /\ db2[h].parent = h
      BY <2>1, <2>2, <2>3, <2>11 DEF Owns, Opens, ReleaseOps
    <3>2. h \notin known
      BY <1>0, <3>1 DEF LongInv, TakenBack
    <3>3. ASSUME NEW u \in Threads, Works(u) PROVE call[u].c # h
      <4>1. u # t /\ Claims(u)
        BY <1>3, <3>3, WorksFacts
      <4> QED BY <1>0, <3>1, <4>1 DEF LongInv, Alone
    <3>4. ASSUME NEW y \in HandleNums, Seen(y), db2[y].parent = h PROVE y = h
      BY <2>4, <2>11, <3>4, SlotTypes, TreeFacts DEF LongInv, Seen
    <3> QED BY <1>3, <2>1, <2>3, <2>4, <2>6, <2>7, <2>8, <2>9, <2>11, <3>2, <3>3, <3>4, VisitDrops
  <2> QED BY <1>2, <2>10, <2>11
<1>5. CASE FreeInTable(t)
  <2> DEFINE none == {}
  <2>1. Return(t, none) /\ db2' = db2
    BY <1>5 DEF FreeInTable
  <2>2. \A x \in none : x \in HandleNums /\ Seen(x)
    OBVIOUS
  <2> HIDE DEF none
  <2>3. Others(t) /\ call'[t].at = "idle" /\ known' = known \cup none
    BY <2>1, ReturnAll
  <2>4. ~Works(t)' /\ SameView
    BY <1>2, <2>1, <2>3, ReturnView DEF Works, UnderLock
  <2> QED BY <1>3, <2>2, <2>3, <2>4, VisitHands
<1> QED BY <1>4, <1>5

-----------------------------------------------------------------------------
(* The visit of a connect                                                    *)

\* A connection found by its key is handed out as it is.
LEMMA LookupVisit ==
  ASSUME LongInv, NEW t \in Threads, Lookup(t)
  PROVE  VisitStep
<1>1. call[t].at = "lookup" /\ call[t].op = "SQL400pConnect" /\ db2' = db2
  BY GoodFacts DEF Lookup, PlaceOK
<1>2. ~Works(t)
  BY <1>1 DEF Works, UnderLock
<1>3. CASE Goto(t, "glock") /\ known' = known
  <2>1. Others(t) /\ call'[t].at = "glock"
    BY <1>3, GotoAll
  <2>2. ~Works(t)' /\ SameView
    BY <1>1, <1>3, <2>1, GotoView DEF Works, UnderLock, Commanding, Looking, Entering
  <2> QED BY <1>2, <1>3, <2>1, <2>2, VisitStands
<1>4. CASE Hash2Conn(table, call[t].key) > 1 /\ Return(t, {Hash2Conn(table, call[t].key)})
  <2>1. call[t].key \in Keys
    BY <1>1, GoodFacts DEF StateIsGood
  <2>2. PICK i \in HandleNums :
          Hash2Conn(table, call[t].key) = i /\ i \in Slots /\ db2[i].kind = "dbc"
    BY <1>4, <2>1, HashFinds
  <2> DEFINE back == {i}
  <2>3. Return(t, back) /\ \A x \in back : x \in HandleNums /\ Seen(x)
    BY <1>4, <2>2, SeenFacts
  <2> HIDE DEF back
  <2>4. Others(t) /\ call'[t].at = "idle" /\ known' = known \cup back
    BY <2>3, ReturnAll
  <2>5. ~Works(t)' /\ SameView
    BY <1>1, <2>3, <2>4, ReturnView DEF Works, UnderLock, Looking
  <2> QED BY <1>2, <2>3, <2>4, <2>5, VisitHands
<1> QED BY <1>3, <1>4 DEF Lookup

LEMMA ConnectAllocsVisit ==
  ASSUME LongInv, NEW t \in Threads, ConnectAllocs(t)
  PROVE  VisitStep
<1>1. call[t].at = "glock" /\ call[t].op \in ConnectOps
  BY DEF ConnectAllocs
<1>2. ~Works(t)
  BY <1>1 DEF Works, UnderLock
<1>3. CASE Return(t, {}) /\ db2' = db2
  <2> DEFINE none == {}
  <2>1. Return(t, none) /\ known' = known
    BY <1>3 DEF Return
  <2> HIDE DEF none
  <2>2. Others(t) /\ call'[t].at = "idle"
    BY <2>1, ReturnAll
  <2>3. ~Works(t)' /\ SameView
    BY <1>1, <1>3, <2>1, <2>2, ReturnView DEF Works, UnderLock, Looking
  <2> QED BY <1>2, <2>1, <2>2, <2>3, VisitStands
<1>4. ASSUME NEW o \in HandleNums, ~Db2Alive(db2, o), db2' = Db2NewDbc(db2, o),
             call' = [call EXCEPT ![t].at = "table", ![t].h = o, ![t].c = o, ![t].m = o],
             known' = known
      PROVE  VisitStep
  <2>1. Others(t) /\ call'[t].at = "table" /\ call'[t].op = call[t].op /\ call'[t].h = o
    BY <1>4 DEF LongInv, TypeOK, Call, Others
  <2>2. /\ ~Works(t)'
        /\ \A x : /\ ~CommandOf(t, x) /\ ~CommandOf(t, x)'
                  /\ x # o => ~ConnectsBehind(t, x) /\ ~ConnectsBehind(t, x)'
    BY <1>1, <2>1 DEF Works, UnderLock, CommandOf, ConnectsBehind
  <2>3. db2'[o].parent = o /\ ~Seen(o) /\ Seen(o)'
        /\ \A x \in HandleNums :
             /\ x # o => /\ Seen(x)' <=> Seen(x)
                         /\ Seen(x) => db2'[x].parent = db2[x].parent
             /\ Shown(x)' <=> Shown(x)
    BY <1>4, <2>1, <2>2, ViewOfNew
  <2> QED BY <1>2, <1>4, <2>1, <2>2, <2>3, VisitNew
<1> QED BY <1>3, <1>4 DEF ConnectAllocs

\* The steps of a connect that its clients do not see.
LEMMA ConnectVisit ==
  ASSUME LongInv, NEW t \in Threads,
         ConnectCtor(t) \/ ConnectCmdCtor(t) \/ ConnectCmd(t)
  PROVE  VisitStep
<1>1. PlaceOK(t)
  BY GoodFacts
<1>2. ASSUME NEW label, Goto(t, label), call[t].op \in ConnectOps, db2' = db2, known' = known,
             \/ call[t].at = "table" /\ label = "want"
             \/ call[t].at = "cmdtable" /\ label = "cmd"
             \/ call[t].at = "cmd" /\ label = "free"
      PROVE  VisitStep
  <2>1. Others(t) /\ call'[t].at = label /\ call'[t].op = call[t].op /\ call'[t].h = call[t].h
    BY <1>2, GotoAll
  <2>2. Works(t)' <=> Works(t)
    BY <1>2, <2>1 DEF Works, UnderLock, Closed, ConnectOps, CloseOps
  <2>3. SameView
    BY <1>2, GotoView DEF Commanding, Looking, Entering
  <2> QED BY <1>2, <2>1, <2>2, <2>3, VisitStands
<1> QED BY <1>1, <1>2 DEF ConnectCtor, ConnectCmdCtor, ConnectCmd, PlaceOK, ConnectOps

\* With its key a connection is shown, while the connect is still at work on it.
LEMMA AddHashVisit ==
  ASSUME LongInv, NEW t \in Threads, ConnectAddHash(t)
  PROVE  VisitStep
<1>0. PICK h : h = call[t].h
  OBVIOUS
<1>1. /\ call[t].at = "addhash" /\ call[t].op = "SQL400pConnect" /\ Goto(t, "setup")
      /\ db2' = db2 /\ known' = known
  BY GoodFacts DEF ConnectAddHash, PlaceOK
<1>2. Works(t) /\ Claims(t) /\ call[t].op \in Aggregates /\ Opens(t)
  BY <1>1 DEF Works, UnderLock, Closed, Claims, Named, Opens, ConnectOps, CloseOps, Aggregates
<1>3. h = call[t].c /\ h \in HandleNums /\ db2[h].kind = "dbc" /\ db2[h].connected
  BY <1>0, <1>1, <1>2, Inside, GoodFacts DEF StateIsGood, ConnectOps
<1>4. /\ Others(t) /\ call'[t].at = "setup" /\ call'[t].op = call[t].op
      /\ call'[t].h = h /\ call'[t].o = call[t].o /\ call'[t].key = call[t].key
  BY <1>0, <1>1, GotoAll
<1>5. call[t].key # NoKey
  BY <1>1, GoodFacts, TableAssumption DEF StateIsGood
<1>6. /\ Works(t)'
      /\ \A x : /\ ~CommandOf(t, x) /\ ~CommandOf(t, x)'
                /\ ~ConnectsBehind(t, x)'
                /\ ConnectsBehind(t, x) <=> x = h
  BY <1>0, <1>1, <1>4, <1>5
     DEF Works, UnderLock, Closed, CommandOf, ConnectsBehind, ConnectOps, CloseOps
<1>7. \A u \in Threads : u # t => ~ConnectsBehind(u, h)
  BY <1>2, <1>3, BehindOwns DEF LongInv, Alone
<1>8. ASSUME NEW x \in HandleNums
      PROVE  /\ Seen(x)' <=> Seen(x)
             /\ Shown(x)' <=> Shown(x) \/ x = h
  <2>1. /\ Seen(x)' <=> Seen(x)
        /\ x # h => (Shown(x)' <=> Shown(x))
    BY <1>1, <1>4, <1>6, ViewOfOne DEF Db2Alive
  <2>2. \A u \in Threads : ~ConnectsBehind(u, h)'
    BY <1>4, <1>6, <1>7 DEF ConnectsBehind, Others
  <2>3. Shown(h)'
    BY <1>1, <1>3, <2>2 DEF Shown
  <2> QED BY <2>1, <2>3
<1>9. VisitOwner' = VisitOwner
  BY <1>1, <1>8, ViewKept
<1>10. VisitConnected' = VisitConnected \cup {h}
  BY <1>3, <1>8 DEF VisitConnected, Shown
<1>11. VisitInside' = VisitInside /\ VisitInside[t] = h /\ h # 0
  BY <1>0, <1>2, <1>4, <1>6, WorkMoves, WorksFacts
<1>12. Visits!Connection(h)
  BY <1>3, SeenFacts
<1> QED BY <1>1, <1>9, <1>10, <1>11, <1>12 DEF VisitStep, Visits!Next, Visits!Appear

\* The visit of a connect ends: the connection is shown if it is connected.
LEMMA ConnectEnds ==
  ASSUME LongInv, NEW t \in Threads, NEW back, Return(t, back),
         \A x \in back : x = call[t].h, db2' = db2,
         call[t].op \in ConnectOps, call[t].at \in {"db2", "setup", "unlock"}
  PROVE  VisitStep
<1>0. PICK h : h = call[t].h
  OBVIOUS
<1>1. Works(t) /\ Claims(t) /\ call[t].op \in Aggregates
  BY DEF Works, UnderLock, Closed, Claims, Named, ConnectOps, CloseOps, Aggregates
<1>2. h = call[t].c /\ h \in HandleNums /\ db2[h].kind = "dbc" /\ Seen(h)
  BY <1>0, <1>1, Inside, SeenFacts
<1>3. /\ Others(t) /\ call'[t] = NoCall /\ call'[t].at = "idle" /\ known' = known \cup back
  BY ReturnAll
<1>4. /\ ~Works(t)'
      /\ \A x : /\ ~CommandOf(t, x) /\ ~CommandOf(t, x)'
                /\ ~ConnectsBehind(t, x)'
                /\ x # h => ~ConnectsBehind(t, x)
  BY <1>0, <1>3 DEF Works, UnderLock, CommandOf, ConnectsBehind
<1>5. \A u \in Threads : u # t => ~ConnectsBehind(u, h)
  BY <1>0, <1>1, <1>2, BehindOwns DEF LongInv, Alone
<1>6. ASSUME NEW x \in HandleNums
      PROVE  /\ Seen(x)' <=> Seen(x)
             /\ x # h => (Shown(x)' <=> Shown(x))
  BY <1>3, <1>4, ViewOfOne DEF Db2Alive
<1>7. (Shown(h) => db2[h].connected) /\ (Shown(h)' <=> db2[h].connected)
  <2>1. \A u \in Threads : ~ConnectsBehind(u, h)'
    BY <1>3, <1>4, <1>5 DEF ConnectsBehind, Others
  <2> QED BY <1>2, <2>1 DEF Shown
<1>8. \A x \in back : x \in HandleNums /\ Seen(x)
  BY <1>0, <1>2
<1>9. CASE db2[h].connected
  <2>1. \A x \in HandleNums : /\ Seen(x)' <=> Seen(x)
                              /\ Shown(x)' <=> Shown(x) \/ x = h
    BY <1>6, <1>7, <1>9
  <2> QED BY <1>0, <1>1, <1>2, <1>3, <1>4, <1>8, <2>1, VisitEnds
<1>10. CASE ~db2[h].connected
  <2>1. SameView
    BY <1>6, <1>7, <1>10 DEF SameView
  <2> QED BY <1>1, <1>3, <1>4, <1>8, <2>1, VisitEnds
<1> QED BY <1>9, <1>10

\* SQLConnect and what follows happen behind the connection.
LEMMA ConnectMakes ==
  ASSUME LongInv, NEW t \in Threads, ConnectInDb2(t) \/ ConnectSetup(t)
  PROVE  VisitStep
<1>0. PICK h : h = call[t].h
  OBVIOUS
<1>1. call[t].at \in {"db2", "setup"} /\ call[t].op \in ConnectOps
  BY GoodFacts DEF PlaceOK, ConnectInDb2, ConnectSetup
<1>2. Works(t) /\ Claims(t) /\ call[t].op \in Aggregates
  BY <1>1 DEF Works, UnderLock, Closed, Claims, Named, ConnectOps, CloseOps, Aggregates
<1>3. /\ h \in HandleNums /\ h \in Slots /\ db2[h].kind = "dbc"
      /\ call[t].at = "db2" => ConnectsBehind(t, h)
      /\ call[t].op = "SQL400Connect" => call[t].key = NoKey
  BY <1>0, <1>1, <1>2, Inside, GoodFacts DEF ConnectsBehind, StateIsGood
<1>4. CASE Return(t, {h}) /\ db2' = db2
  <2> DEFINE back == {h}
  <2>1. Return(t, back) /\ \A x \in back : x = call[t].h
    BY <1>0, <1>4
  <2> HIDE DEF back
  <2> QED BY <1>1, <1>4, <2>1, ConnectEnds
<1>5. ASSUME NEW label \in {"addhash", "setup"}, Goto(t, label), call[t].at = "db2",
             call[t].op = "SQL400pConnect" => label = "addhash",
             db2' = Db2Connect(db2, h), known' = known
      PROVE  VisitStep
  <2>1. /\ Others(t) /\ call'[t].at = label /\ call'[t].op = call[t].op
        /\ call'[t].h = call[t].h /\ call'[t].key = call[t].key
    BY <1>5, GotoAll
  <2>2. /\ Works(t)'
        /\ \A x : /\ ~CommandOf(t, x) /\ ~CommandOf(t, x)'
                  /\ ConnectsBehind(t, x)' <=> ConnectsBehind(t, x)
    BY <1>1, <1>3, <1>5, <2>1
       DEF Works, UnderLock, Closed, CommandOf, ConnectsBehind, ConnectOps, CloseOps
  <2>3. \A x \in Slots : /\ db2'[x].kind = db2[x].kind /\ db2'[x].parent = db2[x].parent
                         /\ x # h => db2'[x] = db2[x]
    BY <1>3, <1>5 DEF Db2Connect, LongInv, TypeOK, Db2Handle
  <2>4. ASSUME NEW x \in HandleNums
        PROVE  /\ Seen(x)' <=> Seen(x)
               /\ db2'[x].parent = db2[x].parent
               /\ Shown(x)' <=> Shown(x)
    <3>1. x \in Slots
      BY SlotTypes
    <3>2. x # h => (Shown(x)' <=> Shown(x))
      BY <2>1, <2>2, <2>3, <3>1, ViewOfOne
    <3>3. x = h => ~Shown(x) /\ ~Shown(x)'
      BY <1>3, <1>5, <2>2 DEF Shown
    <3>4. Seen(x)' <=> Seen(x)
      BY <2>1, <2>2, <2>3, <3>1, ViewOfOne DEF Db2Alive
    <3> QED BY <2>3, <3>1, <3>2, <3>3, <3>4
  <2> QED BY <1>2, <1>5, <2>1, <2>2, <2>4, VisitStands DEF SameView
<1>6. ASSUME NEW o \in HandleNums, ~Db2Alive(db2, o), db2' = Db2NewStmt(db2, o, h),
             call' = [call EXCEPT ![t].at = "cmdtable", ![t].o = o], known' = known,
             call[t].at = "setup"
      PROVE  VisitStep
  <2>1. /\ Others(t) /\ call'[t].at = "cmdtable" /\ call'[t].op = call[t].op
        /\ call'[t].h = call[t].h /\ call'[t].o = o /\ call'[t].key = call[t].key
    BY <1>6 DEF LongInv, TypeOK, Call, Others
  <2>2. /\ Works(t)' /\ CommandOf(t, o)'
        /\ \A x : /\ x # o => ~CommandOf(t, x) /\ ~CommandOf(t, x)'
                  /\ ConnectsBehind(t, x)' <=> ConnectsBehind(t, x)
    BY <1>1, <1>6, <2>1
       DEF Works, UnderLock, Closed, CommandOf, ConnectsBehind, ConnectOps, CloseOps
  <2>3. /\ ~Seen(o) /\ ~Seen(o)'
        /\ \A x \in HandleNums :
             /\ x # o => /\ Seen(x)' <=> Seen(x)
                         /\ Seen(x) => db2'[x].parent = db2[x].parent
             /\ Shown(x)' <=> Shown(x)
    BY <1>6, <2>1, <2>2, ViewOfNew
  <2>4. SameView
    BY <2>3 DEF SameView
  <2> QED BY <1>2, <1>6, <2>1, <2>2, <2>4, VisitStands
<1>7. CASE ConnectInDb2(t)
  BY <1>0, <1>1, <1>4, <1>5, <1>7 DEF ConnectInDb2, ConnectOps
<1>8. CASE ConnectSetup(t)
  BY <1>0, <1>4, <1>6, <1>8 DEF ConnectSetup
<1> QED BY <1>7, <1>8

-----------------------------------------------------------------------------
(* The visit of a close                                                      *)

\* A close frees a statement nobody else is at; a connect frees its own, unseen.
LEMMA FreeStmtVisit ==
  ASSUME LongInv, NEW t \in Threads, FreeStmtInDb2(t) \/ FreeStmtInTable(t)
  PROVE  VisitStep
<1>0. PICK o : o = call[t].o
  OBVIOUS
<1>1. call[t].at \in {"free", "freed"} /\ call[t].op \in Aggregates /\ known' = known
  BY GoodFacts DEF PlaceOK, FreeStmtInDb2, FreeStmtInTable
<1>2. Works(t)
  BY <1>1 DEF Works, UnderLock, Closed
<1>3. CASE FreeStmtInTable(t)
  <2>1. PICK label \in {"unlock", "stmts"} :
          Goto(t, label) /\ (label = "unlock" => call[t].op \in ConnectOps)
    BY <1>3 DEF FreeStmtInTable
  <2>2. call[t].at = "freed" /\ db2' = db2
    BY <1>3 DEF FreeStmtInTable
  <2>3. Others(t) /\ call'[t].at = label /\ call'[t].op = call[t].op /\ call'[t].h = call[t].h
    BY <2>1, GotoAll
  <2>4. Works(t)'
    BY <2>1, <2>3 DEF Works, UnderLock, Closed, ConnectOps, CloseOps
  <2>5. SameView
    BY <2>1, <2>2, GotoView DEF Commanding, Looking, Entering
  <2> QED BY <1>1, <1>2, <2>3, <2>4, <2>5, VisitStands
<1>4. CASE FreeStmtInDb2(t)
  <2>1. call[t].at = "free" /\ Goto(t, "freed") /\ db2' = Db2FreeStmt(db2, o)
    BY <1>0, <1>4 DEF FreeStmtInDb2
  <2>2. /\ Others(t) /\ call'[t].at = "freed" /\ call'[t].op = call[t].op
        /\ call'[t].h = call[t].h /\ call'[t].key = call[t].key
    BY <2>1, GotoAll
  <2>3. /\ Claims(t) /\ (Owns(t) \/ Commands(t))
        /\ o \in HandleNums /\ o \in Slots /\ o # call[t].h
        /\ db2[o].kind = "stmt" /\ Db2Alive(db2, o)
        /\ table[o].hstmt # 0 /\ table[o].hdbc = call[t].h
    BY <1>0, <2>1, OtherFacts
  <2>4. db2' = [db2 EXCEPT ![o] = Db2Free]
    BY <2>1, <2>3 DEF Db2FreeStmt
  <2>5. /\ Works(t)'
        /\ \A x : /\ ~CommandOf(t, x)'
                  /\ CommandOf(t, x) <=> call[t].op \in ConnectOps /\ x = o
                  /\ ConnectsBehind(t, x)' <=> ConnectsBehind(t, x)
    BY <1>0, <1>1, <2>1, <2>2 DEF Works, UnderLock, Closed, CommandOf, ConnectsBehind
  <2>6. /\ ~Seen(o)'
        /\ \A x \in HandleNums :
             /\ x # o => /\ Seen(x)' <=> Seen(x)
                         /\ Seen(x) => db2'[x].parent = db2[x].parent
             /\ Shown(x)' <=> Shown(x)
    <3>1. \A x \in HandleNums : x # o => /\ CommandOf(t, x)' <=> CommandOf(t, x)
                                         /\ ConnectsBehind(t, x)' <=> ConnectsBehind(t, x)
      BY <2>5
    <3> QED BY <2>2, <2>3, <2>4, <3>1, ViewOfGone
  <2>7. CASE call[t].op \in ConnectOps
    <3>1. ~Seen(o)
      BY <2>5, <2>7 DEF Seen
    <3>2. SameView
      BY <2>6, <3>1 DEF SameView
    <3> QED BY <1>1, <1>2, <2>2, <2>5, <3>2, VisitStands
  <2>8. CASE call[t].op \notin ConnectOps
    <3>1. Seen(o)
      BY <1>0, <2>1, <2>3, <2>5, <2>8, UsesSeen DEF Uses
    <3>2. Mine(t, o)
      BY <1>0, <2>3 DEF Mine
    <3>3. o \notin known
      BY <2>3, <3>2, MineUnknown
    <3>4. ASSUME NEW u \in Threads, Works(u) PROVE call[u].h # o
      <4>1. Claims(u)
        BY <3>4, WorksFacts
      <4>2. u # t => ~Uses(u, o)
        BY <2>3, <3>2, Apart
      <4> QED BY <2>3, <4>1, <4>2 DEF Uses
    <3> QED BY <1>1, <1>2, <2>2, <2>3, <2>5, <2>6, <3>1, <3>3, <3>4, VisitDrops
  <2> QED BY <2>7, <2>8
<1> QED BY <1>3, <1>4

\* The steps of a close that change nothing but the table.
LEMMA CloseVisit ==
  ASSUME LongInv, NEW t \in Threads,
         \/ CloseChecks(t) \/ CloseFindStmt(t) \/ CloseDtor(t) \/ CloseFreeInTable(t)
  PROVE  VisitStep
<1>1. /\ PlaceOK(t) /\ StateIsGood(t)
  BY GoodFacts
<1>2. /\ call[t].op \in CloseOps /\ call[t].op \notin ConnectOps
      /\ call[t].at \in {"db2", "stmts", "dtor", "byetable"}
      /\ db2' = db2 /\ known' = known
  BY <1>1 DEF CloseChecks, CloseFindStmt, CloseDtor, CloseFreeInTable, PlaceOK, CloseOps,
     ConnectOps
<1>3. ASSUME Others(t), call'[t].op = call[t].op, call'[t].h = call[t].h,
             Works(t)' <=> Works(t)
      PROVE  VisitStep
  <2>1. SameView
    BY <1>2, <1>3, SameClass DEF CommandOf, ConnectsBehind
  <2> QED BY <1>2, <1>3, <2>1, VisitStands
<1>4. CASE CloseChecks(t)
  <2>1. /\ Others(t) /\ call[t].at = "db2" /\ call'[t].at = "stmts"
        /\ call'[t].op = call[t].op /\ call'[t].h = call[t].h
    BY <1>4 DEF CloseChecks, LongInv, TypeOK, Call, Others
  <2> QED BY <1>3, <2>1 DEF Works, UnderLock, Closed
<1>5. CASE CloseFindStmt(t)
  <2>1. /\ Others(t) /\ call[t].at = "stmts"
        /\ call'[t].op = call[t].op /\ call'[t].h = call[t].h
        /\ call'[t].active = call[t].active
        /\ call'[t].at \in {"free", "unlock", "dtor"}
        /\ call'[t].at = "unlock" => call[t].active
    BY <1>5 DEF CloseFindStmt, LongInv, TypeOK, Call, Others
  <2>2. Works(t) /\ Works(t)'
    BY <2>1 DEF Works, UnderLock, Closed
  <2> QED BY <1>3, <2>1, <2>2
<1>6. CASE CloseDtor(t)
  <2>1. /\ Others(t) /\ call[t].at = "dtor" /\ call'[t].at = "bye"
        /\ call'[t].op = call[t].op /\ call'[t].h = call[t].h
    BY <1>6, GotoAll DEF CloseDtor
  <2> QED BY <1>3, <2>1 DEF Works, UnderLock, Closed
<1>7. CASE CloseFreeInTable(t)
  <2>1. /\ Others(t) /\ call[t].at = "byetable" /\ call'[t].at = "unlock"
        /\ call'[t].op = call[t].op /\ call'[t].h = call[t].h
        /\ call'[t].active = call[t].active
    BY <1>7, GotoAll DEF CloseFreeInTable
  <2>2. ~call[t].active
    BY <1>1, <2>1 DEF StateIsGood
  <2> QED BY <1>2, <1>3, <2>1, <2>2 DEF Works, Closed
<1> QED BY <1>4, <1>5, <1>6, <1>7

\* The slot is wiped, so the disconnect finds no key: the close leaves, and has
\* disconnected unless DB2 refused; the connection ends when nobody is at it.
LEMMA CloseEndVisit ==
  ASSUME LongInv, NEW t \in Threads, CloseDisconnect(t) \/ CloseFreeInDb2(t)
  PROVE  VisitStep
<1>0. PICK h : h = call[t].h
  OBVIOUS
<1>1. /\ call[t].op \in CloseOps /\ call[t].op \notin ConnectOps /\ call[t].op \in Aggregates
      /\ call[t].at \in {"bye", "byelock"} /\ Claims(t) /\ known' = known
  BY GoodFacts DEF PlaceOK, CloseDisconnect, CloseFreeInDb2, Claims, Named, CloseOps,
     ConnectOps, Aggregates
<1>2. /\ h \in HandleNums /\ h \in Slots /\ db2[h].kind = "dbc" /\ db2[h].parent = h
      /\ Owns(t) /\ Mine(t, h) /\ Seen(h)
  BY <1>0, <1>1, Inside, SeenFacts
<1>3. ~HashActive(table, h)
  BY <1>0, <1>1, <1>2, ClaimFacts DEF HashActive, LongInv, Filing, SlotOK
<1>4. ASSUME Others(t), call'[t].op = call[t].op, call'[t].at \in {"byelock", "byetable"}
      PROVE  /\ ~Works(t)'
             /\ \A x : /\ ~CommandOf(t, x) /\ ~CommandOf(t, x)'
                       /\ ~ConnectsBehind(t, x) /\ ~ConnectsBehind(t, x)'
             /\ db2' = db2 => SameView
  <2>1. ~Works(t)'
        /\ \A x : /\ ~CommandOf(t, x) /\ ~CommandOf(t, x)'
                  /\ ~ConnectsBehind(t, x) /\ ~ConnectsBehind(t, x)'
    BY <1>1, <1>4 DEF Works, Closed, CommandOf, ConnectsBehind
  <2> QED BY <1>4, <2>1, SameClass
<1>5. CASE CloseDisconnect(t)
  <2>1. /\ call[t].at = "bye" /\ Goto(t, "byelock")
        /\ db2' = Db2Disconnect(db2, h) \/ db2' = db2
    BY <1>0, <1>3, <1>5 DEF CloseDisconnect
  <2>2. Others(t) /\ call'[t].at = "byelock" /\ call'[t].op = call[t].op
    BY <2>1, GotoAll
  <2>3. Works(t)
    BY <1>1, <2>1 DEF Works, UnderLock, Closed
  <2> DEFINE none == {}
  <2>4. known' = known \cup none /\ \A x \in none : x \in HandleNums /\ Seen(x)
    BY <1>1
  <2> HIDE DEF none
  <2>5. CASE db2' = db2
    BY <1>4, <2>2, <2>3, <2>4, <2>5, VisitEnds
  <2>6. CASE db2' = Db2Disconnect(db2, h)
    <3>1. ASSUME NEW x \in HandleNums
          PROVE  /\ Seen(x)' <=> Seen(x) /\ (db2[x].parent = h => x = h)
                 /\ Shown(x)' <=> Shown(x) /\ x # h
                 /\ Seen(x) /\ Seen(x)' => db2'[x].parent = db2[x].parent
      BY <1>2, <1>4, <2>2, <2>6, DisconnectView
    <3>2. \A x \in known' : db2[x].parent # h
      BY <1>0, <1>1, <1>2 DEF LongInv, TakenBack
    <3> QED BY <1>0, <1>2, <1>4, <2>2, <2>3, <2>4, <3>1, <3>2, VisitEnds
  <2> QED BY <2>1, <2>5, <2>6
<1>6. CASE CloseFreeInDb2(t)
  <2>1. call[t].at = "byelock" /\ Goto(t, "byetable") /\ db2' = Db2FreeDbc(db2, h)
    BY <1>0, <1>3, <1>6 DEF CloseFreeInDb2
  <2>2. Others(t) /\ call'[t].at = "byetable" /\ call'[t].op = call[t].op
    BY <2>1, GotoAll
  <2>3. ~Works(t)
    BY <2>1 DEF Works, Closed
  <2>4. CASE db2[h].connected
    <3>1. db2' = db2
      BY <2>1, <2>4 DEF Db2FreeDbc
    <3> QED BY <1>1, <1>4, <2>2, <2>3, <3>1, VisitStands
  <2>5. CASE ~db2[h].connected
    <3>1. db2' = [db2 EXCEPT ![h] = Db2Free]
      BY <1>2, <2>1, <2>5 DEF Db2FreeDbc
    <3>2. /\ ~Seen(h)'
          /\ \A x \in HandleNums :
               /\ x # h => /\ Seen(x)' <=> Seen(x)
                           /\ Seen(x) => db2'[x].parent = db2[x].parent
               /\ Shown(x)' <=> Shown(x)
      BY <1>2, <1>4, <2>2, <2>5, <3>1, ViewOfGone
    <3>3. h \notin known
      BY <1>2, MineUnknown
    <3>4. ASSUME NEW u \in Threads, Works(u) PROVE call[u].c # h
      <4>1. u # t /\ Claims(u)
        BY <2>3, <3>4, WorksFacts
      <4> QED BY <1>0, <1>2, <4>1 DEF LongInv, Alone
    <3>5. ASSUME NEW y \in HandleNums, Seen(y), db2[y].parent = h PROVE y = h
      BY <2>5, <3>5, SlotTypes, TreeFacts DEF LongInv, Seen
    <3> QED BY <1>1, <1>2, <1>4, <2>2, <2>3, <2>5, <3>2, <3>3, <3>4, <3>5, VisitDrops
  <2> QED BY <2>4, <2>5
<1> QED BY <1>5, <1>6

LEMMA UnlockVisit ==
  ASSUME LongInv, NEW t \in Threads, UnlockReturns(t)
  PROVE  VisitStep
<1> DEFINE back == IF call[t].op \in ConnectOps \/ call[t].active THEN {call[t].h} ELSE {}
<1>1. /\ call[t].at = "unlock" /\ call[t].op \in Aggregates /\ db2' = db2
      /\ Return(t, back)
  BY GoodFacts DEF PlaceOK, UnlockReturns
<1>2. \A x \in back : x = call[t].h
  OBVIOUS
<1>3. call[t].op \notin ConnectOps /\ ~call[t].active => back = {}
  OBVIOUS
<1> HIDE DEF back
<1>4. Others(t) /\ call'[t].at = "idle" /\ known' = known \cup back
  BY <1>1, ReturnAll
<1>5. CASE call[t].op \in ConnectOps
  BY <1>1, <1>2, <1>5, ConnectEnds
<1>6. CASE call[t].op \notin ConnectOps
  <2>1. ~Works(t)' /\ SameView
    BY <1>1, <1>4, <1>6, ReturnView DEF Works, UnderLock
  <2>2. CASE call[t].active
    <3>1. Works(t) /\ Claims(t)
      BY <1>1, <1>6, <2>2
         DEF Works, UnderLock, Closed, Claims, Named, Aggregates, ConnectOps, CloseOps
    <3>2. \A x \in back : x \in HandleNums /\ Seen(x)
      BY <1>2, <3>1, WorksFacts
    <3> QED BY <1>1, <1>4, <2>1, <3>1, <3>2, VisitEnds
  <2>3. CASE ~call[t].active
    <3>1. ~Works(t)
      BY <1>1, <1>6, <2>3 DEF Works, Closed, Aggregates
    <3>2. known' = known
      BY <1>3, <1>4, <1>6, <2>3
    <3> QED BY <1>4, <2>1, <3>1, <3>2, VisitStands
  <2> QED BY <2>2, <2>3
<1> QED BY <1>5, <1>6

-----------------------------------------------------------------------------
LEMMA LongNextVisit ==
  ASSUME LongInv, [LongNext]_vars
  PROVE  VisitStep
<1>1. CASE UNCHANGED vars
  <2>1. db2' = db2 /\ call' = call /\ known' = known
    BY <1>1 DEF vars
  <2>2. VisitOwner' = VisitOwner /\ VisitConnected' = VisitConnected
        /\ VisitInside' = VisitInside
    BY <2>1 DEF VisitOwner, VisitConnected, VisitInside, CommandOf, ConnectsBehind, UnderLock,
                Closed, Db2Alive
  <2> QED BY <2>1, <2>2 DEF VisitStep, Visits!sessions
<1>2. ASSUME NEW t \in Threads, CallStep(t) PROVE VisitStep
  BY <1>2, LockVisit, ReturnVisit, DisconnectVisit, CheckVisit, AllocVisit, FreeVisit
     DEF CallStep
<1>3. ASSUME NEW t \in Threads, LongStep(t) PROVE VisitStep
  BY <1>3, LookupVisit, ConnectAllocsVisit, ConnectVisit, AddHashVisit, ConnectMakes,
     FreeStmtVisit, CloseVisit, CloseEndVisit, UnlockVisit DEF LongStep
<1> QED BY <1>1, <1>2, <1>3, BeginVisit DEF LongNext, Quiescent

LEMMA InitVisit ==
  ASSUME Init
  PROVE  Visits!Init
<1>1. LongInv
  BY InitLongInv
<1>2. \A t \in Threads : call[t] = NoCall /\ call[t].at = "idle"
  BY DEF Init, NoCall, Started
<1>3. ASSUME NEW x \in HandleNums
      PROVE  /\ Seen(x) <=> x \in known
             /\ Seen(x) <=> Db2Alive(db2, x)
  <2>1. Seen(x) <=> Db2Alive(db2, x)
    BY <1>2 DEF Seen, CommandOf
  <2>2. Db2Alive(db2, x) <=> x \in known
    BY SMTT(30), CallAssumption, SlotTypes DEF Init, Db2Alive, Db2Free, OpenedUnder
  <2> QED BY <2>1, <2>2
<1>4. VisitOwner \in [HandleNums -> HandleNums \cup {0}]
  BY <1>1, SeenFacts DEF VisitOwner, Seen
<1>5. \A x \in Visits!Alive : Visits!Connection(VisitOwner[x])
  <2> SUFFICES ASSUME NEW x \in Visits!Alive PROVE Visits!Connection(VisitOwner[x])
    OBVIOUS
  <2>1. /\ x \in HandleNums /\ x \in Slots /\ Db2Alive(db2, x)
        /\ VisitOwner[x] = db2[x].parent /\ db2[x].parent \in HandleNums
    BY <1>1, SeenFacts, SlotTypes DEF Seen
  <2>2. db2[db2[x].parent].kind = "dbc"
    BY <1>1, <2>1, TreeFacts DEF LongInv
  <2> QED BY <1>1, <2>1, <2>2, SeenFacts
<1>6. VisitConnected \subseteq {x \in HandleNums : Visits!Connection(x)}
  BY <1>1, SeenFacts DEF VisitConnected
<1>7. VisitInside = [t \in Threads |-> 0]
  BY <1>2 DEF VisitInside, UnderLock
<1>8. known = Visits!Alive
  <2>1. known \subseteq HandleNums
    BY <1>1, KnownSeen
  <2> QED BY <1>1, <1>3, <2>1, SeenFacts
<1> QED BY <1>4, <1>5, <1>6, <1>7, <1>8 DEF Visits!Init

\* The aggregate functions and the plain calls beside them give sessions: whatever
\* runs inside a connect or a close, to the clients it is one visit that excludes all
\* other work on the connection; a connection is shown connected only when its
\* connect has returned or has entered the key others find it by, and what a close
\* takes away nobody holds or is at work on.
THEOREM VisitsImplemented ==
  ASSUME CarefulClients
  PROVE  LongSpec /\ TidyClients => ImplementsVisits
<1>1. Init => Visits!Init
  BY InitVisit
<1>2. LongInv /\ [LongNext]_vars => [Visits!Next]_Visits!sessions
  BY LongNextVisit DEF VisitStep
<1>3. LongSpec /\ TidyClients => []LongInv
  BY LongInvariant
<1> QED BY <1>1, <1>2, <1>3, PTL DEF LongSpec, ImplementsVisits, Visits!Spec
=============================================================================
