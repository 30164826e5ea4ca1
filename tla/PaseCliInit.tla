------------------------------ MODULE PaseCliInit ------------------------------
(***************************************************************************)
(* The process-wide resource table of the libdb400.a driver (IBMiTable),    *)
(* its recursive per-slot mutexes, and the functions of PaseCliInit.c that  *)
(* read and write them.  Every DB2 handle, whatever its type, is an index   *)
(* of the table.  Everything here is an operator on a table value; the      *)
(* modules that extend this one decide when a thread applies it.            *)
(***************************************************************************)
EXTENDS Integers, FiniteSets

CONSTANTS
  MaxHandle,  \* last slot of the table (PASECLIMAXRESOURCE - 1)
  Threads,    \* threads of the process
  NoThread,   \* the pthread_t 0
  Keys,       \* persistent keys: db, uid, pwd and qualifier concatenated
  WideKeys,   \* those of them in UTF-16
  NoKey       \* the NULL hKey

ASSUME TableAssumption ==
  /\ MaxHandle \in Nat /\ MaxHandle >= 2
  /\ NoThread \notin Threads
  /\ NoKey \notin Keys
  /\ WideKeys \subseteq Keys

\* Slot 0 belongs to no handle and slot 1 to the one environment handle.
Slots == 0 .. MaxHandle
HandleNums == 2 .. MaxHandle

\* hstmt, hdbc: the handle of the slot and the connection it belongs to
\* (equal in the slot of a connection, 0 in a free slot).
Slot == [hstmt       : Slots,
         hdbc        : Slots,
         tid         : Threads \cup {NoThread},
         in_progress : Int,
         hKey        : Keys \cup {NoKey},
         thread_init : BOOLEAN]

\* The table is static storage: all zero when the process starts.
ZeroSlot == [hstmt |-> 0, hdbc |-> 0, tid |-> NoThread, in_progress |-> 0,
             hKey |-> NoKey, thread_init |-> FALSE]

-----------------------------------------------------------------------------
(* Recursive mutexes (PTHREAD_MUTEX_RECURSIVE).                              *)

FreeMutex == [owner |-> NoThread, count |-> 0]

Mutex == {FreeMutex} \cup [owner : Threads, count : Nat \ {0}]

MayLock(mx, t) == mx.owner \in {NoThread, t}

Locked(mx, t) == [owner |-> t, count |-> mx.count + 1]

\* Mutant of Unlocked: the last unlock leaves the mutex owned (off by one).
UnlockedButOwned(mx, t) ==
  IF mx.owner # t THEN mx ELSE [owner |-> t, count |-> mx.count - 1]

\* Unlocking a mutex another thread owns, or nobody owns, fails and changes
\* nothing; the code ignores the return value.
Unlocked(mx, t) ==
  IF mx.owner # t THEN mx
  ELSE IF mx.count > 1 THEN [owner |-> t, count |-> mx.count - 1]
  ELSE FreeMutex

-----------------------------------------------------------------------------
(* init_table_ctor, init_table_find_stmt, init_table_dtor                    *)

\* Mutant of Ctor: a slot that is still in use keeps its connection.
CtorKeepsConnection(tab, handle, hdbc) ==
  [tab EXCEPT ![handle] =
     [@ EXCEPT !.hstmt = handle, !.hdbc = IF @ = 0 THEN hdbc ELSE @,
               !.tid = NoThread, !.hKey = NoKey, !.thread_init = TRUE]]

\* init_table_ctor: the mutex and the counter are initialised only the first
\* time a handle number is used.
Ctor(tab, handle, hdbc) ==
  LET slot  == tab[handle]
      first == slot.hstmt = 0 /\ ~slot.thread_init
  IN  [tab EXCEPT ![handle] =
         [hstmt       |-> handle,
          hdbc        |-> hdbc,
          tid         |-> NoThread,
          in_progress |-> IF first THEN 0 ELSE slot.in_progress,
          hKey        |-> NoKey,
          thread_init |-> slot.thread_init \/ first]]

\* Mutant of StmtsOf: the comparison with the connection is missing.
StmtsOfAnyone(tab, hdbc) ==
  {i \in Slots : tab[i].hstmt > 0 /\ tab[i].hdbc # tab[i].hstmt}

\* The slots init_table_find_stmt accepts for a connection: statements (and
\* descriptors), never the connection itself.
StmtsOf(tab, hdbc) ==
  {i \in Slots : /\ tab[i].hstmt > 0
                 /\ tab[i].hdbc # tab[i].hstmt
                 /\ tab[i].hdbc = hdbc}

\* init_table_find_stmt: the scan returns the lowest one, 0 when there is none.
FindStmt(tab, hdbc) ==
  IF StmtsOf(tab, hdbc) = {} THEN 0
  ELSE CHOOSE i \in StmtsOf(tab, hdbc) : \A j \in StmtsOf(tab, hdbc) : i <= j

\* Mutant of Cleared: the persistent key is not reset.
ClearedButKeyed(slot) ==
  [ZeroSlot EXCEPT !.thread_init = slot.thread_init, !.hKey = slot.hKey]

\* The mutex and its thread_init survive: a later owner of the number reuses them.
Cleared(slot) == [ZeroSlot EXCEPT !.thread_init = slot.thread_init]

\* init_table_dtor: a connection takes every statement it still finds along.
Dtor(tab, handle) ==
  LET stmts == IF tab[handle].hdbc = tab[handle].hstmt
               THEN StmtsOf(tab, tab[handle].hdbc) ELSE {}
  IN  [i \in Slots |-> IF i = handle \/ i \in stmts THEN Cleared(tab[i]) ELSE tab[i]]

-----------------------------------------------------------------------------
(* init_table_lock, init_table_unlock, init_table_in_progress                *)

\* Mutant of LockIndex: the flag is ignored, every handle locks its own slot.
LockOwnSlot(tab, handle, flag) == handle

\* The slot whose mutex a call on handle takes: flag 1 asks for the connection
\* of a statement, flag 0 for the handle's own slot.
LockIndex(tab, handle, flag) == IF flag = 1 THEN tab[handle].hdbc ELSE handle

Marked(slot, in_progress, tid) == [slot EXCEPT !.in_progress = in_progress, !.tid = tid]

\* init_table_lock, after pthread_mutex_lock has returned: the index is read
\* from the table a second time.
MarkBusy(tab, handle, flag, t) ==
  LET lk == LockIndex(tab, handle, flag)
  IN  [tab EXCEPT ![lk] = Marked(tab[lk], tab[lk].in_progress + 1, t)]

\* init_table_unlock before pthread_mutex_unlock: it asks the counter of the
\* handle it was given, with flag 1 the statement's, which nothing increments.
MarkIdle(tab, handle, flag) ==
  LET lk   == LockIndex(tab, handle, flag)
      less == IF tab[handle].in_progress > 0 THEN 1 ELSE 0
      left == tab[handle].in_progress - (IF lk = handle THEN less ELSE 0)
  IN  [tab EXCEPT ![lk] = Marked(tab[lk], tab[lk].in_progress - less,
                                 IF left = 0 THEN NoThread ELSE tab[lk].tid)]

\* init_table_in_progress: a scan of the whole table under no lock.
InProgress(tab, t) == \E i \in Slots : tab[i].tid = t

-----------------------------------------------------------------------------
(* The persistent keys                                                       *)

\* init_table_add_hash_both with flag 0.
AddHash(tab, handle, key) == [tab EXCEPT ![handle].hKey = key]

\* Mutant of Hash2Conn: the scan stops one slot early.
Hash2ConnShort(tab, key) ==
  LET hits == {i \in 0 .. MaxHandle - 1 : tab[i].hKey = key /\ key \notin WideKeys}
  IN  IF hits = {} THEN 0
      ELSE tab[CHOOSE i \in hits : \A j \in hits : i <= j].hdbc

\* init_table_hash_2_conn_both: the hdbc of the first slot with this key, or 0.
\* The wide search falls through to the narrow comparison of lengths, in which
\* a UTF-16 key counts 0: it finds nothing, and nothing finds a wide key.
Hash2Conn(tab, key) ==
  LET hits == {i \in Slots : tab[i].hKey = key /\ key \notin WideKeys}
  IN  IF hits = {} THEN 0
      ELSE tab[CHOOSE i \in hits : \A j \in hits : i <= j].hdbc

\* Mutant of HashActive: the key is looked for in the slot of the environment.
HashActiveOfEnv(tab, handle) == tab[1].hKey # NoKey

\* init_table_hash_active with flag 0.
HashActive(tab, handle) == tab[handle].hKey # NoKey
=============================================================================
