----------------------------- MODULE PaseCliStartup -----------------------------
(***************************************************************************)
(* The first calls of a process: the global lock that creates itself, the   *)
(* CCSID of the process, the service program of DB2, the one environment    *)
(* handle, what it is told, and the first connections.  All of it is set    *)
(* once and tested without a lock by every later call.                      *)
(***************************************************************************)
EXTENDS PaseCliInit, Sequences

CONSTANTS
  PaseCcsid,  \* what Qp2paseCCSID returns
  Dirs,       \* directories in the environment variable DBXSRC
  Programs    \* what each thread does in a run, one element for each run

\* A step, or the call of a client, and the value it is about.
Do(do, n) == [do |-> do, n |-> n]

\* A program is a sequence of client calls: "call" is any function that only asks
\* for the CCSID and enters DB2; n is the CCSID of SQLOverrideCCSID400.
ClientCalls ==
  {Do(call, 0) : call \in {"call", "SQLAllocEnv", "SQLAllocConnect", "SQL400Connect"}}
  \cup [do : {"SQLOverrideCCSID400"}, n : Nat \ {0}]

ASSUME StartupAssumption ==
  /\ PaseCcsid \in Nat \ {0} /\ Dirs \in Nat
  /\ Programs \subseteq [Threads -> Seq(ClientCalls)]

VARIABLES
  program,  \* what each thread has still to call
  boot,     \* threadMutexLockFlag
  glock,    \* threadMutexLock
  ccsid,    \* db2_pase_ccsid
  trace,    \* the trace settings: db2_cli_dbx_array, how many directories the string
            \* of getenv still shows, and how often it has been parsed
  loaded,   \* db2_cli_srvpgm_mark
  env_hndl, env_server_mode,
  db2,      \* the environment in DB2: what it has been told, and its connections
  todo,     \* what each thread has still to do inside the driver, next step first
  local     \* of each thread: myccsid, the environment it was given, the number
            \* of times it has entered the global lock and not left it

vars == <<program, boot, glock, ccsid, trace, loaded, env_hndl, env_server_mode, db2, todo, local>>

Init ==
  /\ program \in Programs
  /\ boot = FALSE
  /\ glock = FreeMutex
  /\ ccsid = 0
  /\ trace = [listed |-> 0, left |-> Dirs, parses |-> 0]
  /\ loaded = FALSE
  /\ env_hndl = 0
  /\ env_server_mode = FALSE
  /\ db2 = [env |-> FALSE, told |-> 0, server |-> FALSE, refused |-> FALSE, conns |-> {}]
  /\ todo = [t \in Threads |-> <<>>]
  /\ local = [t \in Threads |-> [myccsid |-> 0, env |-> 0, inside |-> 0]]

-----------------------------------------------------------------------------
(* The steps of the driver                                                   *)

Locking == <<Do("flag", 0), Do("lock", 0)>>
Unlocking == <<Do("unlock", 0)>>

\* init_CCSID400(n), then ILE_... up to the call of DB2.
Ccsid(n) == <<Do("ccsid", n)>>
IntoDb2 == <<Do("srvpgm", 0)>>

SetEnvAttr(attr, n) == Ccsid(0) \o IntoDb2 \o <<Do(attr, n)>>

\* SQLAllocHandle, and SQLAllocEnv and SQLAllocConnect, which differ from it in
\* nothing that matters here; kind is "env" or "dbc", n says who asks for it.
AllocHandle(kind, n) == Ccsid(0) \o Locking \o IntoDb2 \o <<Do(kind, n)>>

\* Mutant of EnvAllocated: the environment is told its CCSID after the lock.
EnvAllocatedUnlocked(n) == Unlocking \o <<Do("tell", n)>>

\* SQLAllocHandle after DB2 has given the environment: custom_SQLSetEnvCCSID,
\* then init_unlock.
EnvAllocated(n) == <<Do("tell", n)>> \o Unlocking

\* Mutant of ServerMode: the flag is set before SQLSetEnvAttr is called.
ServerModeFlagFirst == <<Do("server_flag", 0)>> \o SetEnvAttr("server_attr", 0)

ServerMode == SetEnvAttr("server_attr", 0) \o <<Do("server_flag", 0)>>

\* What a client calls.
Enter(call) ==
  CASE call.do = "SQLOverrideCCSID400" -> <<Do("override", call.n)>>
    [] call.do = "call" -> Ccsid(0) \o IntoDb2
    [] call.do = "SQLAllocEnv" -> AllocHandle("env", 0)
    [] call.do = "SQLAllocConnect" -> AllocHandle("dbc", 0)
    [] OTHER -> Ccsid(0) \o <<Do("override", 0), Do("server", 0)>> \o AllocHandle("dbc", 1)

At(t, do) == todo[t] # <<>> /\ Head(todo[t]).do = do
N(t) == Head(todo[t]).n

\* The step of t is over and the thread does more before what it had left.
Then(t, more) == todo' = [todo EXCEPT ![t] = more \o Tail(@)]

\* A client calls; one that was given no environment cannot ask for a connection.
Call(t) ==
  /\ todo[t] = <<>> /\ program[t] # <<>>
  /\ LET call == Head(program[t])
     IN  todo' = [todo EXCEPT ![t] =
                    IF call.do = "SQLAllocConnect" /\ local[t].env = 0 THEN <<>> ELSE Enter(call)]
  /\ program' = [program EXCEPT ![t] = Tail(@)]
  /\ UNCHANGED <<boot, glock, ccsid, trace, loaded, env_hndl, env_server_mode, db2, local>>

-----------------------------------------------------------------------------
(* init_lock, init_unlock                                                    *)

\* The flag is read under no lock.
Flag(t) ==
  /\ At(t, "flag")
  /\ Then(t, IF boot THEN <<>> ELSE <<Do("boot", 0)>>)
  /\ UNCHANGED <<program, boot, glock, ccsid, trace, loaded, env_hndl, env_server_mode, db2, local>>

\* Mutant of MustBoot: the flag is not read again.
AlwaysBoot == TRUE

\* The flag, read again under threadMutexLockLock.
MustBoot == ~boot

\* The section under threadMutexLockLock, which nothing else ever takes: an
\* initialised mutex is free, whoever held it before.
Boot(t) ==
  /\ At(t, "boot")
  /\ glock' = IF MustBoot THEN FreeMutex ELSE glock
  /\ boot' = TRUE
  /\ Then(t, <<>>)
  /\ UNCHANGED <<program, ccsid, trace, loaded, env_hndl, env_server_mode, db2, local>>

\* Mutant of MayEnter: the mutex is not recursive.
MayEnterOnce(t) == glock = FreeMutex

MayEnter(t) == MayLock(glock, t)

GlobalLock(t) ==
  /\ At(t, "lock")
  /\ MayEnter(t)
  /\ glock' = Locked(glock, t)
  /\ local' = [local EXCEPT ![t].inside = @ + 1]
  /\ Then(t, <<>>)
  /\ UNCHANGED <<program, boot, ccsid, trace, loaded, env_hndl, env_server_mode, db2>>

GlobalUnlock(t) ==
  /\ At(t, "unlock")
  /\ glock' = Unlocked(glock, t)
  /\ local' = [local EXCEPT ![t].inside = @ - 1]
  /\ Then(t, <<>>)
  /\ UNCHANGED <<program, boot, ccsid, trace, loaded, env_hndl, env_server_mode, db2>>

-----------------------------------------------------------------------------
(* init_CCSID400, init_cli_srvpgm                                            *)

\* The test of init_CCSID400 that no lock protects.
CcsidTest(t) ==
  /\ At(t, "ccsid")
  /\ Then(t, (IF ccsid = 0 THEN Locking \o <<Do("choose", N(t)), Do("parse", 0)>> \o Unlocking ELSE <<>>)
             \o <<Do("myccsid", 0)>>)
  /\ UNCHANGED <<program, boot, glock, ccsid, trace, loaded, env_hndl, env_server_mode, db2, local>>

\* Mutant of MayChoose: the CCSID is not tested again under the lock.
AlwaysChoose == TRUE

\* The CCSID, tested again under the lock.
MayChoose == ccsid = 0

CcsidChoose(t) ==
  /\ At(t, "choose")
  /\ ccsid' = IF ~MayChoose THEN ccsid ELSE IF N(t) = 0 THEN PaseCcsid ELSE N(t)
  /\ Then(t, <<>>)
  /\ UNCHANGED <<program, boot, glock, trace, loaded, env_hndl, env_server_mode, db2, local>>

\* Mutant of Listed: what follows the last colon is left out.
ListedToColon(left) == IF left = 0 THEN 0 ELSE left - 1

\* The directories the parse puts in the list.
Listed(left) == left

\* getenv, and the parse: it ends each name but the last with a 0 in the string of
\* the environment, where the next getenv finds the first name only.  It is not
\* under the test of the CCSID.
TraceParse(t) ==
  /\ At(t, "parse")
  /\ trace' = [listed |-> Listed(trace.left),
               left   |-> IF trace.left = 0 THEN 0 ELSE 1,
               parses |-> trace.parses + 1]
  /\ Then(t, <<>>)
  /\ UNCHANGED <<program, boot, glock, ccsid, loaded, env_hndl, env_server_mode, db2, local>>

CcsidReturn(t) ==
  /\ At(t, "myccsid")
  /\ local' = [local EXCEPT ![t].myccsid = ccsid]
  /\ Then(t, <<>>)
  /\ UNCHANGED <<program, boot, glock, ccsid, trace, loaded, env_hndl, env_server_mode, db2>>

SrvpgmTest(t) ==
  /\ At(t, "srvpgm")
  /\ Then(t, IF loaded THEN <<>> ELSE Locking \o <<Do("load", 0)>> \o Unlocking)
  /\ UNCHANGED <<program, boot, glock, ccsid, trace, loaded, env_hndl, env_server_mode, db2, local>>

\* _ILELOAD, or nothing when another thread was first.
SrvpgmLoad(t) ==
  /\ At(t, "load")
  /\ loaded' = TRUE
  /\ Then(t, <<>>)
  /\ UNCHANGED <<program, boot, glock, ccsid, trace, env_hndl, env_server_mode, db2, local>>

-----------------------------------------------------------------------------
(* The environment                                                           *)

\* SQLAllocHandle or SQLAllocEnv inside DB2, which gives every caller the one
\* environment, handle 1, or refuses.  The handle a caller passes in is 0.
AllocEnv(t) ==
  /\ At(t, "env")
  /\ \/ /\ db2' = [db2 EXCEPT !.env = TRUE]
        /\ local' = [local EXCEPT ![t].env = 1]
        /\ Then(t, EnvAllocated(local[t].myccsid))
     \/ /\ local' = [local EXCEPT ![t].env = 0]
        /\ db2' = [db2 EXCEPT !.refused = TRUE]
        /\ Then(t, Unlocking)
  /\ UNCHANGED <<program, boot, glock, ccsid, trace, loaded, env_hndl, env_server_mode>>

\* custom_SQLSetEnvCCSID: the test of env_hndl and, apart from it, the assignment:
\* the call from custom_SQLOverrideCCSID400 holds no lock.
TellTest(t) ==
  /\ At(t, "tell")
  /\ Then(t, IF env_hndl = 0 THEN <<Do("tell_set", N(t))>> ELSE <<>>)
  /\ UNCHANGED <<program, boot, glock, ccsid, trace, loaded, env_hndl, env_server_mode, db2, local>>

\* It remembers the environment first and tells it its CCSID then (with 1208 a
\* second attribute, SQL_ATTR_UTF8, goes the same way).
TellSet(t) ==
  /\ At(t, "tell_set")
  /\ env_hndl' = local[t].env
  /\ Then(t, SetEnvAttr("tell_attr", N(t)))
  /\ UNCHANGED <<program, boot, glock, ccsid, trace, loaded, env_server_mode, db2, local>>

\* SQLSetEnvAttr(SQL400_ATTR_PASE_CCSID) inside DB2; there may be no environment.
TellAttr(t) ==
  /\ At(t, "tell_attr")
  /\ db2' = IF env_hndl = 0 THEN db2 ELSE [db2 EXCEPT !.told = N(t)]
  /\ Then(t, <<>>)
  /\ UNCHANGED <<program, boot, glock, ccsid, trace, loaded, env_hndl, env_server_mode, local>>

\* custom_SQLOverrideCCSID400: nothing once there is an environment, and success.
OverrideTest(t) ==
  /\ At(t, "override")
  /\ Then(t, IF env_hndl # 0 THEN <<>> ELSE Ccsid(N(t)) \o <<Do("override_env", 0)>>)
  /\ UNCHANGED <<program, boot, glock, ccsid, trace, loaded, env_hndl, env_server_mode, db2, local>>

\* It allocates the environment and tells it the CCSID a second time.
OverrideEnv(t) ==
  /\ At(t, "override_env")
  /\ Then(t, AllocHandle("env", 0) \o <<Do("tell", local[t].myccsid)>>)
  /\ UNCHANGED <<program, boot, glock, ccsid, trace, loaded, env_hndl, env_server_mode, db2, local>>

-----------------------------------------------------------------------------
(* custom_SQL400ConnectBoth                                                  *)

ServerTest(t) ==
  /\ At(t, "server")
  /\ Then(t, IF env_server_mode THEN <<>> ELSE ServerMode)
  /\ UNCHANGED <<program, boot, glock, ccsid, trace, loaded, env_hndl, env_server_mode, db2, local>>

\* SQLSetEnvAttr(SQL_ATTR_SERVER_MODE) inside DB2, which refuses without an
\* environment, and may refuse when a connection exists.
ServerAttr(t) ==
  /\ At(t, "server_attr")
  /\ \/ env_hndl # 0 /\ db2' = [db2 EXCEPT !.server = TRUE]
     \/ /\ env_hndl = 0 \/ (db2.conns # {} /\ ~db2.server)
        /\ db2' = [db2 EXCEPT !.refused = TRUE]
  /\ Then(t, <<>>)
  /\ UNCHANGED <<program, boot, glock, ccsid, trace, loaded, env_hndl, env_server_mode, local>>

\* The flag is set whatever DB2 answered.
ServerFlag(t) ==
  /\ At(t, "server_flag")
  /\ env_server_mode' = TRUE
  /\ Then(t, <<>>)
  /\ UNCHANGED <<program, boot, glock, ccsid, trace, loaded, env_hndl, db2, local>>

\* SQLAllocHandle(SQL_HANDLE_DBC) inside DB2: n = 1 for SQL400Connect, which
\* passes env_hndl, 0 for a client, which passes the environment it was given.
AllocConn(t) ==
  LET henv == IF N(t) = 1 THEN env_hndl ELSE local[t].env
      conn == [by |-> IF N(t) = 1 THEN "SQL400Connect" ELSE "client",
               told |-> db2.told, server |-> db2.server]
  IN  /\ At(t, "dbc")
      /\ db2' = IF henv = 0 THEN db2 ELSE [db2 EXCEPT !.conns = @ \cup {conn}]
      /\ Then(t, Unlocking)
      /\ UNCHANGED <<program, boot, glock, ccsid, trace, loaded, env_hndl, env_server_mode, local>>

-----------------------------------------------------------------------------
StartupStep(t) ==
  \/ Flag(t) \/ Boot(t) \/ GlobalLock(t) \/ GlobalUnlock(t)
  \/ CcsidTest(t) \/ CcsidChoose(t) \/ TraceParse(t) \/ CcsidReturn(t)
  \/ SrvpgmTest(t) \/ SrvpgmLoad(t)
  \/ AllocEnv(t) \/ TellTest(t) \/ TellSet(t) \/ TellAttr(t)
  \/ OverrideTest(t) \/ OverrideEnv(t)
  \/ ServerTest(t) \/ ServerAttr(t) \/ ServerFlag(t) \/ AllocConn(t)

Done == /\ \A t \in Threads : program[t] = <<>> /\ todo[t] = <<>>
        /\ UNCHANGED vars

Next == (\E t \in Threads : Call(t) \/ StartupStep(t)) \/ Done

Spec == Init /\ [][Next]_vars

\* A thread inside the driver keeps running unless it stays blocked on the lock.
FairSpec == Spec /\ \A t \in Threads : WF_vars(StartupStep(t))

-----------------------------------------------------------------------------
(* Properties                                                                *)

\* init_lock creates the mutex it locks: two threads are never inside it, also
\* when both found the flag unset (PaseCliInit.c, "flag race condition").
GlobalLockExclusive ==
  \A t, u \in Threads : local[t].inside > 0 /\ local[u].inside > 0 => t = u

\* The environment is told the CCSID every thread dispatches on, whichever of
\* init_CCSID400(0) and SQLOverrideCCSID400 came first on whichever thread.
OneCcsid ==
  /\ db2.told \in {0, ccsid}
  /\ \A t \in Threads : local[t].myccsid \in {0, ccsid}

\* Unless DB2 refused something, no connection is allocated in an environment that
\* has not been told its CCSID, although env_hndl is set before it is told and is
\* tested under no lock, and every connection of SQL400Connect is in server mode
\* ("henv -- always server mode", SQL400Connect.c:87).  After one refusal
\* env_server_mode is set all the same and the mode is never asked for again.
ConnectionsAfterEnvironment ==
  db2.refused \/
  \A conn \in db2.conns : conn.told # 0 /\ (conn.by = "SQL400Connect" => conn.server)

\* The list of source directories is whole unless a second thread, which had found
\* no CCSID and waited for the lock, parsed the string the first one had cut.
DirectoriesListed == trace.parses = 1 => trace.listed = Dirs

\* Every call returns: the lock is taken again inside itself by the calls
\* SQLAllocHandle makes to tell the environment its CCSID.
StartupReturns == \A t \in Threads : todo[t] # <<>> ~> todo[t] = <<>>
=============================================================================
