------------------------------ MODULE PaseCliPath ------------------------------
(***************************************************************************)
(* What a thread does inside one call of an exported function, whichever    *)
(* function it is: its lock, the conversion of its text (which calls other  *)
(* exported functions and takes converters from a pool), DB2, and the trace *)
(* (which, after an error, calls SQLGetDiagRec).  The tables of the four    *)
(* generated files say what each function takes, converts and prints; the   *)
(* steps here are those every call is made of.  Handles stay as they are:   *)
(* PaseCliCall models how they come and go.                                 *)
(***************************************************************************)
EXTENDS PaseCliInit, CliFunctions, LibDB400, IleFunctions, DumpFunctions

CONSTANTS
  Conns,     \* connections that are open, slots of the table
  Settings,  \* the settings of the process a run starts with
  MaxCalls,  \* calls each thread makes (bounds a run)
  MaxTodo    \* steps a thread may have left while SQLGetDiagRec still finds a
             \* record to convert (bounds a run: the trace of a conversion that
             \* fails asks for diagnostics, which it converts, without end)

\* ccsid, job: the CCSIDs of the process and of the job.  whole: iconv knows both
\* and converts every text it is given to the end.  trace: DB2CLITRACE is set.
\* slot0: pthread_mutex_lock works on the mutex of slot 0, which nobody
\* initialises.  pool: converters there is room for (PASECLIMAXCCSID).  menu: the
\* calls each thread may make, pairs <<function, connection>>.
ASSUME PathAssumption ==
  /\ Conns \subseteq HandleNums
  /\ \A s \in Settings : /\ {s.whole, s.trace, s.slot0} \subseteq BOOLEAN /\ s.pool \in Nat
                         /\ "none" \notin {s.ccsid, s.job}
                         /\ \A t \in Threads :
                              s.menu[t] \subseteq (DOMAIN Functions) \X Conns
  /\ {MaxCalls, MaxTodo} \subseteq Nat
  /\ IsFiniteSet(Threads)

\* The generated tables: a function that is dispatched on the CCSID has an entry of
\* conversions, whose copies come one after another; the functions the driver
\* calls itself are exported ones.
InOrder(s) == Len(s) \in Nat /\ DOMAIN s = 1 .. Len(s)
ASSUME TablesAssumption ==
  /\ \A fn \in DOMAIN Functions :
       Functions[fn].works = "ccsid" =>
         InOrder(Conversions[fn].in) /\ InOrder(Conversions[fn].out)
  /\ {"SQLGetDiagRec", "SQLSetEnvAttr", "SQL400IgnoreNullAnyToAny",
      "SQL400IgnoreNullAnyFromAny"} \subseteq DOMAIN Functions

VARIABLES
  setting,    \* never changes
  mutex,      \* IBMiTable[h].threadMutexLock
  glock,      \* threadMutexLock, which is recursive
  converter,  \* IBMiCCSID
  todo,       \* what each thread still has to do, next step first
  copies,     \* buffers each thread has allocated and not freed
  sent,       \* parameters whose text iconv has converted, to the end
  calls       \* calls each thread has made

vars == <<setting, mutex, glock, converter, todo, copies, sent, calls>>

\* A step: do for function fn on connection c (0 when there is none), about
\* parameter p or with converter i.
Step(do, fn, c, p, i) == [do |-> do, fn |-> fn, c |-> c, p |-> p, i |-> i]
Do(do, fn, c) == Step(do, fn, c, "", 0)

NoConverter == [pair |-> "none", in_progress |-> FALSE, lock |-> FreeMutex]

Init ==
  /\ setting \in Settings
  /\ mutex = [h \in Slots |-> FreeMutex]
  /\ glock = FreeMutex
  /\ converter = [i \in 1 .. setting.pool |-> NoConverter]
  /\ todo = [t \in Threads |-> <<>>]
  /\ copies = [t \in Threads |-> {}]
  /\ sent = [t \in Threads |-> {}]
  /\ calls = [t \in Threads |-> 0]

-----------------------------------------------------------------------------
(* The steps a call is made of                                               *)

\* The exported conversions and the pair of CCSIDs each converts between: the
\* IgnoreNull...FromUtf8 and FromUtf16 call the conversions to those.
ToUtf8 == {"SQL400ToUtf8", "SQL400FromUtf8", "SQL400IgnoreNullToUtf8", "SQL400IgnoreNullFromUtf8"}
ToUtf16 == {"SQL400ToUtf16", "SQL400FromUtf16", "SQL400IgnoreNullToUtf16", "SQL400IgnoreNullFromUtf16"}
AnyToAny == {"SQL400AnyToAny", "SQL400AnyFromAny", "SQL400IgnoreNullAnyToAny", "SQL400IgnoreNullAnyFromAny"}

\* One of the pair is the CCSID of the process, Pair the other.
Pair(fn) == CASE fn \in ToUtf8 -> "1208"
              [] fn \in ToUtf16 -> "1200"
              [] OTHER -> setting.job

IsConversion(fn) == fn \in ToUtf8 \cup ToUtf16 \cup AnyToAny

\* The connection a copy of function fn on c is converted for: the literal 0 of
\* some calls is the number of a slot all the same.
SlotOf(copy, c) == IF copy.handle = "0" THEN 0 ELSE c

Utf == setting.ccsid \in {"1208", "1200"}
Uses400(fn) == Functions[fn].works = "ccsid" /\ ~Utf

\* The work under the lock, up to DB2's answer or the search for a converter.
Work(fn, c, p) ==
  IF IsConversion(fn) THEN <<Step("open", fn, c, p, 0)>>
  ELSE (IF Uses400(fn)
        THEN [i \in DOMAIN Conversions[fn].in |->
                LET copy == Conversions[fn].in[i]
                IN  Step("copyin", fn, SlotOf(copy, c), copy.param, 0)]
        ELSE <<>>) \o <<Do("db2", fn, c)>>

Lock(fn) == CASE Functions[fn].locks \in {"stmt", "conn"} -> "lock"
              [] Functions[fn].locks = "global" -> "init_lock"
              [] OTHER -> "none"

\* A call of an exported function; p: the parameter the driver has it convert, ""
\* in a call of the client.
Enter(fn, c, p) ==
  (IF Lock(fn) = "none" THEN <<>> ELSE <<Do(Lock(fn), fn, c)>>) \o Work(fn, c, p)

\* The handle the trace of a failed call asks about is the one it was made with,
\* except that SQLFreeStmt has already cleared the slot of its statement.
DiagSlot(fn, c) == IF fn = "SQLFreeStmt" THEN 0 ELSE c

Trace(fn, c, ok) ==
  IF ~setting.trace \/ fn = "SQLOverrideCCSID400" THEN <<>>
  ELSE <<Do("dump", fn, c)>> \o
       (IF ok \/ Dumps[fn].type = "none" THEN <<>>
        ELSE <<Do("diag", fn, DiagSlot(fn, c))>>)

\* Mutant of Leave: the trace of a function under the global lock is printed
\* before init_unlock.
LeaveTraced(fn, c, ok) ==
  CASE Lock(fn) = "none" -> Trace(fn, c, ok)
    [] Lock(fn) = "lock" -> Trace(fn, c, ok) \o <<Do("unlock", fn, c)>>
    [] OTHER -> Trace(fn, c, ok) \o <<Do("init_unlock", fn, c)>>

\* The trace is printed under the lock of a connection, but after the global
\* lock has been given up.
Leave(fn, c, ok) ==
  CASE Lock(fn) = "none" -> Trace(fn, c, ok)
    [] Lock(fn) = "lock" -> Trace(fn, c, ok) \o <<Do("unlock", fn, c)>>
    [] OTHER -> <<Do("init_unlock", fn, c)>> \o Trace(fn, c, ok)

\* What a function may tell of DB2's answer: libdb400_SQLStatistics has no return
\* statement, so its result is undefined.
Told(fn, ok) == IF fn = "SQLStatistics" /\ Uses400(fn) THEN BOOLEAN ELSE {ok}

\* What follows DB2's answer: the copies are freed in any case, text is converted
\* back only after a success, and an environment is given its CCSID.
After(fn, c, ok, told) ==
  (IF Uses400(fn)
   THEN (IF Conversions[fn].freed = <<>> THEN <<>> ELSE <<Do("free", fn, c)>>)
        \o (IF ok THEN [i \in DOMAIN Conversions[fn].out |->
                          LET copy == Conversions[fn].out[i]
                          IN  Step("copyout", fn, SlotOf(copy, c), copy.param, 0)]
            ELSE <<>>)
   ELSE <<>>)
  \o (IF fn \in {"SQLAllocEnv", "SQLAllocHandle"} /\ ok THEN <<Do("env", fn, 0)>> ELSE <<>>)
  \o Leave(fn, c, told)

At(t, do) == todo[t] # <<>> /\ Head(todo[t]).do = do

\* The step of t is over and the thread does more before what it had left.
Then(t, more) == todo' = [todo EXCEPT ![t] = more \o Tail(@)]

-----------------------------------------------------------------------------
(* A client calls, and locks                                                 *)

Call(t) ==
  /\ todo[t] = <<>> /\ calls[t] < MaxCalls
  /\ \E call \in setting.menu[t] : todo' = [todo EXCEPT ![t] = Enter(call[1], call[2], "")]
  /\ calls' = [calls EXCEPT ![t] = @ + 1]
  /\ sent' = [sent EXCEPT ![t] = {}]
  /\ UNCHANGED <<setting, mutex, glock, converter, copies>>

\* init_table_lock; the lock of slot 0 may fail, which nobody looks at.
TableLock(t) ==
  LET c == Head(todo[t]).c
      fails == c = 0 /\ ~setting.slot0
  IN  /\ At(t, "lock")
      /\ fails \/ MayLock(mutex[c], t)
      /\ mutex' = [mutex EXCEPT ![c] = IF fails THEN @ ELSE Locked(@, t)]
      /\ Then(t, <<>>)
      /\ UNCHANGED <<setting, glock, converter, copies, sent, calls>>

TableUnlock(t) ==
  /\ At(t, "unlock")
  /\ mutex' = [mutex EXCEPT ![Head(todo[t]).c] = Unlocked(@, t)]
  /\ Then(t, <<>>)
  /\ UNCHANGED <<setting, glock, converter, copies, sent, calls>>

InitLock(t) ==
  /\ At(t, "init_lock")
  /\ MayLock(glock, t)
  /\ glock' = Locked(glock, t)
  /\ Then(t, <<>>)
  /\ UNCHANGED <<setting, mutex, converter, copies, sent, calls>>

InitUnlock(t) ==
  /\ At(t, "init_unlock")
  /\ glock' = Unlocked(glock, t)
  /\ Then(t, <<>>)
  /\ UNCHANGED <<setting, mutex, converter, copies, sent, calls>>

-----------------------------------------------------------------------------
(* DB2 and the trace                                                         *)

\* DB2 answers; an SQL400 function that is no conversion is one such answer.
Db2Answers(t) ==
  LET s == Head(todo[t])
  IN  /\ At(t, "db2")
      /\ \E ok \in BOOLEAN : \E told \in Told(s.fn, ok) :
           /\ s.fn = "SQLGetDiagRec" /\ ok => Len(todo[t]) <= MaxTodo
           /\ Then(t, After(s.fn, s.c, ok, told))
      /\ UNCHANGED <<setting, mutex, glock, converter, copies, sent, calls>>

\* custom_SQLSetEnvCCSID calls the exported SQLSetEnvAttr, with an attribute
\* that is no text, while the thread holds the global lock.
SetEnvCCSID(t) ==
  /\ At(t, "env")
  /\ Then(t, <<Do("db2", "SQLSetEnvAttr", 0)>>)
  /\ UNCHANGED <<setting, mutex, glock, converter, copies, sent, calls>>

\* dump_...: the text of the thread goes out under the global lock (dev_dump).
Dump(t) ==
  /\ At(t, "dump")
  /\ MayLock(glock, t)
  /\ Then(t, <<>>)
  /\ UNCHANGED <<setting, mutex, glock, converter, copies, sent, calls>>

\* printf_sql_diag calls the exported SQLGetDiagRec.
Diag(t) ==
  /\ At(t, "diag")
  /\ Then(t, Enter("SQLGetDiagRec", Head(todo[t]).c, ""))
  /\ UNCHANGED <<setting, mutex, glock, converter, copies, sent, calls>>

-----------------------------------------------------------------------------
(* Text in another CCSID                                                     *)

\* non_utf_copy_in: malloc, then the exported SQL400IgnoreNullAnyToAny.  A
\* parameter that is text for some attributes only may be left as it is.
CopyIn(t) ==
  LET s == Head(todo[t])
  IN  /\ At(t, "copyin")
      /\ \/ /\ copies' = [copies EXCEPT ![t] = @ \cup {<<s.fn, s.p>>}]
            /\ Then(t, Enter("SQL400IgnoreNullAnyToAny", s.c, s.p))
         \/ /\ Conversions[s.fn].when = "text"
            /\ Then(t, <<>>)
            /\ UNCHANGED copies
      /\ UNCHANGED <<setting, mutex, glock, converter, sent, calls>>

\* non_utf_copy_out: the buffer it allocates is freed where it returns.
CopyOut(t) ==
  LET s == Head(todo[t])
  IN  /\ At(t, "copyout")
      /\ \/ Then(t, Enter("SQL400IgnoreNullAnyFromAny", s.c, s.p))
         \/ Conversions[s.fn].when = "text" /\ Then(t, <<>>)
      /\ UNCHANGED <<setting, mutex, glock, converter, copies, sent, calls>>

\* non_utf_copy_in_free for each parameter the function frees.
CopyFree(t) ==
  LET s == Head(todo[t])
      freed == {<<s.fn, Conversions[s.fn].freed[i]>> : i \in DOMAIN Conversions[s.fn].freed}
  IN  /\ At(t, "free")
      /\ copies' = [copies EXCEPT ![t] = @ \ freed]
      /\ Then(t, <<>>)
      /\ UNCHANGED <<setting, mutex, glock, converter, sent, calls>>

Lowest(S) == CHOOSE i \in S : \A j \in S : i <= j

\* Mutant of Idle: a converter is never used a second time.
NoneIdle(pair) == {}

\* The converters custom_iconv_open may return: one of the pair nobody is
\* marked as using, else one that was never opened.
Idle(pair) == {i \in DOMAIN converter : converter[i].pair = pair /\ ~converter[i].in_progress}
Unopened == {i \in DOMAIN converter : converter[i].pair = "none"}

\* custom_iconv_open returns -1 for two equal CCSIDs, or one that is 0, before it
\* locks anything; equal ones stand for both.  The driver converts between the CCSIDs of the process and of
\* the job; a client names those of its own conversions.
Refusable(s) == s.p = "" \/ setting.ccsid = setting.job
Openable(s) == s.p = "" \/ setting.ccsid # setting.job

\* The conversion fails and leaves the empty string the buffer was cleared to.
Refuse(t) ==
  LET s == Head(todo[t])
  IN  /\ At(t, "open")
      /\ Refusable(s)
      /\ Then(t, Leave(s.fn, s.c, FALSE))
      /\ UNCHANGED <<setting, mutex, glock, converter, copies, sent, calls>>

\* custom_iconv_open, from init_lock to init_unlock.  With no room left the
\* conversion fails as well.
OpenConverter(t) ==
  LET s    == Head(todo[t])
      pair == Pair(s.fn)
      S    == IF Idle(pair) # {} THEN Idle(pair) ELSE Unopened
  IN  /\ At(t, "open")
      /\ Openable(s)
      /\ MayLock(glock, t)
      /\ IF S = {}
         THEN /\ Then(t, Leave(s.fn, s.c, FALSE))
              /\ UNCHANGED converter
         ELSE /\ converter' = [converter EXCEPT ![Lowest(S)].pair = pair]
              /\ Then(t, <<Step("convert", s.fn, s.c, s.p, Lowest(S))>>)
      /\ UNCHANGED <<setting, mutex, glock, copies, sent, calls>>

\* Mutant of MayConvert: the mutex of the converter is not taken.
MayConvertAtOnce(i, t) == TRUE

MayConvert(i, t) == MayLock(converter[i].lock, t)

\* custom_iconv: the mutex, the mark, iconv.
Convert(t) ==
  LET s == Head(todo[t])
  IN  /\ At(t, "convert")
      /\ MayConvert(s.i, t)
      /\ converter' = [converter EXCEPT ![s.i].lock = Locked(@, t), ![s.i].in_progress = TRUE]
      /\ Then(t, <<Step("iconv", s.fn, s.c, s.p, s.i)>>)
      /\ UNCHANGED <<setting, mutex, glock, copies, sent, calls>>

\* Mutant of Released: the mark stays.
ReleasedButMarked(conv, t) == [conv EXCEPT !.lock = Unlocked(@, t)]

Released(conv, t) == [conv EXCEPT !.in_progress = FALSE, !.lock = Unlocked(@, t)]

\* iconv returns, -1 where it does not know a CCSID, meets a byte that is not valid
\* in it or fills the target before the text is over: what it has not written
\* stays zero, and custom_iconv hands the result on.
IconvReturns(t) ==
  LET s == Head(todo[t])
  IN  /\ At(t, "iconv")
      /\ converter' = [converter EXCEPT ![s.i] = Released(@, t)]
      /\ \E ok \in {TRUE, setting.whole} :
           /\ sent' = [sent EXCEPT ![t] = IF ok /\ s.p # "" THEN @ \cup {s.p} ELSE @]
           /\ Then(t, Leave(s.fn, s.c, ok))
      /\ UNCHANGED <<setting, mutex, glock, copies, calls>>

-----------------------------------------------------------------------------
\* The steps of a call that has started.
PathStep(t) ==
  \/ TableLock(t) \/ TableUnlock(t)
  \/ InitLock(t) \/ InitUnlock(t)
  \/ Db2Answers(t) \/ SetEnvCCSID(t)
  \/ Dump(t) \/ Diag(t)
  \/ CopyIn(t) \/ CopyOut(t) \/ CopyFree(t)
  \/ Refuse(t) \/ OpenConverter(t) \/ Convert(t) \/ IconvReturns(t)

\* The clients may stop calling once every call has returned.
Quiescent == (\A t \in Threads : todo[t] = <<>>) /\ UNCHANGED vars

Next == (\E t \in Threads : Call(t) \/ PathStep(t)) \/ Quiescent

Spec == Init /\ [][Next]_vars

\* A thread inside the driver keeps running unless it stays blocked on a lock.
FairSpec == Spec /\ \A t \in Threads : WF_vars(PathStep(t))

-----------------------------------------------------------------------------
(* Properties                                                                *)

PathTypeOK ==
  /\ setting \in Settings
  /\ mutex \in [Slots -> Mutex]
  /\ glock \in Mutex
  /\ \A i \in DOMAIN converter : converter[i].lock \in Mutex
  /\ \A t \in Threads : \A i \in DOMAIN todo[t] : todo[t][i].fn \in DOMAIN Functions
  /\ calls \in [Threads -> 0 .. MaxCalls]

InDb2(t, c) == At(t, "db2") /\ Head(todo[t]).c = c

\* The functions that may enter DB2 on a connection another thread is using:
\* those about the environment, the diagnostics and the end of a transaction,
\* and allocation and release.
Unserialised ==
  {"SQLDataSources", "SQLDataSourcesW", "SQLEndTran", "SQLError", "SQLErrorW",
   "SQLGetDiagField", "SQLGetDiagFieldW", "SQLGetDiagRec", "SQLGetDiagRecW",
   "SQLGetEnvAttr", "SQLReleaseEnv", "SQLSetEnvAttr", "SQLStartTran", "SQLTransact",
   "SQLAllocConnect", "SQLAllocEnv", "SQLAllocHandle", "SQLAllocStmt", "SQLFreeConnect",
   "SQLFreeEnv", "SQLFreeStmt", "SQLFreeHandle", "SQL400Version", "SQLOverrideCCSID400",
   "SQL400Connect", "SQL400ConnectW", "SQL400pConnect", "SQL400pConnectW",
   "SQL400ConnectUtf8", "SQL400pConnectUtf8", "SQL400ConnectUtf16", "SQL400pConnectUtf16"}

\* Two threads are inside DB2 on one connection only when one of them is in a
\* function that is known to take no lock of the connection: none of the other
\* generated functions was left without it (src/README.md: "only one
\* operation/statement will be running against a given QSQSRVR job at a time").
OnlyUnserialisedOverlap ==
  \A t, u \in Threads, c \in Conns :
    t # u /\ InDb2(t, c) /\ InDb2(u, c) =>
      \/ Head(todo[t]).fn \in Unserialised
      \/ Head(todo[u]).fn \in Unserialised

\* custom_iconv: two threads are never inside iconv with one converter, although
\* custom_iconv_open gives both the same one when neither has marked it yet.
OneThreadPerConverter ==
  \A t, u \in Threads :
    t # u /\ At(t, "iconv") /\ At(u, "iconv") => Head(todo[t]).i # Head(todo[u]).i

\* The table of converters, which nothing ever shrinks, holds at most one
\* converter of a pair for each thread: however many conversions there are, it
\* does not fill up (IBMiCCSID, PASECLIMAXCCSID).
ConvertersBounded ==
  \A i \in DOMAIN converter :
    Cardinality({j \in DOMAIN converter : converter[j].pair = converter[i].pair /\
                                          converter[j].pair # "none"}) <= Cardinality(Threads)

\* DB2 is given every text parameter whole, not the empty or truncated string a
\* conversion leaves that is refused or stops early: non_utf_copy_in ignores its
\* result, so text is lost in silence otherwise.  It takes what clients must see
\* to: a process and a job of different CCSIDs, text iconv can convert, and a
\* table of converters with room for one of each pair for each thread, which
\* races for the same converter never fill.
TextReachesDb2 ==
  /\ setting.ccsid # setting.job /\ setting.whole
  /\ setting.pool >= 3 * Cardinality(Threads)
  => \A t \in Threads :
       At(t, "db2") => \A copy \in copies[t] : copy[2] \in sent[t]

\* Every argument of the call a thread makes is where DB2 looks for it, as wide
\* as DB2 reads it (PaseCliILE_gen.c), and the trace follows as an address only
\* what DB2 was given as an address (PaseCliDump_gen.c): the files were
\* generated from one list of prototypes.
GeneratedFilesAgree ==
  \A t \in Threads :
    /\ At(t, "db2") /\ Head(todo[t]).fn \in DOMAIN IleCalls =>
         LET fn == Head(todo[t]).fn
         IN  /\ ArgumentsAgree(fn)
             /\ Len(IleCalls[fn].sig) = Len(Functions[fn].params)
    /\ At(t, "dump") /\ Head(todo[t]).fn \in DOMAIN IleCalls =>
         LET fn == Head(todo[t]).fn
         IN  Dumps[fn].memory =
               {Functions[fn].params[i] :
                  i \in {j \in DOMAIN Functions[fn].params : IleCalls[fn].sig[j] = "ARG_MEMPTR"}}

\* A call that has returned has freed every copy and holds no mutex, through
\* conversions and traces that call exported functions in their turn.
NothingLeftBehind ==
  \A t \in Threads : todo[t] = <<>> =>
    /\ copies[t] = {}
    /\ glock.owner # t
    /\ \A h \in Slots : mutex[h].owner # t
    /\ \A i \in DOMAIN converter : converter[i].lock.owner # t

\* Every call returns: the locks of connections, of slot 0, of the process and of
\* the converters are taken in an order in which nobody waits for himself.
CallsReturn == \A t \in Threads : todo[t] # <<>> ~> todo[t] = <<>>
=============================================================================
