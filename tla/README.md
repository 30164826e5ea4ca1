# db2sock: a TLA+ model of the PASE DB2 driver

This directory holds TLA+ modules, TLC configurations and TLAPS proofs about
db2sock, the replacement `libdb400.a` for IBM i PASE (`src/db2`) and the JSON
toolkit on top of it (`src/toolkit`). The model is translated from the C code;
`PROJECT.json` gives for every definition the lines it stands for.

## The system

| Component | Source | State it keeps | Operations | Hard behaviour |
| --- | --- | --- | --- | --- |
| Resource table | `db2/PaseCliInit.c`, `.h` | `IBMiTable[handle]`: owner handle, its connection, thread and counter of the call in progress, persistent key, a recursive mutex | `init_table_ctor`, `_dtor`, `_lock`, `_unlock`, `_in_progress`, `_find_stmt`, `_add_hash`, `_hash_2_conn`, `_hash_active`; `init_lock`, `init_unlock` | every thread of the process, two levels of locks, slots re-used with the handle numbers |
| CLI functions | `db2/PaseCliAsync_gen.c` (written by `gen.py`) | none of their own | 143 exported `SQL...` functions | the order of lock, DB2 call, table update; DB2 refusing |
| Asynchronous forms | same file | one thread per call | `SQL...Async`, `SQL...Thread`, `SQL...Join` | callbacks, joins that block, joins that poll |
| Aggregates | `db2/SQL400Connect.c`, `SQL400Cmd.c` | two statics of the environment | `SQL400Connect`, `pConnect`, `Close`, `pClose`, `CloseAllStmts`, `Cmd` | several calls under one lock; persistent connections found by key |
| Initialisation | `db2/PaseCliInit.c`, `SQL400Connect.c` | the flag of the global lock, CCSIDs, trace setting, service program mark, `env_hndl` | `init_CCSID400`, `init_cli_srvpgm`, `custom_SQLOverrideCCSID400` | flags tested twice, or once, by every thread |
| Conversion pool | `db2/PaseCliInit.c` | `IBMiCCSID[]`: converters and their mutexes | `custom_iconv_open`, `custom_iconv`, `custom_iconv_close` | a close beside a conversion, a full pool |
| ILE layer | `db2/PaseCliILE_gen.c`, `PaseCliLibDB400_gen.c` | lazily resolved symbols | `ILE_SQL...`, `libdb400_SQL...` | argument lists with 16-byte pointers; text copied, converted and freed |
| Trace | `db2/PaseCliDump_gen.c`, `PaseCliPrintf.c`, `PaseCliDev*.c` | an open file, a lock | `dump_SQL...` | a trace line that calls the driver again |
| Toolkit run | `toolkit/PaseTool.c` | node tree of a request, current connection | `tool_run`, `tool_key_conn_run`, `tool_key_close_run`, ... | which connection a request uses and who closes it |
| Toolkit data | `toolkit/PaseTool.c`, `PaseToIle.c`, `PaseToMem.c`, `PaseTo400.c` | ILE argument list under construction | layout, conversions | alignment, digits, limits |
| JSON parser | `toolkit/parser-json/PaseJson.c` | array of keys and values | `json_...`, `custom_SQL400Json` | growth of the array, nesting |
| Procedures, stubs, front ends | `toolkit/proc*`, `cgi`, `fastcgi` | none | entry points | none |

How they interact. A client calls an exported function. The function takes
either the global lock (`threadMutexLock`: allocation and release of handles)
or the mutex of one slot of the table (every other call on a handle that is
locked at all: flag 0 asks for the slot of the handle itself, flag 1 for the
slot of the connection a statement is filed under), calls DB2 through the ILE
layer, updates the table and returns. DB2's own state (which handles exist,
under which connection) is changed by the same calls and the table has to keep
up with it: DB2 gives handle numbers out again as soon as they are free, and a
disconnect frees statements without a call that would tell the driver. The
asynchronous forms make the same calls in threads of their own, which write
themselves into the slot they lock, where `SQL...Join` looks for them. The
aggregates call the plain functions while they hold the mutex of the connection.
The toolkit is a client of all of them, and is loaded and called by
`SQL400Json` with the mutex of the connection held.

What makes each component correct:

* Table and CLI functions: at most one locked call inside DB2 per connection;
  a lock is released by whoever took it, although lock and unlock look the slot
  up separately; the table agrees with DB2 whenever nobody is changing it; no
  release takes another client's handle away; every call returns. Seen from
  outside: a client has connections and statements that stay usable, and one
  call at a time on each connection (`Db2Sessions`).
* The generated files: for each function the wrapper, the ILE call, the
  conversions and the trace are about the same handle, lock and parameters.
* Aggregates: a key names one connection, or when threads open it at once no
  more than threads, each connected; only `SQL400pClose` ends it; connects and closes leave no handle behind and return.
* Asynchronous forms: a callback runs, with no lock held; threads exit; a join
  that waits returns, one that must not wait does not.
* Initialisation: nobody enters the global lock before it exists; all threads
  use one CCSID; the environment is told what it must know before a connection
  hangs under it.
* Conversion pool: a converter is used by one thread at a time, their number
  stays below a bound, text that reaches DB2 is converted, copies are freed.
* Toolkit: the answer is one JSON text whatever fails; connections and
  statements are given back; every element of the document runs; the values of a
  called program are read where they were written and show what was given, and no
  two arguments overlap.

## The modules

| Module | Extends | Models |
| --- | --- | --- |
| `PaseCliInit` | | the table and its functions, as operators on a table value; recursive mutexes |
| `Db2Cli` | `PaseCliInit` | external: what the driver relies on from DB2 |
| `Db2Sessions` | | abstract: what the exported functions promise, without table, locks and steps |
| `PaseCliCall` | `Db2Cli` | the exported functions, in six shapes, as calls of several threads that allocate and release handles; implements `Db2Sessions` |
| `SQL400Connect` | `PaseCliCall` | adds the aggregates as further calls of the same threads; implements `Db2Sessions` too |
| `PaseCliAsync` | `PaseCliCall` | adds threads created for a call, callbacks and joins |
| `CliFunctions` | | every exported function: its lock, who does the work, its forms, its parameters |
| `LibDB400` | | every function's conversions in a CCSID that is not UTF |
| `IleFunctions` | | every function's argument list for DB2: members of the structure and signature |
| `DumpFunctions` | | every function's trace: what it follows as memory, whose diagnostics it asks for |
| `PaseCliPath` | the four above, `PaseCliInit` | the steps inside one call of any exported function, on handles that stay |
| `PaseCliStartup` | `PaseCliInit` | the first calls of a process |
| `PaseJson` | | the passes of the parser over a document, from lexemes to the nodes of a request |
| `PaseToIle` | | the layout of an ILE argument list, as operators on a layout |
| `PaseTool` | `Db2Cli`, `PaseJson`, `PaseToIle` | the run of a request: connections, queries, fetches, commands, close, admin, job log |
| `PaseData` | `PaseToIle` | what is stored of a value (packed, zoned, integers, text, binary) and shown of what is stored |
| `PaseToolPgm` | `PaseTool`, `PaseData` | the call of a program: two walks over its parameters |
| `PaseToolRun` | `PaseToolPgm` | every step of a request, and the properties |
| `MC...` | the module they name | threads, handles, operations, programs, documents for TLC |
| `PaseCliCall_proofs` | `PaseCliCall` | lemmas about the operators, type correctness, the inductive invariant of `PaseCliCall`, its safety properties |
| `PaseCliCall_sessions` | `PaseCliCall_proofs` | the refinement of `Db2Sessions` |
| `PaseCliAsync_proofs` | `PaseCliAsync`, `PaseCliCall_proofs` | the invariant carried over to jobs, callbacks and joins |
| `SQL400Connect_proofs` | `SQL400Connect`, `PaseCliCall_proofs` | the inductive invariant of the aggregates beside the plain calls, their safety properties, their refinement of `Db2Sessions` |
| `PaseCliStartup_proofs` | `PaseCliStartup` | the global lock, the CCSID, the trace list, the order of environment and connections |
| `PaseCliPath_proofs` | `PaseCliPath` | the converters; locks, copies and text of every exported function |
| `PaseToIle_proofs` | `PaseToIle` | the layout of argument lists of any length |
| `PaseToolRun_proofs` | `PaseToolRun`, `PaseToIle_proofs` | the connections, statements, errors and arguments of any requests |

### The calls: PaseCliCall, SQL400Connect, PaseCliAsync

State and code. `table` is `IBMiTable` without its mutexes, `mutex` their owners
and counts, `glock` the owner of `threadMutexLock`, `db2` the handles DB2 knows,
`known` the handles some client holds. `call[t]` is the program counter and the
locals of thread `t`: the handle it passed (`h`), the connection DB2 files it
under (`c`), the slot whose mutex it asked for (`m`), read from the table before
the thread blocks, as `pthread_mutex_lock(&IBMiTable[IBMiTable[handle].hdbc]...)`
does. A call is split into the steps between which another thread can act:

* locked call: begin (argument of the lock evaluated) / lock obtained and slot
  marked (`TableLock`) / DB2 has answered, slot unmarked, unlocked, returned;
* `SQLDisconnect`, `SQLFreeConnect`: a check for a persistent key before that;
* allocation: global lock and DB2 (`AllocInDb2`) / constructor, unlock, return
  (`AllocInTable`); release the same with the destructor (`FreeInDb2`,
  `FreeInTable`).

What DB2 does between two of these steps is invisible to the other threads, so
one step stands for it; the marking of a slot, also unlocked against readers,
is one step with the lock because only `SQL...Join` reads it without the mutex.

The generator writes the exported functions in six shapes, and one
representative of each is an operation here: `AllocConnect`, `AllocStmt`;
`FreeStmtDrop`, `FreeStmtClose`, `FreeConnect`; `StmtCall` (the flag 1
functions, `SQLExecDirect` and the like); `ConnCall` (the flag 0 functions,
`SQLSetConnectAttr` and the like) and `Connect`, the one that changes what DB2
answers later; `Disconnect`; `EndTran` (the functions that lock nothing). Which
function has which shape is in `CliFunctions`.

Clients. `Careful` says that nobody releases or closes a handle while another
thread is in a call on it, frees a connection while it is connected, uses a
statement while another thread closes its cursor with `SQLFreeStmt`, or opens
the persistent connection of a key that another thread is closing. Two threads
may open one key at once. A client
whose disconnect is refused, or finds a persistent connection, goes on with the
connection and the statements it had (`KeptUnder`). The driver checks none of
this, and each of them breaks a property at once when
allowed (see "Findings and limits"). `Faults` lets DB2 refuse a request.

The abstract specification. `Db2Sessions` has four variables: the connection a
handle belongs to, the connected connections, the handle each thread is at work
on, the handles the clients hold. Its actions are those of a service without a
table: a connection or a statement comes and goes, handles are handed out and
given back, a thread enters, and leaves with its connection as it was, connected,
or disconnected and without its statements. `PaseCliCall` maps to it with
`SessionOwner` (DB2's parent of a handle), `SessionConnected` and `SessionInside`
(a thread is inside between lock and unlock). That a statement is entered only
while nobody is inside on its connection is then a consequence of the mutex
found through the table, and that a session ends only with nobody in it, a
consequence of the lock of `SQLDisconnect`.

`SQL400Connect` maps to the same specification (`ImplementsVisits`), with the
aggregates as visits: a thread is inside from the lock of an aggregate to its
unlock (`VisitInside`), through all the plain calls it makes there, except that a
close is outside once it has disconnected (`Closed`). What an aggregate has
half done is not to be seen: the connection a connect is making is connected
only when the connect returns, or when it has entered its key and another thread
can find the connection by it (`ConnectsBehind`; `Appear` of `Db2Sessions`), and the statement of its library
list does not exist (`CommandOf`). `Db2Sessions` thus says of `SQL400Connect` and
`SQL400Close` what it says of one plain call.

### Every function: PaseCliPath

Four generated files hold one function each for every function of DB2, and a
call goes through all of them. `CliFunctions`, `LibDB400`, `IleFunctions` and
`DumpFunctions` have one definition for each of those functions, which says what
the code of the function decides; a function and its wide form share one where
they decide the same. `Functions`, `Conversions`, `IleCalls` and
`Dumps` of `PaseCliPath` collect them.

`PaseCliPath` makes any of these calls, step by step. `todo[t]` is what thread
`t` still has to do, next step first: take the lock of the function, copy and
convert each text argument (a call of an exported conversion function, which
opens or re-uses a converter, takes its mutex, uses `iconv`, marks it idle),
enter DB2, convert what comes back, free the copies, trace, and, when DB2
refused, ask `SQLGetDiagRec` for the trace, which is a call like any other.
`converter` is `IBMiCCSID`, `copies` and `sent` are the buffers of a call,
`setting` what a process is started with: its CCSID and the job's, whether `iconv`
converts every text to the end, the trace, the size of the pool, whether a lock on
the mutex of slot 0, which nothing initialises, works.

A conversion may fail: `custom_iconv_open` refuses equal or unknown CCSIDs before
it locks anything (`Refuse`) and finds no room in a full pool, and `iconv` may stop
early (`IconvReturns`). The driver's own conversions are between the CCSIDs of
process and job, so the setting decides; a client that calls an exported conversion
names its CCSIDs itself, so any such call may be refused. Some parameters are text
for one field or attribute only (`SQLGetDescField` for `SQL_DESC_NAME`); their
`when` is `"text"` and the call may leave them as they are. `libdb400_SQLStatistics`
has no return statement: what its caller sees of DB2's answer is either (`Told`).

### The first calls: PaseCliStartup

`boot` is `threadMutexLockFlag`, `ccsid` is `db2_pase_ccsid`, `loaded` is
`db2_cli_srvpgm_mark`; `env_hndl` and `env_server_mode` are the two statics of
`SQL400Connect.c`. All of them are tested without a lock. `trace` is the list
of directories of `DBXSRC`: a loop puts a NUL at each colon, in the string of
`getenv` itself. `todo` and `local` are a thread's steps and locals. A test and
the assignment that follows are two steps, so two threads can both pass the
test; `db2` records what the environment had been told when each connection was
made.

### The toolkit: PaseJson to PaseToolRun

`PaseJson` takes a document as a sequence of lexemes and makes the key array,
the transformation that turns arrays into repeated keys, and the calls that
build the list of nodes (`nodes`, `tool->first`). `PaseTool` walks that list:
`pc` and `at` are where the run is, `rc` the last result, `conn` is
`tool->tconn`, `work` the query or command under way, `pgm` the program, `out`
the brackets of the answer, `pool` the persistent connection of a label. Each
call of DB2 is a step with every answer DB2 may give. `log` is history for the
properties. One client runs one or two requests after each other, because a
request is sequential code: what interleaves is the failure of each of its calls
with the shape of its document.

`PaseToIle` is the layout of the argument list of a program: registers and
values side by side in an argument vector, a spill area that grows behind it,
copies of structures for arrays. `PaseToolPgm` uses its operators for the walk
before the call and for the one after, with `dim`, `dou` and `dob`. `PaseData`
has the conversions of both walks: a packed number is a sequence of half bytes,
a zoned one of zones and digits, text one of characters, so that the index
arithmetic of `PaseToIle.c` is there and the EBCDIC tables are not. A value
written keeps its data in `pgm.written`; the program leaves them alone, and the
second walk takes what it finds at the offset it computes. At the end of the
module is the reference: what a number is worth and which values a type can
hold, stated without the conversions.

## The runs

| Run | Instance | Properties and what they show |
| --- | --- | --- |
| `call_shared` | 2 threads, 3 calls each, handles 2..5, one open connection with a statement, one persistent connection, DB2 may refuse | `OneCallPerConnection`, `NothingHeldAfterReturn`, `TableAgreesWithDb2`, `KnownHandlesAreLive` and the refinement `ImplementsSessions` |
| `call_returns` | the same with 2 calls each, `SQLFreeStmt` without drop, weak fairness | `CallsReturn`; no lock kept, even when statements lose their connection in the table |
| `connect_shared` | 2 threads, 3 calls each, handles 2..4, one key, one open connection with a statement, tidy clients | `KeyedByThreads`, `KeyedIsConnected`, `OnlyPCloseCloses`, the properties of plain calls next to the aggregates, and the refinement `ImplementsVisits`, which says of the aggregates too that they are alone on their connection |
| `connect_returns` | 2 threads, 2 calls each, one connection with a statement, two keys, one of them in UTF-16, library list, weak fairness, DB2 does not refuse | `CallsReturn`, and `NothingOrphaned`: no handle of DB2 belongs to nobody |
| `async_jobs` | a client and 2 threads, two connections (one persistent), 2 calls each, both join flags | `CallbackHoldsNothing`, `CallbackRan`, `JobsExit`, `JoinsReturn` |
| `cli_functions` | 2 threads, one call each, from menus that hold every function, in six settings | `OnlyUnserialisedOverlap`: two calls on one connection meet in DB2 only when one takes no lock or the other one; `OneThreadPerConverter`, `ConvertersBounded`; `TextReachesDb2` where CCSIDs, `iconv` and pool allow it, `NothingLeftBehind`; `GeneratedFilesAgree` for every function; `CallsReturn`, with the endless story of `MaxTodo` cut |
| `startup` | 2 threads, 7 pairs of first calls | `GlobalLockExclusive`, `OneCcsid`, `ConnectionsAfterEnvironment`, `DirectoriesListed`, `StartupReturns` |
| `toolkit` | 24 documents, alone or two in a row, with a given connection or without, every refusal of DB2 | `OutputNests` (every bracket of the answer is closed; commas and the quoting of values are not modelled), `ConnectionsReturned`, `StatementsReported`, `EveryElementRuns`, `ReadWhereWritten`, `ValuesComeBack`, `ArgumentsApart` |
| `freestmt_close` | violation | a statement after `SQLFreeStmt(SQL_CLOSE)` runs beside another of its connection |
| `stale_close` | violation | a close finds the stale slot of a statement that went with a disconnect, and wipes the keyed connection that has its number |
| `async_poll` | violation | polling for an exited thread never ends |
| `async_nowait` | violation | a join that must not wait waits |

Bounds of the calls. Two threads are enough for two calls to meet on one
connection, and every property about exclusion is about two calls; a third
thread of the asynchronous run is the client that joins. Three calls per thread
let one thread disconnect or free a handle, allocate again, get the same number
and use it while the other is at work, which is the longest story the hazards
tell. The handles leave at least one number free, so that allocations succeed,
get a number used before, and fail when there is none. One key suffices because
keys are only compared for equality; two clients use it. A key in UTF-16, which no
search finds, is a second kind, and `connect_returns` has one of each. Six calls on three
numbers let a key get three slots if more than two were possible (`KeyedByThreads`),
with the connection that was open at the start closed first. `connect_shared` takes
`TidySpec`: a `SQLDisconnect` that DB2 grants leaves no statement behind. Without
that the run would end as `stale_close` does. `MaxCalls`, `MaxHandle`
and the sets of operations are the only bounds. Thread symmetry is used where no
temporal property with fairness is checked.

Bounds of `cli_functions`. A call is a long sequence of steps when it converts
and traces, so the two threads do not both choose among all functions: in a UTF
CCSID any function runs beside one of each kind of lock; where text is converted
any function runs alone, and functions of every kind that waits for something
run in pairs, with room for six converters and for one. Two more settings are
those where text is lost: any function with the CCSID of the job, where every
conversion is refused, and three functions with an `iconv` that may fail.
`MaxTodo` cuts one story: the trace of a refused call in a converting CCSID asks
for diagnostics, whose text is converted, which is refused and traced, without end.
`CallsReturn` of this run says nothing of it. The run has 427,788 states.

Bounds of `startup`. The seven pairs are the first calls that write what the
other thread reads: two connects, connects beside a CCSID override with the same
or another value, raw clients beside both. Two directories are enough for one to
be lost; the CCSID of the process is 37, neither of the UTF ones.

Bounds of `toolkit`. The documents have every element of the toolkit, in the
shapes of `tests/json`: connections kept and not, queries with parameters and
fetches, commands in their three kinds, programs whose arguments alternate in
kind and size, nested structures with `dim` 2 and 3, `dou` and `dob`, and values:
packed numbers with even and odd digits, a scale of all digits or none, no digit
before the point, zeros in front, both signs and minus zero; integers of one and
two bytes at and beyond their limits; text that is cut, filled, of varying length
or empty; binary data given in part; each alone and in a copied structure. Two
requests suffice for what one leaves to the next. `MaxHandle` is 6, `MaxRows` 2.

Fairness. Each thread in the driver is weakly fair (`CallStep`, `LongStep`,
`PathStep`, `StartupStep`; in `PaseCliAsync` also the start and end of a thread
and the return of a join whose thread has exited): PASE threads are preemptive
kernel threads, so one that can run does. A thread that waits for a mutex is not
promised it: calls are bounded, so a waiting thread is let in when the others
have finished. Clients are never forced to call. `PollingSpec` adds that the
client keeps asking, as the loop of `tests/c/test2000_sql400json_async.c` does.
`connect_returns` lets DB2 refuse nothing, because a refused release leaves its
handle to nobody (see below) and `NothingOrphaned` would only say so. The
toolkit has safety properties only: it has loops over lists that do not grow.

## The proofs

Every theorem holds for every value of the constants: any number of threads, any
size of the table, any handles open at the start, any number of calls, DB2
refusing or not, any nesting of calls. They rest on the named assumptions about
the constants only, which TLC evaluates in the runs, and, where the table says
so, on the clients.

| Theorem | States | Clients |
| --- | --- | --- |
| `TypeCorrect` | `Spec => []TypeOK` | any |
| `Invariant` | `Spec => [](IInv /\ NoStray)` | careful |
| `OneAtATime` | `Spec => []OneCallPerConnection` | careful |
| `NothingKept` | `Spec => []NothingHeldAfterReturn` | careful |
| `TableAgrees` | `Spec => []TableAgreesWithDb2` | careful |
| `KnownLive` | `Spec => []KnownHandlesAreLive` | careful |
| `SessionsImplemented` | `Spec => ImplementsSessions` | careful |
| `AsyncInvariant` | `AsyncSpec => []AInv` | careful |
| `AsyncTypeCorrect` | `AsyncSpec => []AsyncTypeOK`, which no run repeats | careful |
| `CallbacksUnlocked` | `AsyncSpec => []CallbackHoldsNothing` | careful |
| `CallbacksRun` | `AsyncSpec => []CallbackRan` | careful |
| `AsyncOneAtATime` | `AsyncSpec => []OneCallPerConnection` | careful |
| `LongTypeCorrect` | `LongSpec => []TypeOK` | any |
| `LongInvariant` | `LongSpec => []LongInv` | careful, tidy |
| `LongOneAtATime` | `LongSpec => []OneCallPerConnection` | careful, tidy |
| `LongNothingKept` | `LongSpec => []NothingHeldAfterReturn` | careful, tidy |
| `LongKnownLive` | `LongSpec => []KnownHandlesAreLive` | careful, tidy |
| `KeyedConnections` | `LongSpec => []KeyedIsConnected` | careful, tidy |
| `KeysBounded` | `LongSpec => []KeyedByThreads`, about narrow keys | careful, tidy |
| `OnlyPClose` | `LongSpec => OnlyPCloseCloses`, an action property | careful, tidy |
| `NothingLeftOver` | `LongSpec => []NothingOrphaned` | careful, tidy, DB2 refuses nothing |
| `VisitsImplemented` | `LongSpec => ImplementsVisits` | careful, tidy |
| `LockExclusive` | two threads are never inside the global lock | any |
| `CcsidAgreed` | all threads use one CCSID, and DB2 is told no other | any |
| `TraceListWhole` | after one parse every directory is listed | any |
| `EnvironmentFirst` | no connection is made before DB2 was told server mode and CCSID, unless it refused to be told | any |
| `PathTypeCorrect` | `Spec => []PathTypeOK` of `PaseCliPath` | any |
| `ConnectionSerialised` | only the functions that take no lock overlap in DB2 on a connection | any |
| `EverythingReturned` | a call that returned freed its copies and holds no mutex | any |
| `TextConverted` | text reaches DB2 whole if the CCSIDs differ, `iconv` converts it and there is room for the converters | any |
| `ConverterExclusive` | a converter is used by one thread at a time | any |
| `ConvertersNeverPileUp` | no more converters of a pair than threads | any |
| `LayoutInvariant` | the layout stays good | any argument list |
| `ArgumentsNeverOverlap` | no two arguments share a byte | any argument list |
| `ByValueFits` | a value fits the room reserved for it | any argument list |
| `RequestsInvariant` | `Spec => []RInv` of `PaseToolRun` | any documents and requests |
| `EveryConnectionReturned` | `Spec => []ConnectionsReturned` | any documents and requests |
| `EveryStatementReported` | `Spec => []StatementsReported` | any documents and requests |
| `EveryErrorTold` | a request that ends with an error has told one, the second half of `EveryElementRuns` | any documents and requests |
| `EveryArgumentApart` | `Spec => []ArgumentsApart` | any documents and requests |
| `EveryValueFound` | `Spec /\ []EnoughRegisters => []ReadWhereWritten` | documents without an array of structures by value |

Careful clients (`CarefulClients`) are those of `Careful` that moreover do not
use `SQLFreeStmt` with an option other than `SQL_DROP`. The second condition is
needed: with it gone the run `freestmt_close` violates `OneCallPerConnection`.
Tidy clients (`TidyClients`) free the statements of a connection before
`SQLDisconnect` ends it. This is needed for the aggregates only: see "Findings and
limits" and `stale_close` for what a close does with the slots such a disconnect
leaves behind. Neither condition keeps threads from opening a key at once; they may
get a connection each then, and `KeysBounded` says that this is all they get. It is
about keys in one byte characters, because for the others every open makes a
connection (see "Findings and limits").

### The calls

Lock and unlock each look the mutex up in the table, under different states of
it, and no lock protects the look-up. So the four properties hold only because
the mapping from a handle to its connection does not change while a call on the
handle is on its way, and none of the four says so: the invariant `IInv` does.
Its parts are

* `Phases`, `GlobalLock`: which operation can be where, and that the global lock
  is held exactly from DB2's answer to the update of the table;
* `Mutexes`: a mutex is free, or held once by the thread that is inside DB2 on
  its connection;
* `Db2Tree`, `AllFiled`: DB2's statements hang under connected connections, and
  the table files every handle DB2 knows except the one (`Reserved`) whose
  constructor has not run;
* `Handles`, `NewHandles`: the handle of a call in flight is alive, filed, not
  reserved and under the connection recorded when the call began, or it is the
  one a release has just taken from DB2 (`Forgotten`) and the table still files;
* `Exclusive`, `Released`, `KnownAlive`: nobody else is in a call on what a
  thread releases and no client holds it, so a release disturbs nobody.

`NoStray` (DB2's numbers start at 2) is inductive on its own. `IInv` was checked
by TLC on the instance of `call_shared` before it was proved. The proof has one
lemma per kind of step: a call begins (`BeginKeeps`, from `StartKeeps`), a thread
moves on or returns (`MoveKeeps`, with `LockKeeps` and `UnlockKeeps` for the
mutexes), and one each for the steps that change DB2's handles or the mapping
(`DisconnectKeeps`, `AllocDb2Keeps`, `AllocTableKeeps`, `FreeDb2Keeps`,
`FreeTableKeeps`).

The lemmas in `PaseCliCall_proofs` say what the operators of `PaseCliInit` and
`Db2Cli` return: a slot that is marked busy or idle keeps its handle, connection,
key and mutex (`MarkBusyFacts`, `MarkIdleFacts`), constructor and destructor
return tables, lock and unlock of a mutex return mutexes.

Refinement. `PaseCliCall_sessions` shows, action by action, that a step under
`IInv` is a step of `Db2Sessions` or leaves its variables as they are. The
steps that count are the lock (`Enter`: nobody else is inside, by `Mutexes`),
the return (`Leave`), and the answers of DB2 that make or free handles.

Jobs. A thread created for a call may run long after it was created, when the
state the client saw is gone. `PaseCliAsync_proofs` adds to `IInv` that a job not
begun yet (`Pending`, `Startable`) keeps its handle from every release, and that
what it will disconnect nobody uses or holds; this is what `StartKeeps` needs
when the job begins. Callbacks and joins change nothing of the driver.

### The aggregates

`LongInv` of `SQL400Connect_proofs` is `IInv` rebuilt for calls that hold the
mutex of their connection over several critical sections of the global lock and
that make, close and hand out connections which no client knows meanwhile:

* `Places`, `TableOwner`, `Sections`: which function can be at which step, who
  owns the global lock, and that a mutex is held as often as the nesting says;
* `Tree`, `Filing`: DB2's statements hang under live connections, and a slot is
  filed as DB2 has it, is `New` (allocated, its constructor still to come) or
  `Left` (released, its destructor still to come), each with one thread that
  will settle it. So a slot filed under a connection is a handle DB2 has there,
  which the scan of `SQL400CloseAllStmts` relies on and tidy clients provide;
* `Keyed`, `KeysApart`: a slot with a key is a connected connection, and nobody
  opens a key that another thread is closing, which is what `Careful` provides;
* `ThreadsGood`: the handle, the statement under way and the locals of each
  aggregate are good at each of its steps (the key a close has read is still the
  key, the connection a search has found still carries it);
* `Alone`, `KnownGood`, `TakenBack`: nobody is in a call on what a thread owns,
  no client holds it, and what clients are given back is usable.

TLC checked `LongInv` and `KeyCount` on the instance of `connect_shared`. The proof
says first what a step leaves alone (`Frame`, `Untouched`), once for each part, and
then has a lemma per step of an aggregate and of a plain call.

Keys. Search and entry are two critical sections with a connect between them, so
`KeyedByThreads` is not inductive: a thread that has searched in vain will enter the
key whatever others enter meanwhile. `KeyCount` counts it as one connection more
(`SeekersOf`): the slots with a narrow key and the threads seeking it are together
no more than the threads. Only a search in vain raises the sum. Then no slot has the
key, and the seekers are threads, this one included (`LookupCount`). The entry moves a
thread from one count to the other (`AddHashCount`); every other step leaves or
lowers both (`CountKept`).

Nothing orphaned. `NothingOrphaned` names a call in flight that has a handle to do
with something; the inductive form (`Orphanless`) says which one will settle it
(`Keeps`): a release that has taken the handle from its client, the call that has
just made it, the connect that will hand its connection out, the close that will
free it or a statement of its connection. A step changes what one thread keeps, and
`OrphansKept` asks for each handle that it stays with whoever had it (`Stays`) or
passes to a client or to the thread itself. What makes it hold at the end of
a close is that the scan has found all statements (`Filing`) and that the
connection is disconnected when it is to be freed, so DB2 frees it.

Visits. The mapping of `ImplementsVisits` depends on where every thread is, so the
proof first says which step changes what is to be seen: a statement that is
dropped (`FreeStmtVisit`), what is seen of a connection whose connect moves on
(hidden until `AddHashVisit` shows a keyed one, which is `Appear`, and `ReturnVisit`
any other), a close
that disconnects (`DisconnectVisit`, which is `Leave` with the statements gone) and
then frees the connection without being inside. Each step is then one of
`Db2Sessions` or none, with no assumption about what DB2 refuses.

### The first calls

`IInv` of `PaseCliStartup_proofs` is about what a thread has still to do: every
lock in `todo` stands behind its own test of the flag, unless it is next and the
flag is set, and what a thread is going to tell DB2 is the CCSID chosen or none
(`Ahead`). Whoever is inside the lock owns the mutex, and before the flag is set
nobody has touched it (`LockHeld`), so making it anew takes it from nobody.
`Stretch` says it of the pieces `todo` is put together from, and one lemma
(`ConcatStretch`) puts pieces together.

`EInv` of the same module is about the environment. The steps a thread has left
form a run of a small automaton (`Runs`) whose states (`Stand`) are how deep it
is in the global lock, what it has learnt (`Facts`: the CCSID is chosen, there
is an environment, it was told, the server mode is set) and whether it owes the
environment its CCSID. The flags are tested without a lock, and the environment
handle becomes visible before DB2 has been told its CCSID; the property holds
because whoever owes it is inside the global lock (`Untold`, `Threaded`), and a
connection is allocated behind a step that takes it. DB2 may refuse the setting,
and then nothing is promised. TLC checked it on `startup`.

### The converters

`CInv`: a thread that has chosen a converter is about to convert with it or
inside `iconv` (`Chosen`), inside `iconv` it owns its mutex (`Owned`), and a
converter marked in use is in use by a thread inside `iconv`
(`MarkedByOwner`). The bound follows: a new converter of a pair of CCSIDs is made
only when all others are marked, each by a thread of its own, and none of those
is the thread that asks.

### The calls of every function

`PInv` of the same module is about the list `todo[t]` of steps a thread has left,
however deep conversions and traces nest in it. `LocksBalance`: for each mutex
(of a slot, of the process), the steps left take the number of times the thread
holds it down to none and never below (`Levels`), so whoever has no steps left
holds nothing. `CopiesOwed`: each copy is freed by one of the steps left.
`TextSent`, `Underway`: a copy whose text is not converted has its conversion as
the very next step, and with `Room` for a converter of each of the three pairs
for each thread a search for one always succeeds, which is counted with
`ConvertersBounded`. `ConvertersHeld`: the mutex of a converter is held inside
`iconv` only, and once.

Each call pushes a list built from the tables of the functions, so the proof
needs facts about all 143 of them: that a function which does not lock is one of
those named (`SerialisedLock`), that it frees what it copies (`CopiesFreed`),
that what it converts is a parameter (`ParamNamed`). They are proved from
`CliFunctions` and `LibDB400`, as lemmas. TLC checked `PInv` on `cli_functions`.

### The layout

`PaseToIle_proofs` lets arguments of any kind and size be added, and structures
be copied, in any order. The invariant `Good` says that the cursor of the vector
is inside the register of the next argument, the spill position is behind all
bytes used, a block is left behind it, and arguments are apart.

### The toolkit

`RInv` of `PaseToolRun_proofs` is about requests for any documents, one after
another, with any handles free and DB2 refusing what it likes:

* `Types`, `Positions`: the records keep their fields, `nodes` is a list and the
  run is at a place in it;
* `Labels`: the history knows every label of the document that runs, and whether
  it closes its connection by hand;
* `Connections`: unless the request is one that `ConnectionsReturned` leaves out
  (`Excused`), a connection DB2 knows is the client's, the one kept for the label,
  or the current one, and then the end of its element will close it;
* `Statements`: a statement was shown to the client or belongs to the element
  under way (`Owned`), which frees it on each of its ways out;
* `ErrorTold`: an error that has reached the level of the connection was told.

TLC checked `RInv` on the instance of `toolkit` before it was proved. There is one
lemma per action, under what the operators of `Db2Cli` do to a handle
(`OpenedFacts`, `DelayedFacts`, `NewStmtFacts`, `FreeStmtFacts`, `FreeConnFacts`)
and under `NodesOfList`: the three passes of the parser make a list of any
document. `RequestsAssumption` says that documents are sequences of lexemes and
requests sequences of documents.

`WalkInv` adds the arguments of a call, and was checked in the same way. While
there are registers for them the layout under way is `Good` in the sense of
`PaseToIle_proofs`, and every structure still open began at or before the position
and has elements left; so the image that is copied at its end has no negative
length, and a number of copies (`CopiedFacts`, by induction on their number) keep
the layout `Good`. A structure by value begins in the registers, which lie before
the data only while there are registers: this is why `ArgumentsApart` stops at 159
arguments, beyond which the code goes on (see "Findings and limits").
`NumbersAssumption` says that the dimensions and lengths in a document are
numbers, and that the length in front of a varying text is none below zero.

Two walks. `ReadWhereWritten` relates the walk that writes the arguments of a call
to the one that reads them back. The first copies the image of a finished element
for the others of an array; the second goes over the nodes of the structure once
for each. So they are at one place for the first element only, and nested arrays
are read further and further from where their nodes were written. The inductive
invariant `TwoWalks` keeps what the walk before the call did:

* `FirstWalk`, `Walked`: there is a history `H`, one snapshot (layout, open
  structures, values written) for each node, whose steps are those of the code
  (`Trail`, `StepOf`); a structure open in it was opened by one node and nothing
  before its start changed since (`Nested`);
* `SecondWalk`: the second walk is at some node of that history with as many
  structures open, and for each depth `j` there is a distance `d[j]` by which it is
  further in the image than the history was: the distance of the structure around
  it, and one length of an element for each element done (`Passed`). What the
  history wrote up to there has been read at that distance (`Reached`), and all
  that it will write inside the element has been written there (`Carried`). The
  last is what the copies provide: a copy repeats the values of its element, those
  inside inner arrays included (`CopiesOf`, `CopiesFacts`).

Each action has a lemma (`DataInFirst` to `EndDsLastSecond`). Going back for the
next element (`EndDsNextSecond`) adds a length to the innermost distance, and the
end of the last element leaves the walk where the history was after its copies, in
the distance of the structure around. At the end of the nodes no structure is open,
the distance is 0, and what was read is all that was written. There are two
hypotheses. `EnoughRegisters`, as above: the walk that writes has fewer than 159
arguments. `SingleByValue`: no document gives an array of structures by value; such a
structure begins in the vector, and the length that is copied reaches from there to
the spill (see "Findings and limits"). TLC checked `Trail` and `Second` on the
documents of `toolkit`, which satisfy both hypotheses, and finds a violation of
`ReadWhereWritten` when a document with such an array is added.

### Only model-checked

* All liveness (`CallsReturn`, `JobsExit`, `JoinsReturn`, `StartupReturns`):
  fairness and `ENABLED` are out of the prover's reach.
* Clients that use `SQLFreeStmt` without drop (`call_returns`), and clients of
  the aggregates that leave statements behind at a disconnect (`connect_returns`).
* `GeneratedFilesAgree`: a fact of finite tables, which TLC evaluates for every
  function there is.
* `EveryElementRuns` for a request that reports success, and `OutputNests`: both
  are about how a document nests, that is about what the passes of the parser
  compute of any sequence of lexemes, which is induction over data.
* `ValuesComeBack`, whose conversions are folds over digits. What comes back is
  what was written at that place (`EveryValueFound`); that a conversion and its
  inverse agree for every number is induction over data.

## Findings and limits

The four violation runs are disagreements between the code and what the
repository says of it; `PROJECT.json` quotes both sides. Others, not worth a run
each. In the driver:

* `SQLDisconnectAsync` of a persistent connection exits without its callback
  (`PaseCliAsync_gen.c:1876`); `CallbackRan` names the exception.
* Two `SQL400pConnect` with one key at once open two connections; the search for
  the key and its entry are separate critical sections (`SQL400Connect.c:128`,
  `164`). That a key is in one slot is therefore no property here: TLC finds it
  violated by two threads that call `SQL400pConnect` once each. `KeyedByThreads` is
  what is left of it.
* `SQL400pConnectW` and `SQL400pConnectUtf16` never re-use a connection
  (`PaseCliInit.c:625`): the case for UTF-16 keys falls through to the comparison
  of `char` strings, in which such a key counts no character, so the search accepts
  none. One thread that opens a wide key twice has two connections.
* Releases forget a handle even when DB2 refuses (`init_table_dtor` is called
  whatever the answer): freeing a connected connection leaves it open and
  unknown to the table. The toolkit's `close` does that (`PaseTool.c:3154`).
* A handle released while another thread is in a call on it: the unlock of that
  call looks up a cleared slot and leaves the mutex it took locked.
* `SQLDisconnect` leaves the slots of the statements DB2 frees filed under the
  connection (`PaseCliAsync_gen.c:1857`). A close of it afterwards finds them
  (`SQL400Connect.c:292`) and releases whatever gets the number meanwhile, under no
  lock but its own connection's. `stale_close` shows how another thread's new
  persistent connection loses its slot and its key: t1 disconnects connection 2,
  whose statement is 3, and closes 2; its scan finds slot 3; t2's `SQL400pConnect`
  is given the number 3 and enters its key; t1's release of 3 clears the slot.
* `SQLEndTran`, the diagnostics functions, and allocation and release of
  statements enter DB2 without the connection's mutex, so "one operation per
  job" (`README.md:169-175`) holds for the locked calls only;
  `OnlyUnserialisedOverlap` says exactly which calls can meet.
* `init_CCSID400` may parse `DBXSRC` twice when two threads wait for it; the
  second parse finds the string the first has cut at its colons and loses the
  directories after the first (`PaseCliInit.c:248-270`).
* `env_server_mode` is set although DB2 refused (`SQL400Connect.c:91`); a refused
  environment overwrites `env_hndl` (`SQL400Connect.c:20`);
  `SQLOverrideCCSID400` returns success when the CCSID was chosen before.
* The result of a conversion is ignored (`PaseCliLibDB400_gen.c:30`). DB2 gets an
  empty text when no converter is left, and also when process and job have the same
  CCSID, not a UTF one: then `custom_iconv_open` refuses (`PaseCliInit.c:99`)
  although there was nothing to convert. It gets the beginning of a text `iconv`
  stops in. `TextReachesDb2` leaves these settings out by name.
* `libdb400_SQLStatistics` returns nothing (`PaseCliLibDB400_gen.c:912-925`), so in
  a converting CCSID its caller reads whatever the register held.
* `SQLTables`, `SQLTablePrivileges` and `SQLSetEnvAttr` pass the size of the
  buffer as the length of the text; some conversions pass the literal handle 0
  and so lock slot 0, whose mutex nothing initialises;
  `SQL400IgnoreNullFromUtf8` and `...FromUtf16` call the conversions in the other
  direction.
* `custom_iconv_close` has no caller.
* `SQL400Json` holds the mutex of the connection it is given while the request
  uses another; two threads that name each other's connections wait for ever.

In the toolkit:

* The names of `qual` and `iso` are matched with `strcmp` used the wrong way
  round (`PaseTool.c:3348`, `3357`; `toolkit/parser-json/README.md:39-58`).
* A close by hand frees the connection without disconnecting it; DB2 refuses and
  the connection is lost. A connection opened late under a label has no key and
  is never closed. `ConnectionsReturned` names both.
* `pgm` and `close` write their end without their beginning when the call could
  not be prepared or there is no connection; a `dob` whose first element is blank
  cuts the answer before a bracket. `OutputNests` names the three.
* A refused allocation leaves handle 0, for which there is no diagnostic record,
  and the request reports success (`PaseTool.c:771`); a row fetched with
  `SQL_SUCCESS_WITH_INFO` ends the request without a word. `EveryElementRuns`
  names the first and says nothing of the second.
* Elements outside any connection beside more than one connection run under
  another one's (`Mixed`).
* A number with more decimals than its scale is rounded by
  `ile_pgm_str_fix_round` (`PaseToIle.c:568`). It counts its digits from the end
  of what was given, not from the point, so it may round digits that are kept
  (1.5674 with three decimals becomes 1.570) or none (1.26 with one becomes
  1.2), and a carry into 1, 2 or 3 is lost (1.2999 with two becomes 1.20).
  `Rounded` does what the code does; `ValuesComeBack` is about numbers that fit.
* `ile_pgm_bin_2_output` never resets its position: elements of a binary array
  after the first are appended behind the end of the buffer
  (`PaseToIle.c:1546`). Binary data of varying length have a length in front
  that `ile_pgm_type_size` does not count (1776), so they reach into the next
  argument. No document has either.
* An array of structures by value begins in the argument vector, where a value
  goes (`PaseTool.c:1497`, `1524`), and the length of its element is measured from
  there to the position in the spill (`PaseTool.c:1758`). The copies then hold registers and other arguments, and the
  second walk reads the elements from places nobody wrote. `SingleByValue` of
  `PaseToolRun_proofs` names the documents that avoid it.
* The column buffers of a fetch leak (2560-2568), `tool_dtor` reads a node it has
  freed (276), the search for the target of `setlen` crosses programs (1423),
  `rexx` and `qsh` in one command leak a statement, and 159 arguments are the
  limit of the vector, which nothing checks (`PaseToIle.c:154`).

## Not modelled

* Driver: `SQLCopyDesc`'s table entry, the rollback inside a close and the
  attributes set by a connect (they change what DB2 does in a job only), the
  `use_data` fields, which nothing calls, the reasons DB2 has for refusing. SQL
  text and results are not represented; a persistent key is a value, and keys in
  UTF-16 are a subset of them because the search treats them differently.
* Asynchronous forms: `pthread_create` failing (the code ignores it) and the
  ownership of the argument structure.
* Initialisation: `init_job_CCSID400`, `init_json_dlsym` and the symbol look-ups
  of the ILE layer, which test a flag and set it as `init_cli_srvpgm` does; the
  memory order in which other processors see an unlocked flag.
* Conversion pool: `custom_iconv_close` (no caller), what `iconv` does to text.
* Trace: the wording; `printf_format` and the memory dumps.
* Generator (`gen.py`): it writes the C that is modelled.
* Toolkit data: floating-point numbers, which the C library converts, CCSIDs and
  their characters, the conversion to an integer for `dou` (any value here),
  `setlen`, which after the first walk stores the length of a structure as the
  value of a parameter already placed and moves nothing (`PaseTool.c:1412-1445`;
  `ReadWhereWritten` and `ValuesComeBack` are about documents without it), structures passed by value with `dim` above 1, a command with both
  `rexx` and `qsh`, the names a service program exports.
* Handle numbers beyond the table, which index it all the same
  (`PaseCliInit.h:25`): DB2's limit is not in the repository, and the model gives
  out numbers inside the table.
* JSON: the scanner of characters and escapes; a document here is a sequence of
  lexemes.
* Stored procedures and call stubs (`toolkit/proc*`): the `ibyval` and `ibyref`
  files hold tens of thousands of generated lines, one stub for each number of
  arguments, which copy and call without a decision.
* CGI and FastCGI: one thread that reads, calls `SQL400Json` and writes.

## Plan

1. Done: the table and the calls, aggregates, asynchronous forms, every exported
   function with its conversions and trace, start-up, the toolkit; the
   refinements of `Db2Sessions` by the calls and by the aggregates; proofs for the calls, the aggregates, the jobs,
   the first calls and the environment, the converters, the locks, copies and
   text of every function, the layout, and the connections, statements, errors
   and arguments of toolkit requests and the places of their values.
2. Left: that the answer nests; two clients of the toolkit on two connections.
