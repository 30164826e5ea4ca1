-------------------------------- MODULE PaseTool --------------------------------
(***************************************************************************)
(* The run of requests by the toolkit (SQL400Json): a request is a document  *)
(* whose list of nodes is walked under the connections it names.  This       *)
(* module has everything but the call of a program (PaseToolPgm).            *)
(* DB2's answer to a call on a statement is "ok", "error" or, for a handle   *)
(* that names none, "other" (SQL_INVALID_HANDLE); "other" is also            *)
(* SQL_NO_DATA_FOUND and SQL_SUCCESS_WITH_INFO, all that is neither          *)
(* SQL_SUCCESS nor SQL_ERROR.                                               *)
(***************************************************************************)
EXTENDS Db2Cli, PaseJson, PaseToIle

CONSTANTS
  Documents,  \* the documents: from names to sequences of lexemes
  Scripts,    \* what a client does: [given: has it a connection, docs: requests]
  MaxRows     \* rows of a result

ASSUME RequestsAssumption ==
  /\ \A name \in DOMAIN Documents : Len(Documents[name]) \in Nat
  /\ \A s \in Scripts : s.given \in BOOLEAN /\ s.docs \in Seq(DOMAIN Documents)
  /\ MaxRows \in Nat

VARIABLES
  given,  \* the connection the client passes to SQL400Json, or 0
  reqs,   \* the requests to come, the current one first
  nodes,  \* the list of nodes of the request (tool->first)
  pc,     \* where the run of the request is
  at,     \* the node it is at
  rc,     \* "ok", "error", "other"
  conn,   \* tool->tconn
  pool,   \* the connection SQL400pConnect keeps for the label "*mem", or 0
  db2,    \* DB2's handles
  out,    \* the answer: its brackets, and "x" for what has none
  work,   \* the query or command being run
  pgm,    \* the program being called
  log     \* history: see NewLog

vars == <<given, reqs, nodes, pc, at, rc, conn, pool, db2, out, work, pgm, log>>

N == nodes

Is(i, key, elem) == i <= Len(N) /\ N[i].key = key /\ N[i].elem = elem

\* Mutant of DeepestIn: the element's own level.
OwnLevel(i) == N[i].ord

\* A loop over an element looks no deeper than the element's first child.
DeepestIn(i) == IF i < Len(N) THEN N[i + 1].ord ELSE 0

NoWork == [node |-> 0, stmt |-> 0, rows |-> 0, mem |-> FALSE, close |-> FALSE,
           max |-> 0, meta |-> FALSE, next |-> 0]

NoConn == [hdbc |-> 0, type |-> "set", keep |-> FALSE, last |-> 0, max |-> 0]

NoPgm == [layout |-> NewLayout, stmt |-> 0, mem |-> FALSE, begun |-> FALSE,
          step |-> 0, max |-> 0, frames |-> <<>>, hold |-> FALSE,
          holdord |-> 0, written |-> {}, read |-> {}]

\* labels, byhand: the labels of the connections of the documents run, and whether
\* one of them closes its connection; ran: nodes of the document that ran; shown: handles of
\* statements the client was told and has not read to the end; told: the answer has an error or a job log;
\* refused: DB2 refused a connection; lost: it refused a handle, and without
\* one there is no error to ask for; stray: an end without a beginning was written.
NewLog == [labels |-> {}, byhand |-> FALSE, ran |-> {}, shown |-> {}, told |-> FALSE,
           refused |-> FALSE, lost |-> FALSE, stray |-> FALSE]

-----------------------------------------------------------------------------
(* The answer (tool_output_..., json_output_...)                             *)

\* An element opens an object that holds one array; json_output_script_beg,
\* query_beg, close_beg, record_array_beg, cmd_beg, pgm_beg, joblog_beg, admin_beg.
Beg == <<"{", "[">>
End == <<"]", "}">>

\* What is written whole: a record, an error, a value, "SQL_NO_DATA_FOUND".
Item == <<"x">>

Items(n) == [i \in 1 .. n |-> "x"]

Records(n) == Beg \o Items(n) \o End

-----------------------------------------------------------------------------
(* DB2's answers                                                             *)

\* The lowest handle number that is free, or 0.
FreeHandle(d) ==
  LET free == {h \in HandleNums : ~Db2Alive(d, h)} IN IF free = {} THEN 0 ELSE MinOf(free)

Outcome(d, h, ans) == [db2 |-> d, h |-> h, ans |-> ans]

\* SQL400Connect: no handle; a handle that is not connected; a connection, with
\* the result of the last attribute set.
Opened ==
  LET h   == FreeHandle(db2)
      new == Db2NewDbc(db2, h)
  IN  {Outcome(db2, 0, "error")} \cup
      (IF h = 0 THEN {}
       ELSE {Outcome(new, h, "error"), Outcome(Db2Connect(new, h), h, "ok"),
             Outcome(Db2Connect(new, h), h, "error")})

\* tool_key_conn_delayed
Delayed == IF conn.hdbc # 0 THEN {Outcome(db2, conn.hdbc, "ok")} ELSE Opened

\* SQLAllocHandle(SQL_HANDLE_STMT) on connection c.
NewStmt(d, c) ==
  LET h == FreeHandle(d)
  IN  IF c = 0 THEN {Outcome(d, 0, "other")}
      ELSE {Outcome(d, 0, "error")} \cup
           (IF h # 0 /\ d[c].connected THEN {Outcome(Db2NewStmt(d, h, c), h, "ok")} ELSE {})

\* A call on statement h.
Answers(d, h) == IF d[h].kind = "stmt" THEN {"ok", "error"} ELSE {"other"}

\* tool_sql_errors: an error is one only when DB2 has a record of it, which it
\* has for a live handle.
Told(d, h, ans) == ans = "error" /\ h # 0 /\ Db2Alive(d, h)
RcOf(d, h, ans) == IF Told(d, h, ans) THEN "error" ELSE "ok"
Lost(h, ans) == ans = "error" /\ h = 0
ErrorOf(d, h, ans) == IF Told(d, h, ans) THEN Item ELSE <<>>

-----------------------------------------------------------------------------
LabelsOf(list) ==
  {Attr(list[i], "qual") : i \in {i \in DOMAIN list : list[i].elem = "connect" /\ HasAttr(list[i], "qual")}}

ClosesAll(list) ==
  \E i \in DOMAIN list : list[i].elem = "close" /\ list[i].key = "beg" /\ NumberOr0(list[i], "handle") = 0

Init ==
  /\ \E s \in Scripts :
       /\ reqs = s.docs
       /\ given = IF s.given THEN 2 ELSE 0
  /\ db2 = LET none == [h \in Slots |-> Db2Free]
           IN  IF given = 0 THEN none ELSE Db2Connect(Db2NewDbc(none, given), given)
  /\ nodes = <<>> /\ pc = "idle" /\ at = 0 /\ rc = "ok" /\ pool = 0 /\ out = <<>>
  /\ conn = NoConn /\ work = NoWork /\ pgm = NoPgm /\ log = NewLog

\* custom_SQL400Json: an empty text is refused; else the text is parsed and run.
BeginRequest ==
  /\ pc = "idle" /\ reqs # <<>> /\ Documents[Head(reqs)] # <<>>
  /\ pc' = "script" /\ at' = 1 /\ rc' = "ok"
  /\ nodes' = NodesOf(Documents[Head(reqs)])
  /\ out' = Beg
  /\ log' = [log EXCEPT !.labels = @ \cup LabelsOf(nodes'), !.byhand = @ \/ ClosesAll(nodes'),
                        !.ran = {}, !.told = FALSE, !.lost = FALSE, !.stray = FALSE]
  /\ UNCHANGED <<given, reqs, conn, pool, db2, work, pgm>>

EmptyRequest ==
  /\ pc = "idle" /\ reqs # <<>> /\ Documents[Head(reqs)] = <<>>
  /\ reqs' = Tail(reqs)
  /\ UNCHANGED <<given, nodes, pc, at, rc, conn, pool, db2, out, work, pgm, log>>

\* tool_run, a node that is no connection.
SkipNode ==
  /\ pc = "script" /\ rc = "ok" /\ at <= Len(N) /\ ~Is(at, "beg", "connect")
  /\ at' = at + 1
  /\ UNCHANGED <<given, reqs, nodes, pc, rc, conn, pool, db2, out, work, pgm, log>>

\* The end of tool_run: the answer is complete.
EndScript ==
  /\ pc = "script" /\ (rc # "ok" \/ at > Len(N))
  /\ out' = out \o End
  /\ pc' = "answered"
  /\ UNCHANGED <<given, reqs, nodes, at, rc, conn, pool, db2, work, pgm, log>>

\* tool_dtor, and the return to the client.
EndRequest ==
  /\ pc = "answered"
  /\ reqs' = Tail(reqs) /\ pc' = "idle" /\ out' = <<>> /\ nodes' = <<>>
  /\ conn' = NoConn /\ work' = NoWork /\ pgm' = NoPgm
  /\ UNCHANGED <<given, at, rc, pool, db2, log>>

Done == pc = "idle" /\ reqs = <<>> /\ UNCHANGED vars

-----------------------------------------------------------------------------
(* tool_key_conn_run                                                         *)

\* A connection the client passed is used as it is.  A label other than "*mem"
\* makes the connection one "in memory", opened when it is needed only.
ConnType(node) ==
  IF given # 0 \/ ~HasAttr(node, "qual") THEN "set"
  ELSE IF Attr(node, "qual") = "*mem" THEN "pool" ELSE "memory"

InMemory(type) == type = "memory"

ConnBegin ==
  LET type == ConnType(N[at])
      ways == IF given # 0 THEN {Outcome(db2, given, "ok")}
              ELSE IF type = "memory" THEN {Outcome(db2, 0, "ok")}
              ELSE IF type = "pool" /\ pool # 0 THEN {Outcome(db2, pool, "ok")}
              ELSE Opened
  IN  /\ pc = "script" /\ rc = "ok" /\ Is(at, "beg", "connect")
      /\ \E o \in ways :
           /\ db2' = o.db2
           /\ conn' = [hdbc |-> o.h, type |-> type, keep |-> given # 0 \/ type # "set",
                       last |-> at, max |-> DeepestIn(at)]
           /\ pool' = IF type = "pool" /\ o.h # 0 /\ o.db2[o.h].connected THEN o.h ELSE pool
           /\ rc' = RcOf(o.db2, o.h, o.ans)
           /\ out' = out \o ErrorOf(o.db2, o.h, o.ans)
           /\ log' = [log EXCEPT !.told = @ \/ Told(o.db2, o.h, o.ans),
                                 !.lost = @ \/ Lost(o.h, o.ans),
                                 !.refused = @ \/ o.ans # "ok"]
      /\ pc' = "conn" /\ at' = at + 1
      /\ UNCHANGED <<given, reqs, nodes, work, pgm>>

\* The loop over the children is at one it looks at: none deeper than the first.
Child(key, elem) ==
  /\ pc = "conn" /\ rc = "ok" /\ Is(at, key, elem)
  /\ N[at].ord <= conn.max

Runs == {"query", "close", "cmd", "pgm", "admin"}

\* A node the loop only passes: deeper ones, ends, another connection.
ConnPass ==
  /\ pc = "conn" /\ rc = "ok" /\ at <= Len(N)
  /\ LET looked == N[at].ord <= conn.max
     IN  /\ looked => ~(N[at].key = "beg" /\ N[at].elem \in Runs)
         /\ pc' = IF looked /\ Is(at, "end", "connect") THEN "bye" ELSE "conn"
         /\ conn' = IF looked THEN [conn EXCEPT !.last = at] ELSE conn
  /\ at' = at + 1
  /\ UNCHANGED <<given, reqs, nodes, rc, pool, db2, out, work, pgm, log>>

\* Mutant of Kept: an error before the end of the connection keeps it.
KeptOnError == conn.keep \/ rc = "error"

Kept == conn.keep

\* SQL400Close for what the request opened; tool_run goes on after the last node
\* the connection looked at.
ConnEnd ==
  /\ pc = "bye" \/ (pc = "conn" /\ (rc # "ok" \/ at > Len(N)))
  /\ db2' = IF conn.hdbc # 0 /\ ~Kept
            THEN Db2FreeDbc(Db2Disconnect(db2, conn.hdbc), conn.hdbc) ELSE db2
  /\ log' = [log EXCEPT !.shown = {h \in @ : Db2Alive(db2', h)}]
  /\ pc' = "script" /\ at' = conn.last + 1
  /\ UNCHANGED <<given, reqs, nodes, rc, conn, pool, out, work, pgm>>

\* The child that is run returns r; its loop was at node i last.
Return(r, i) ==
  /\ rc' = r
  /\ pc' = IF r = "error" THEN "joblog" ELSE "conn"
  /\ at' = i + 1

\* tool_joblog_errors: whatever fails in it is ignored.
Joblog ==
  /\ pc = "joblog"
  /\ \E o \in Delayed : \E a \in NewStmt(o.db2, o.h) :
       \E n \in 0 .. (IF a.h = 0 THEN 0 ELSE MaxRows) :
         /\ db2' = o.db2
         /\ conn' = [conn EXCEPT !.hdbc = o.h]
         /\ out' = out \o Beg \o Items(n) \o End
         /\ log' = [log EXCEPT !.told = TRUE, !.refused = @ \/ o.ans # "ok"]
  /\ pc' = "conn"
  /\ UNCHANGED <<given, reqs, nodes, at, rc, pool, work, pgm>>

\* tool_key_close_run: a statement, or without a handle the connection, which is
\* not disconnected before; it is forgotten whatever the answer is.  For a kept
\* connection the driver refuses without DB2, which has no error to tell then.
Close ==
  LET node == N[at]
      h    == NumberOr0(node, "handle")
      what == IF h = 0 THEN conn.hdbc ELSE h
      kind == IF h = 0 THEN "dbc" ELSE "stmt"
      ans  == IF db2[what].kind # kind \/ what = pool THEN "other"
              ELSE IF kind = "dbc" /\ db2[what].connected THEN "error" ELSE "ok"
  IN  /\ Child("beg", "close")
      /\ db2' = IF ans # "ok" THEN db2 ELSE IF h = 0 THEN Db2FreeDbc(db2, what) ELSE Db2FreeStmt(db2, h)
      /\ conn' = [conn EXCEPT !.last = at, !.hdbc = IF h = 0 THEN 0 ELSE @]
      /\ out' = out \o (IF what = 0 THEN <<>> ELSE Beg) \o ErrorOf(db2', what, ans) \o End
      /\ log' = [log EXCEPT !.ran = @ \cup {at}, !.stray = @ \/ what = 0,
                            !.told = @ \/ Told(db2', what, ans),
                            !.shown = {x \in @ : Db2Alive(db2', x)}]
      /\ Return(RcOf(db2', what, ans), at)
      /\ UNCHANGED <<given, reqs, nodes, pool, work, pgm>>

\* tool_key_admin_run: its loop ends at its own end.
Admin ==
  /\ Child("beg", "admin")
  /\ LET versions == Cardinality({i \in DOMAIN N[at].attrs : N[at].attrs[i].val = "version"})
     IN  out' = out \o Beg \o Items(versions) \o End
  /\ conn' = [conn EXCEPT !.last = at]
  /\ log' = [log EXCEPT !.ran = @ \cup {at}]
  /\ Return("ok", at + 1)
  /\ UNCHANGED <<given, reqs, nodes, pool, db2, work, pgm>>

-----------------------------------------------------------------------------
(* tool_key_query_run                                                        *)

MetaQueries == {"tables", "columns", "statistics"}

QueryBegin ==
  LET node  == N[at]
      given_h == NumberOr0(node, "handle")
      text  == AttrOr(node, "stmt", "")
  IN  /\ Child("beg", "query")
      /\ \E o \in Delayed : \E a \in IF given_h # 0 THEN {Outcome(o.db2, given_h, o.ans)}
                                      ELSE NewStmt(o.db2, o.h) :
           \/ /\ text = "" /\ given_h = 0
              /\ db2' = o.db2
              /\ conn' = [conn EXCEPT !.hdbc = o.h, !.last = at]
              /\ log' = [log EXCEPT !.ran = @ \cup {at}, !.refused = @ \/ o.ans # "ok"]
              /\ Return(o.ans, at)
              /\ UNCHANGED <<out, work>>
           \/ /\ text = "joblog"
              /\ db2' = o.db2
              /\ conn' = [conn EXCEPT !.hdbc = o.h, !.last = at]
              /\ out' = out \o Beg \o Item \o End
              /\ log' = [log EXCEPT !.ran = @ \cup {at}, !.refused = @ \/ o.ans # "ok"]
              /\ Return("error", at)
              /\ UNCHANGED work
           \/ /\ text # "joblog" /\ (text # "" \/ given_h # 0)
              /\ db2' = a.db2
              /\ conn' = [conn EXCEPT !.hdbc = o.h, !.last = at]
              /\ work' = [NoWork EXCEPT !.node = at, !.stmt = a.h, !.close = ~conn.keep,
                                        !.meta = text \in MetaQueries]
              /\ rc' = a.ans
              /\ out' = out \o Beg
              /\ pc' = CASE text = "" -> "fetch"
                         [] text \in MetaQueries ->
                              IF Is(at + 1, "beg", "parm") THEN "parms" ELSE "fetch"
                         [] OTHER -> "prepare"
              /\ log' = [log EXCEPT !.ran = @ \cup {at}, !.shown = @ \cup ({a.h} \ {0}),
                                    !.lost = @ \/ Lost(a.h, a.ans), !.refused = @ \/ o.ans # "ok"]
              /\ at' = at + 1
      /\ UNCHANGED <<given, reqs, nodes, pool, pgm>>

\* SQLPrepare, then SQLNumParams, whose answer takes the place of the first.
QueryPrepare ==
  LET h == work.stmt
  IN  /\ pc = "prepare"
      /\ \E p \in IF rc = "ok" THEN Answers(db2, h) ELSE {rc} :
         \E n \in IF h # 0 THEN Answers(db2, h) ELSE {RcOf(db2, h, p)} :
           /\ rc' = RcOf(db2, h, n)
           /\ out' = out \o ErrorOf(db2, h, p) \o ErrorOf(db2, h, n)
           /\ log' = [log EXCEPT !.told = @ \/ Told(db2, h, p) \/ Told(db2, h, n)]
      /\ pc' = IF Is(at, "beg", "parm") THEN "parms" ELSE "execute"
      /\ UNCHANGED <<given, reqs, nodes, at, conn, pool, db2, work, pgm>>

\* The level of the first child is the deepest that is looked at.
Deepest == IF work.max = 0 THEN N[at].ord ELSE work.max

\* A parameter, bound when it has a value and the query is no list of the catalog.
QueryParm ==
  LET looked == N[at].ord <= Deepest
      binds  == looked /\ Is(at, "beg", "parm") /\ ~work.meta /\ HasAttr(N[at], "value")
      last   == looked /\ Is(at, "end", "parm")
  IN  /\ pc = "parms" /\ rc = "ok" /\ at <= Len(N)
      /\ \E b \in IF binds THEN Answers(db2, work.stmt) ELSE {"ok"} : rc' = b
      /\ work' = [work EXCEPT !.max = Deepest, !.node = IF looked THEN at ELSE @,
                              !.next = IF last THEN at + 1 ELSE @]
      /\ pc' = IF last /\ ~Is(at + 1, "beg", "parm") THEN "execute" ELSE "parms"
      /\ at' = at + 1
      /\ UNCHANGED <<given, reqs, nodes, conn, pool, db2, out, pgm, log>>

\* The parameters stop: a query ends at an error, the lists of the catalog go on.
QueryParmsStop ==
  /\ pc = "parms" /\ rc # "ok"
  /\ IF rc = "error" /\ ~work.meta
     THEN out' = out \o End /\ Return(rc, work.node)
     ELSE pc' = "execute" /\ UNCHANGED <<out, rc, at>>
  /\ UNCHANGED <<given, reqs, nodes, conn, pool, db2, work, pgm, log>>

\* SQLExecute, or the catalog function, which is called whatever happened before.
QueryExecute ==
  LET h == work.stmt
  IN  /\ pc = "execute"
      /\ \E e \in IF rc = "ok" \/ work.meta THEN Answers(db2, h) ELSE {rc} :
           /\ log' = [log EXCEPT !.told = @ \/ Told(db2, h, e)]
           /\ IF Told(db2, h, e) /\ ~work.meta
              THEN /\ out' = out \o Item \o End
                   /\ Return("error", work.node)
              ELSE /\ out' = out \o ErrorOf(db2, h, e)
                   /\ rc' = RcOf(db2, h, e)
                   /\ pc' = "fetch"
                   /\ at' = IF work.next # 0 THEN work.next
                            ELSE IF work.max # 0 \/ (work.meta /\ Is(at, "beg", "parm")) THEN at + 1
                            ELSE at
      /\ UNCHANGED <<given, reqs, nodes, conn, pool, db2, work, pgm>>

\* tool_key_fetch_run: the records of one fetch, at most "rec" of them.  A row
\* with a warning ends the loop too.
Fetched(recs) ==
  {f \in [n : 0 .. MaxRows, by : {"limit", "nodata", "error", "info"}] :
     /\ f.by = "limit" => recs # 0 /\ f.n = recs
     /\ f.by = "info" => f.n > 0
     /\ f.by = "nodata" => recs = 0 \/ f.n < recs
     /\ f.by = "error" => recs = 0 \/ f.n < recs
     /\ recs # 0 => f.n <= recs}

FetchRc(f) ==
  IF f.by = "limit" \/ f.by = "nodata" \/ (f.by = "error" /\ f.n > 0) THEN "ok"
  ELSE IF f.by = "error" THEN "error" ELSE "other"

\* Mutant of Ended: the statement stays open when its rows have been read.
EndedNever(f) == FALSE

\* stmt_close: the rows have been read, or cannot be.
Ended(f) == f.by \in {"nodata", "error"}

InFetches == pc = "fetch" /\ rc = "ok" /\ at <= Len(N)

\* A result without columns is "no data".
Fetch ==
  LET h    == work.stmt
      recs == NumberOr0(N[at], "rec")
  IN  /\ InFetches /\ Is(at, "beg", "fetch") /\ N[at].ord <= Deepest
      /\ HasAttr(N[at], "rec")
      /\ \/ \E c \in Answers(db2, h) :
              /\ out' = out \o ErrorOf(db2, h, c) \o Records(1)
              /\ rc' = RcOf(db2, h, c)
              /\ log' = [log EXCEPT !.ran = @ \cup {at}, !.told = @ \/ Told(db2, h, c)]
              /\ work' = [work EXCEPT !.max = Deepest, !.node = at, !.rows = 1, !.next = 0]
         \/ /\ db2[h].kind = "stmt"
            /\ \E f \in Fetched(recs) :
                 /\ out' = out \o Records(f.n + IF Ended(f) THEN 1 ELSE 0)
                 /\ rc' = FetchRc(f)
                 /\ work' = [work EXCEPT !.max = Deepest, !.node = at, !.rows = 1, !.next = 0,
                                         !.close = @ \/ Ended(f)]
                 /\ log' = [log EXCEPT !.ran = @ \cup {at},
                                       !.shown = IF f.by \in {"nodata", "error"} THEN @ \ {h} ELSE @]
      /\ at' = at + 1
      /\ UNCHANGED <<given, reqs, nodes, pc, conn, pool, db2, pgm>>

\* The end of a fetch, after which another may come; a deeper node; a fetch
\* without a number of records.
FetchPass ==
  LET looked == N[at].ord <= Deepest
  IN  /\ InFetches /\ (work.rows = 1 \/ Is(at, "beg", "fetch"))
      /\ ~(looked /\ Is(at, "beg", "fetch") /\ HasAttr(N[at], "rec"))
      /\ work' = [work EXCEPT !.max = Deepest, !.rows = 1, !.node = IF looked THEN at ELSE @]
      /\ pc' = IF looked /\ Is(at, "end", "fetch") /\ ~Is(at + 1, "beg", "fetch")
               THEN "queried" ELSE "fetch"
      /\ at' = at + 1
      /\ log' = IF looked /\ Is(at, "beg", "fetch") THEN [log EXCEPT !.ran = @ \cup {at}] ELSE log
      /\ UNCHANGED <<given, reqs, nodes, rc, conn, pool, db2, out, pgm>>

\* The end of the query: its statement is freed unless the connection is kept and
\* rows are left.
QueryEnd ==
  LET none == work.rows = 0 /\ ~Is(at, "beg", "fetch")
  IN  /\ pc = "queried" \/ (pc = "fetch" /\ (none \/ rc # "ok" \/ at > Len(N)))
      /\ out' = out \o End
      /\ db2' = IF work.stmt # 0 /\ work.close THEN Db2FreeStmt(db2, work.stmt) ELSE db2
      /\ log' = [log EXCEPT !.shown = {h \in @ : Db2Alive(db2', h)}]
      /\ Return(rc, work.node)
      /\ UNCHANGED <<given, reqs, nodes, conn, pool, work, pgm>>

-----------------------------------------------------------------------------
(* tool_key_cmd_run                                                          *)

\* A REXX procedure or a shell script runs in DB2's job, never in memory, so its
\* connection is opened now; its output is read with a statement of its own.  The
\* seven commands that prepare a script's output file each have a statement of
\* their own, freed at once, and their results are ignored.
CmdBegin ==
  LET node   == N[at]
      output == HasAttr(node, "rexx") \/ HasAttr(node, "qsh")
  IN  /\ Child("beg", "cmd")
      /\ \E o \in IF output /\ InMemory(conn.type) THEN Delayed ELSE {Outcome(db2, conn.hdbc, "ok")} :
         \E a \in IF output THEN NewStmt(o.db2, o.h) ELSE {Outcome(o.db2, 0, "ok")} :
           /\ db2' = a.db2
           /\ conn' = [conn EXCEPT !.hdbc = o.h, !.last = at]
           /\ work' = [NoWork EXCEPT !.node = at, !.rows = a.h, !.mem = InMemory(conn.type) /\ ~output]
           /\ log' = [log EXCEPT !.ran = @ \cup {at}, !.refused = @ \/ o.ans # "ok"]
      /\ out' = out \o Beg
      /\ pc' = "cmd"
      /\ UNCHANGED <<given, reqs, nodes, at, rc, pool, pgm>>

\* In memory the command's result is the answer; else the statement CALL
\* QSYS2.QCMDEXC is prepared and executed.
CmdRun ==
  /\ pc = "cmd"
  /\ \E a \in NewStmt(db2, conn.hdbc) :
       /\ db2' = a.db2
       /\ work' = [work EXCEPT !.stmt = a.h]
       /\ \/ /\ work.mem
             /\ rc' \in {"ok", "error"}
             /\ UNCHANGED <<out, log>>
          \/ /\ ~work.mem
             /\ \E p \in IF a.ans = "ok" THEN Answers(a.db2, a.h) ELSE {a.ans} :
                LET r1 == RcOf(a.db2, a.h, p)
                IN \E e \in IF r1 = "ok" THEN Answers(a.db2, a.h) ELSE {r1} :
                     /\ rc' = RcOf(a.db2, a.h, e)
                     /\ out' = out \o ErrorOf(a.db2, a.h, p) \o ErrorOf(a.db2, a.h, e)
                     /\ log' = [log EXCEPT !.told = @ \/ Told(a.db2, a.h, e),
                                           !.lost = @ \/ Lost(a.h, a.ans)]
  /\ pc' = "output"
  /\ UNCHANGED <<given, reqs, nodes, at, conn, pool, pgm>>

\* The records of a procedure's or script's output: none is "no data"; a row named
\* "error" of a procedure asks DB2 for an error.
CmdOutput ==
  LET h    == work.rows
      rexx == HasAttr(N[at], "rexx")
  IN  /\ pc = "output"
      /\ \/ /\ rc # "ok" \/ h = 0
            /\ UNCHANGED <<out, rc, log>>
         \/ /\ rc = "ok" /\ h # 0
            /\ \E f \in Fetched(0) : \E failed \in BOOLEAN : \E known \in BOOLEAN :
                 /\ failed => rexx /\ f.n > 1
                 /\ known => failed
                 /\ out' = out \o Records(IF f.n = 0 THEN 1 ELSE f.n) \o (IF known THEN Item ELSE <<>>)
                 /\ rc' = IF known THEN "error"
                          ELSE IF failed THEN "ok"
                          ELSE IF f.n = 0 /\ f.by = "nodata" THEN "other" ELSE FetchRc(f)
                 /\ log' = [log EXCEPT !.told = @ \/ known]
      /\ pc' = "cmdend"
      /\ UNCHANGED <<given, reqs, nodes, at, conn, pool, db2, work, pgm>>

CmdEnd ==
  /\ pc = "cmdend"
  /\ out' = out \o End
  /\ db2' = LET d == IF work.stmt # 0 THEN Db2FreeStmt(db2, work.stmt) ELSE db2
            IN  IF work.rows # 0 THEN Db2FreeStmt(d, work.rows) ELSE d
  /\ Return(rc, work.node)
  /\ UNCHANGED <<given, reqs, nodes, conn, pool, work, pgm, log>>
=============================================================================
