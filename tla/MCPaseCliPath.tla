----------------------------- MODULE MCPaseCliPath -----------------------------
(***************************************************************************)
(* Bounds for TLC: in a UTF CCSID, where a call is short, any function runs  *)
(* beside one of each kind; with conversions and the trace any function runs *)
(* alone, with CCSIDs that differ and with equal ones, where text is refused; *)
(* functions that convert run where iconv fails; and functions of every kind *)
(* that waits for something run in pairs, on two connections, with and       *)
(* without room for converters.                                              *)
(***************************************************************************)
EXTENDS PaseCliPath

CONSTANTS t1, t2

MCThreads == {t1, t2}

\* The aggregate functions are SQL400Connect's.
Every == (DOMAIN IleCalls \cup ToUtf8 \cup ToUtf16 \cup AnyToAny \cup {"SQL400Stmt2Hdbc"}) \X {2}

Kinds == {"SQLAllocHandle", "SQLAllocStmt", "SQLFreeStmt", "SQLFreeConnect", "SQLConnect",
          "SQLForeignKeys", "SQLSetConnectAttr", "SQLNativeSql", "SQLError", "SQLEndTran",
          "SQLExecute", "SQL400IgnoreNullToUtf16"} \X {2}

Others == {<<"SQLExecDirect", 2>>, <<"SQLAllocStmt", 2>>, <<"SQLDescribeCol", 3>>,
           <<"SQLConnect", 3>>}

Mixed == {"SQLConnect", "SQLNativeSql", "SQL400ToUtf8"} \X {2}

Menu(first, second) == [t \in MCThreads |-> IF t = t1 THEN first ELSE second]

With(ccsid, job, whole, trace, slot0, pool, menu) ==
  [ccsid |-> ccsid, job |-> job, whole |-> whole, trace |-> trace, slot0 |-> slot0,
   pool |-> pool, menu |-> menu]

MCSettings ==
  {With("1208", "37", TRUE, FALSE, TRUE, 6, Menu(Every, Others)),
   With("819", "37", TRUE, TRUE, FALSE, 6, Menu(Every, {})),
   With("819", "37", FALSE, TRUE, FALSE, 6, Menu(Mixed, {})),
   With("37", "37", TRUE, TRUE, TRUE, 6, Menu(Every, {})),
   With("819", "37", TRUE, TRUE, TRUE, 6, Menu(Kinds, Others)),
   With("819", "37", TRUE, TRUE, TRUE, 1, Menu({<<"SQLExecDirect", 2>>}, {<<"SQLDescribeCol", 3>>}))}
=============================================================================
