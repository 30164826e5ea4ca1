----------------------------- MODULE DumpFunctions -----------------------------
(*****************************************************************************)
(* The trace of a call (PaseCliDump_gen.c): which parameters it follows as   *)
(* addresses to print the memory behind them, and, when the call failed,     *)
(* whose diagnostics it asks DB2 for by a call of SQLGetDiagRec. A function  *)
(* and its wide form, the next in the file, share a definition where they do *)
(* the same.                                                                 *)
(*****************************************************************************)

Traces(memory) == [memory |-> memory, type |-> "none", handle |-> "none"]

\* printf_sql_diag(type, handle) for an error.
TracesDiag(memory, type, handle) == [memory |-> memory, type |-> type, handle |-> handle]

dump_SQLAllocConnect == Traces({"phdbc"})
dump_SQLAllocEnv == Traces({"phenv"})
dump_SQLAllocHandle == Traces({"ohnd"})
dump_SQLAllocStmt == TracesDiag({"phstmt"}, "DBC", "hdbc")
dump_SQLBindCol == TracesDiag({"rgbValue", "pcbValue"}, "STMT", "hstmt")
dump_SQLBindFileToCol ==
  TracesDiag({"fName", "fNameLen", "fOptions", "sLen", "pcbValue"}, "STMT",
             "hstmt")
dump_SQLBindFileToParam ==
  TracesDiag({"fName", "fNameLen", "fOptions", "pcbValue"}, "STMT", "hstmt")
dump_SQLBindParam == TracesDiag({"pData", "pcbValue"}, "STMT", "hstmt")
dump_SQLBindParameter == TracesDiag({"pData", "pcbValue"}, "STMT", "hstmt")
dump_SQLCancel == TracesDiag({}, "STMT", "hstmt")
dump_SQLCloseCursor == TracesDiag({}, "STMT", "hstmt")
dump_SQLColAttribute ==
  TracesDiag({"rgbDesc", "pcbDesc", "pfDesc"}, "STMT", "hstmt")
dump_SQLColAttributes ==
  TracesDiag({"rgbDesc", "pcbDesc", "pfDesc"}, "STMT", "hstmt")
dump_SQLColumnPrivileges ==
  TracesDiag({"szTableQualifier", "szTableOwner", "szTableName",
              "szColumnName"}, "STMT", "hstmt")
dump_SQLColumns ==
  TracesDiag({"szTableQualifier", "szTableOwner", "szTableName",
              "szColumnName"}, "STMT", "hstmt")
dump_SQLConnect == TracesDiag({"szDSN", "szUID", "szAuthStr"}, "DBC", "hdbc")
dump_SQLCopyDesc == TracesDiag({}, "DESC", "tDesc")
dump_SQLDataSources ==
  Traces({"szDSN", "pcbDSN", "szDescription", "pcbDescription"})
dump_SQLDescribeCol ==
  TracesDiag({"szColName", "pcbColName", "pfSqlType", "pcbColDef", "pibScale",
              "pfNullable"}, "STMT", "hstmt")
dump_SQLDescribeParam ==
  TracesDiag({"pfSqlType", "pcbColDef", "pibScale", "pfNullable"}, "STMT",
             "hstmt")
dump_SQLDisconnect == TracesDiag({}, "DBC", "hdbc")
dump_SQLDriverConnect ==
  TracesDiag({"hwnd", "szConnStrIn", "szConnStrOut", "pcbConnStrOut"}, "DBC",
             "hdbc")
dump_SQLEndTran == Traces({})
dump_SQLError ==
  TracesDiag({"szSqlState", "pfNativeError", "szErrorMsg", "pcbErrorMsg"},
             "STMT", "hstmt")
dump_SQLExecDirect == TracesDiag({"szSqlStr"}, "STMT", "hstmt")
dump_SQLExecute == TracesDiag({}, "STMT", "hstmt")
dump_SQLExtendedFetch == TracesDiag({"pcrow", "rgfRowStatus"}, "STMT", "hstmt")
dump_SQLFetch == TracesDiag({}, "STMT", "hstmt")
dump_SQLFetchScroll == TracesDiag({}, "STMT", "hstmt")
dump_SQLForeignKeys ==
  TracesDiag({"szPkTableQualifier", "szPkTableOwner", "szPkTableName",
              "szFkTableQualifier", "szFkTableOwner", "szFkTableName"}, "STMT",
             "hstmt")
dump_SQLFreeConnect == TracesDiag({}, "DBC", "hdbc")
dump_SQLFreeEnv == Traces({})
dump_SQLFreeStmt == TracesDiag({}, "STMT", "hstmt")
dump_SQLFreeHandle == Traces({})
dump_SQLGetCol == TracesDiag({"tval", "olen"}, "STMT", "hstmt")
dump_SQLGetConnectAttr == TracesDiag({"oval", "olen"}, "DBC", "hdbc")
dump_SQLGetConnectOption == TracesDiag({"oval"}, "DBC", "hdbc")
dump_SQLGetCursorName == TracesDiag({"szCursor", "pcbCursor"}, "STMT", "hstmt")
dump_SQLGetData == TracesDiag({"rgbValue", "pcbValue"}, "STMT", "hstmt")
dump_SQLGetDescField == TracesDiag({"fValue", "stLength"}, "DESC", "hdesc")
dump_SQLGetDescRec ==
  TracesDiag({"fname", "sLength", "sType", "sbType", "fLength", "fprec",
              "fscale", "fnull"}, "DESC", "hdesc")
dump_SQLGetDiagField == Traces({"dValue", "sLength"})
dump_SQLGetDiagRec == Traces({"SQLstate", "SQLcode", "msgText", "SLength"})
dump_SQLGetEnvAttr == Traces({"pParam", "pcbParam"})
dump_SQLGetFunctions == TracesDiag({"pfExists"}, "DBC", "hdbc")
dump_SQLGetInfo == TracesDiag({"rgbInfoValue", "pcbInfoValue"}, "DBC", "hdbc")
dump_SQLGetLength == TracesDiag({"sLength", "ind"}, "STMT", "hstmt")
dump_SQLGetPosition ==
  TracesDiag({"srchLiteral", "located", "ind"}, "STMT", "hstmt")
dump_SQLGetStmtAttr == TracesDiag({"pvParam", "SLength"}, "STMT", "hstmt")
dump_SQLGetStmtOption == TracesDiag({"pvParam"}, "STMT", "hstmt")
dump_SQLGetSubString ==
  TracesDiag({"rgbValue", "StringLength", "ind"}, "STMT", "hstmt")
dump_SQLGetTypeInfo == TracesDiag({}, "STMT", "hstmt")
dump_SQLLanguages == TracesDiag({}, "STMT", "hstmt")
dump_SQLMoreResults == TracesDiag({}, "STMT", "hstmt")
dump_SQLNativeSql ==
  TracesDiag({"szSqlStrIn", "szSqlStr", "pcbSqlStr"}, "DBC", "hdbc")
dump_SQLNextResult == TracesDiag({}, "STMT", "hstmt2")
dump_SQLNumParams == TracesDiag({"pcpar"}, "STMT", "hstmt")
dump_SQLNumResultCols == TracesDiag({"pccol"}, "STMT", "hstmt")
dump_SQLParamData == TracesDiag({"Value"}, "STMT", "hstmt")
dump_SQLParamOptions == TracesDiag({"pirow"}, "STMT", "hstmt")
\* Mutant of dump_SQLPrepare: the length is followed as an address.
dump_SQLPrepareLength == TracesDiag({"szSqlStr", "cbSqlStr"}, "STMT", "hstmt")

dump_SQLPrepare == TracesDiag({"szSqlStr"}, "STMT", "hstmt")
dump_SQLPrimaryKeys ==
  TracesDiag({"szTableQualifier", "szTableOwner", "szTableName"}, "STMT",
             "hstmt")
dump_SQLProcedureColumns ==
  TracesDiag({"szProcQualifier", "szProcOwner", "szProcName", "szColumnName"},
             "STMT", "hstmt")
dump_SQLProcedures ==
  TracesDiag({"szProcQualifier", "szProcOwner", "szProcName"}, "STMT", "hstmt")
dump_SQLPutData == TracesDiag({"Data"}, "STMT", "hstmt")
dump_SQLReleaseEnv == Traces({})
dump_SQLRowCount == TracesDiag({"pcrow"}, "STMT", "hstmt")
dump_SQLSetConnectAttr == TracesDiag({"vParam"}, "DBC", "hdbc")
dump_SQLSetConnectOption == TracesDiag({"vParam"}, "DBC", "hdbc")
dump_SQLSetCursorName == TracesDiag({"szCursor"}, "STMT", "hstmt")
dump_SQLSetDescField == TracesDiag({"Value"}, "DESC", "hdesc")
dump_SQLSetDescRec == TracesDiag({"Value", "sLength", "indic"}, "DESC", "hdesc")
dump_SQLSetEnvAttr == Traces({"pParam"})
dump_SQLSetParam == TracesDiag({"rgbValue", "pcbValue"}, "STMT", "hstmt")
dump_SQLSetStmtAttr == TracesDiag({"pParam"}, "STMT", "hstmt")
dump_SQLSetStmtOption == TracesDiag({"vParam"}, "STMT", "hstmt")
dump_SQLSpecialColumns ==
  TracesDiag({"szTableQual", "szTableOwner", "szTableName"}, "STMT", "hstmt")
dump_SQLStartTran == Traces({})
dump_SQLStatistics ==
  TracesDiag({"szTableQualifier", "szTableOwner", "szTableName"}, "STMT",
             "hstmt")
dump_SQLTablePrivileges ==
  TracesDiag({"szTableQualifier", "szTableOwner", "szTableName"}, "STMT",
             "hstmt")
dump_SQLTables ==
  TracesDiag({"szTableQualifier", "szTableOwner", "szTableName", "szTableType"},
             "STMT", "hstmt")
dump_SQLTransact == TracesDiag({}, "DBC", "hdbc")
dump_SQL400Version == Traces({"outversion"})
dump_SQLOverrideCCSID400 == Traces({})
dump_SQL400Stmt2Hdbc == TracesDiag({"ohnd"}, "STMT", "hstmt")
dump_SQL400Connect == Traces({"db", "uid", "pwd", "ohnd", "alibl", "acurlib"})
dump_SQL400pConnect ==
  Traces({"db", "uid", "pwd", "qual", "ohnd", "alibl", "acurlib"})
dump_SQL400ConnectUtf8 ==
  Traces({"db", "uid", "pwd", "ohnd", "alibl", "acurlib"})
dump_SQL400pConnectUtf8 ==
  Traces({"db", "uid", "pwd", "qual", "ohnd", "alibl", "acurlib"})
dump_SQL400ConnectUtf16 ==
  Traces({"db", "uid", "pwd", "ohnd", "alibl", "acurlib"})
dump_SQL400pConnectUtf16 ==
  Traces({"db", "uid", "pwd", "qual", "ohnd", "alibl", "acurlib"})
dump_SQL400Close == TracesDiag({}, "DBC", "hdbc")
dump_SQL400pClose == TracesDiag({}, "DBC", "hdbc")
dump_SQL400CloseAllStmts == TracesDiag({}, "DBC", "hdbc")
dump_SQL400Cmd == TracesDiag({"cmd"}, "DBC", "hdbc")
dump_SQL400ChgLibl == TracesDiag({"libl"}, "DBC", "hdbc")
dump_SQL400ChgCurLib == TracesDiag({"curlib"}, "DBC", "hdbc")
dump_SQL400ToUtf8 == TracesDiag({"inparm", "outparm"}, "DBC", "hdbc")
dump_SQL400FromUtf8 == TracesDiag({"inparm", "outparm"}, "DBC", "hdbc")
dump_SQL400ToUtf16 == TracesDiag({"inparm", "outparm"}, "DBC", "hdbc")
dump_SQL400FromUtf16 == TracesDiag({"inparm", "outparm"}, "DBC", "hdbc")
dump_SQL400IgnoreNullToUtf8 == TracesDiag({"inparm", "outparm"}, "DBC", "hdbc")
dump_SQL400IgnoreNullFromUtf8 ==
  TracesDiag({"inparm", "outparm"}, "DBC", "hdbc")
dump_SQL400IgnoreNullToUtf16 == TracesDiag({"inparm", "outparm"}, "DBC", "hdbc")
dump_SQL400IgnoreNullFromUtf16 ==
  TracesDiag({"inparm", "outparm"}, "DBC", "hdbc")
dump_SQL400AnyToAny == TracesDiag({"inparm", "outparm"}, "DBC", "hdbc")
dump_SQL400AnyFromAny == TracesDiag({"inparm", "outparm"}, "DBC", "hdbc")
dump_SQL400IgnoreNullAnyToAny ==
  TracesDiag({"inparm", "outparm"}, "DBC", "hdbc")
dump_SQL400IgnoreNullAnyFromAny ==
  TracesDiag({"inparm", "outparm"}, "DBC", "hdbc")
dump_SQL400Json == TracesDiag({"injson", "outjson"}, "DBC", "hdbc")

-----------------------------------------------------------------------------
Dumps ==
  [SQLAllocConnect |-> dump_SQLAllocConnect, SQLAllocEnv |-> dump_SQLAllocEnv,
   SQLAllocHandle |-> dump_SQLAllocHandle, SQLAllocStmt |-> dump_SQLAllocStmt,
   SQLBindCol |-> dump_SQLBindCol, SQLBindFileToCol |-> dump_SQLBindFileToCol,
   SQLBindFileToParam |-> dump_SQLBindFileToParam,
   SQLBindParam |-> dump_SQLBindParam,
   SQLBindParameter |-> dump_SQLBindParameter, SQLCancel |-> dump_SQLCancel,
   SQLCloseCursor |-> dump_SQLCloseCursor,
   SQLColAttribute |-> dump_SQLColAttribute,
   SQLColAttributeW |-> dump_SQLColAttribute,
   SQLColAttributes |-> dump_SQLColAttributes,
   SQLColAttributesW |-> dump_SQLColAttributes,
   SQLColumnPrivileges |-> dump_SQLColumnPrivileges,
   SQLColumnPrivilegesW |-> dump_SQLColumnPrivileges,
   SQLColumns |-> dump_SQLColumns, SQLColumnsW |-> dump_SQLColumns,
   SQLConnect |-> dump_SQLConnect, SQLConnectW |-> dump_SQLConnect,
   SQLCopyDesc |-> dump_SQLCopyDesc, SQLDataSources |-> dump_SQLDataSources,
   SQLDataSourcesW |-> dump_SQLDataSources,
   SQLDescribeCol |-> dump_SQLDescribeCol,
   SQLDescribeColW |-> dump_SQLDescribeCol,
   SQLDescribeParam |-> dump_SQLDescribeParam,
   SQLDisconnect |-> dump_SQLDisconnect,
   SQLDriverConnect |-> dump_SQLDriverConnect,
   SQLDriverConnectW |-> dump_SQLDriverConnect, SQLEndTran |-> dump_SQLEndTran,
   SQLError |-> dump_SQLError, SQLErrorW |-> dump_SQLError,
   SQLExecDirect |-> dump_SQLExecDirect, SQLExecDirectW |-> dump_SQLExecDirect,
   SQLExecute |-> dump_SQLExecute, SQLExtendedFetch |-> dump_SQLExtendedFetch,
   SQLFetch |-> dump_SQLFetch, SQLFetchScroll |-> dump_SQLFetchScroll,
   SQLForeignKeys |-> dump_SQLForeignKeys,
   SQLForeignKeysW |-> dump_SQLForeignKeys,
   SQLFreeConnect |-> dump_SQLFreeConnect, SQLFreeEnv |-> dump_SQLFreeEnv,
   SQLFreeStmt |-> dump_SQLFreeStmt, SQLFreeHandle |-> dump_SQLFreeHandle,
   SQLGetCol |-> dump_SQLGetCol, SQLGetColW |-> dump_SQLGetCol,
   SQLGetConnectAttr |-> dump_SQLGetConnectAttr,
   SQLGetConnectAttrW |-> dump_SQLGetConnectAttr,
   SQLGetConnectOption |-> dump_SQLGetConnectOption,
   SQLGetConnectOptionW |-> dump_SQLGetConnectOption,
   SQLGetCursorName |-> dump_SQLGetCursorName,
   SQLGetCursorNameW |-> dump_SQLGetCursorName, SQLGetData |-> dump_SQLGetData,
   SQLGetDescField |-> dump_SQLGetDescField,
   SQLGetDescFieldW |-> dump_SQLGetDescField,
   SQLGetDescRec |-> dump_SQLGetDescRec, SQLGetDescRecW |-> dump_SQLGetDescRec,
   SQLGetDiagField |-> dump_SQLGetDiagField,
   SQLGetDiagFieldW |-> dump_SQLGetDiagField,
   SQLGetDiagRec |-> dump_SQLGetDiagRec, SQLGetDiagRecW |-> dump_SQLGetDiagRec,
   SQLGetEnvAttr |-> dump_SQLGetEnvAttr,
   SQLGetFunctions |-> dump_SQLGetFunctions, SQLGetInfo |-> dump_SQLGetInfo,
   SQLGetInfoW |-> dump_SQLGetInfo, SQLGetLength |-> dump_SQLGetLength,
   SQLGetPosition |-> dump_SQLGetPosition,
   SQLGetPositionW |-> dump_SQLGetPosition,
   SQLGetStmtAttr |-> dump_SQLGetStmtAttr,
   SQLGetStmtAttrW |-> dump_SQLGetStmtAttr,
   SQLGetStmtOption |-> dump_SQLGetStmtOption,
   SQLGetStmtOptionW |-> dump_SQLGetStmtOption,
   SQLGetSubString |-> dump_SQLGetSubString,
   SQLGetSubStringW |-> dump_SQLGetSubString,
   SQLGetTypeInfo |-> dump_SQLGetTypeInfo,
   SQLGetTypeInfoW |-> dump_SQLGetTypeInfo, SQLLanguages |-> dump_SQLLanguages,
   SQLMoreResults |-> dump_SQLMoreResults, SQLNativeSql |-> dump_SQLNativeSql,
   SQLNativeSqlW |-> dump_SQLNativeSql, SQLNextResult |-> dump_SQLNextResult,
   SQLNumParams |-> dump_SQLNumParams,
   SQLNumResultCols |-> dump_SQLNumResultCols,
   SQLParamData |-> dump_SQLParamData,
   SQLParamOptions |-> dump_SQLParamOptions, SQLPrepare |-> dump_SQLPrepare,
   SQLPrepareW |-> dump_SQLPrepare, SQLPrimaryKeys |-> dump_SQLPrimaryKeys,
   SQLPrimaryKeysW |-> dump_SQLPrimaryKeys,
   SQLProcedureColumns |-> dump_SQLProcedureColumns,
   SQLProcedureColumnsW |-> dump_SQLProcedureColumns,
   SQLProcedures |-> dump_SQLProcedures, SQLProceduresW |-> dump_SQLProcedures,
   SQLPutData |-> dump_SQLPutData, SQLReleaseEnv |-> dump_SQLReleaseEnv,
   SQLRowCount |-> dump_SQLRowCount,
   SQLSetConnectAttr |-> dump_SQLSetConnectAttr,
   SQLSetConnectAttrW |-> dump_SQLSetConnectAttr,
   SQLSetConnectOption |-> dump_SQLSetConnectOption,
   SQLSetConnectOptionW |-> dump_SQLSetConnectOption,
   SQLSetCursorName |-> dump_SQLSetCursorName,
   SQLSetCursorNameW |-> dump_SQLSetCursorName,
   SQLSetDescField |-> dump_SQLSetDescField,
   SQLSetDescFieldW |-> dump_SQLSetDescField,
   SQLSetDescRec |-> dump_SQLSetDescRec, SQLSetEnvAttr |-> dump_SQLSetEnvAttr,
   SQLSetParam |-> dump_SQLSetParam, SQLSetStmtAttr |-> dump_SQLSetStmtAttr,
   SQLSetStmtAttrW |-> dump_SQLSetStmtAttr,
   SQLSetStmtOption |-> dump_SQLSetStmtOption,
   SQLSetStmtOptionW |-> dump_SQLSetStmtOption,
   SQLSpecialColumns |-> dump_SQLSpecialColumns,
   SQLSpecialColumnsW |-> dump_SQLSpecialColumns,
   SQLStartTran |-> dump_SQLStartTran, SQLStatistics |-> dump_SQLStatistics,
   SQLStatisticsW |-> dump_SQLStatistics,
   SQLTablePrivileges |-> dump_SQLTablePrivileges,
   SQLTablePrivilegesW |-> dump_SQLTablePrivileges,
   SQLTables |-> dump_SQLTables, SQLTablesW |-> dump_SQLTables,
   SQLTransact |-> dump_SQLTransact, SQL400Version |-> dump_SQL400Version,
   SQLOverrideCCSID400 |-> dump_SQLOverrideCCSID400,
   SQL400Stmt2Hdbc |-> dump_SQL400Stmt2Hdbc,
   SQL400Connect |-> dump_SQL400Connect, SQL400ConnectW |-> dump_SQL400Connect,
   SQL400pConnect |-> dump_SQL400pConnect,
   SQL400pConnectW |-> dump_SQL400pConnect,
   SQL400ConnectUtf8 |-> dump_SQL400ConnectUtf8,
   SQL400pConnectUtf8 |-> dump_SQL400pConnectUtf8,
   SQL400ConnectUtf16 |-> dump_SQL400ConnectUtf16,
   SQL400pConnectUtf16 |-> dump_SQL400pConnectUtf16,
   SQL400Close |-> dump_SQL400Close, SQL400pClose |-> dump_SQL400pClose,
   SQL400CloseAllStmts |-> dump_SQL400CloseAllStmts,
   SQL400Cmd |-> dump_SQL400Cmd, SQL400ChgLibl |-> dump_SQL400ChgLibl,
   SQL400ChgCurLib |-> dump_SQL400ChgCurLib,
   SQL400ToUtf8 |-> dump_SQL400ToUtf8, SQL400FromUtf8 |-> dump_SQL400FromUtf8,
   SQL400ToUtf16 |-> dump_SQL400ToUtf16,
   SQL400FromUtf16 |-> dump_SQL400FromUtf16,
   SQL400IgnoreNullToUtf8 |-> dump_SQL400IgnoreNullToUtf8,
   SQL400IgnoreNullFromUtf8 |-> dump_SQL400IgnoreNullFromUtf8,
   SQL400IgnoreNullToUtf16 |-> dump_SQL400IgnoreNullToUtf16,
   SQL400IgnoreNullFromUtf16 |-> dump_SQL400IgnoreNullFromUtf16,
   SQL400AnyToAny |-> dump_SQL400AnyToAny,
   SQL400AnyFromAny |-> dump_SQL400AnyFromAny,
   SQL400IgnoreNullAnyToAny |-> dump_SQL400IgnoreNullAnyToAny,
   SQL400IgnoreNullAnyFromAny |-> dump_SQL400IgnoreNullAnyFromAny,
   SQL400Json |-> dump_SQL400Json]
================================================================================
