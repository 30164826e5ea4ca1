------------------------------- MODULE LibDB400 --------------------------------
(*****************************************************************************)
(* What the driver does around a DB2 function when the process runs in a     *)
(* CCSID other than UTF-8 and UTF-16 (PaseCliLibDB400_gen.c): which          *)
(* parameters it converts to the CCSID of the job before the call and back   *)
(* after it, with which handle, and which copies it frees. A function and    *)
(* its wide form, the next in the file, share a definition where they do the *)
(* same.                                                                     *)
(*****************************************************************************)

\* non_utf_copy_in_hdbc, non_utf_copy_in_hstmt: a converted copy of a parameter;
\* length is the parameter that holds its length, "maxsz" the size of the copy.
\* non_utf_copy_out_...: a parameter converted in place.  handle "0" is the
\* literal 0, which is no connection.
Copy(handle, param, length) == [handle |-> handle, param |-> param, length |-> length]

\* when: "always", or only for an attribute whose value is text.
Converts(when, in, freed, out) == [when |-> when, in |-> in, freed |-> freed, out |-> out]

Forwards == Converts("always", <<>>, <<>>, <<>>)

libdb400_SQLAllocConnect == Forwards
libdb400_SQLAllocEnv == Forwards
libdb400_SQLAllocHandle == Forwards
libdb400_SQLAllocStmt == Forwards
libdb400_SQLBindCol == Forwards
libdb400_SQLBindFileToCol == Forwards
libdb400_SQLBindFileToParam == Forwards
libdb400_SQLBindParam == Forwards
libdb400_SQLBindParameter == Forwards
libdb400_SQLCancel == Forwards
libdb400_SQLCloseCursor == Forwards
libdb400_SQLColAttribute == Forwards
libdb400_SQLColAttributes ==
  Converts("text", <<>>, <<>>, <<Copy("hstmt", "rgbDesc", "cbDescMax")>>)
libdb400_SQLColAttributesW == Forwards
libdb400_SQLColumnPrivileges ==
  Converts("always", <<Copy("hstmt", "szTableQualifier", "cbTableQualifier"),
             Copy("hstmt", "szTableOwner", "cbTableOwner"),
             Copy("hstmt", "szTableName", "cbTableName"),
             Copy("hstmt", "szColumnName", "cbColumnName")>>,
           <<"szTableQualifier", "szTableOwner", "szTableName",
             "szColumnName">>, <<>>)
libdb400_SQLColumnPrivilegesW == Forwards
libdb400_SQLColumns ==
  Converts("always", <<Copy("hstmt", "szTableQualifier", "cbTableQualifier"),
             Copy("hstmt", "szTableOwner", "cbTableOwner"),
             Copy("hstmt", "szTableName", "cbTableName"),
             Copy("hstmt", "szColumnName", "cbColumnName")>>,
           <<"szTableQualifier", "szTableOwner", "szTableName",
             "szColumnName">>, <<>>)
libdb400_SQLColumnsW == Forwards
libdb400_SQLConnect ==
  Converts("always",
           <<Copy("hdbc", "szDSN", "cbDSN"), Copy("hdbc", "szUID", "cbUID"),
             Copy("hdbc", "szAuthStr", "cbAuthStr")>>,
           <<"szDSN", "szUID", "szAuthStr">>, <<>>)
libdb400_SQLConnectW == Forwards
libdb400_SQLCopyDesc == Forwards
libdb400_SQLDataSources ==
  Converts("always", <<>>, <<>>, <<Copy("0", "szDSN", "cbDSNMax"),
             Copy("0", "szDescription", "cbDescriptionMax")>>)
libdb400_SQLDataSourcesW == Forwards
libdb400_SQLDescribeCol ==
  Converts("always", <<>>, <<>>, <<Copy("0", "szColName", "cbColNameMax")>>)
libdb400_SQLDescribeColW == Forwards
libdb400_SQLDescribeParam == Forwards
libdb400_SQLDisconnect == Forwards
libdb400_SQLDriverConnect ==
  Converts("always", <<Copy("hdbc", "szConnStrIn", "cbConnStrin")>>,
           <<"szConnStrIn">>, <<Copy("0", "szConnStrOut", "cbConnStrOutMax")>>)
libdb400_SQLDriverConnectW == Forwards
libdb400_SQLEndTran == Forwards
libdb400_SQLError ==
  Converts("always", <<>>, <<>>, <<Copy("0", "szSqlState", "maxsz"),
             Copy("0", "szErrorMsg", "cbErrorMsgMax")>>)
libdb400_SQLErrorW == Forwards
libdb400_SQLExecDirect ==
  Converts("always", <<Copy("hstmt", "szSqlStr", "cbSqlStr")>>, <<"szSqlStr">>,
           <<>>)
libdb400_SQLExecDirectW == Forwards
libdb400_SQLExecute == Forwards
libdb400_SQLExtendedFetch == Forwards
libdb400_SQLFetch == Forwards
libdb400_SQLFetchScroll == Forwards
libdb400_SQLForeignKeys ==
  Converts("always",
           <<Copy("hstmt", "szPkTableQualifier", "cbPkTableQualifier"),
             Copy("hstmt", "szPkTableOwner", "cbPkTableOwner"),
             Copy("hstmt", "szPkTableName", "cbPkTableName"),
             Copy("hstmt", "szFkTableQualifier", "cbFkTableQualifier"),
             Copy("hstmt", "szFkTableOwner", "cbFkTableOwner"),
             Copy("hstmt", "szFkTableName", "cbFkTableName")>>,
           <<"szPkTableQualifier", "szPkTableOwner", "szPkTableName",
             "szFkTableQualifier", "szFkTableOwner", "szFkTableName">>, <<>>)
libdb400_SQLForeignKeysW == Forwards
libdb400_SQLFreeConnect == Forwards
libdb400_SQLFreeEnv == Forwards
libdb400_SQLFreeStmt == Forwards
libdb400_SQLFreeHandle == Forwards
libdb400_SQLGetCol == Forwards
libdb400_SQLGetConnectAttr ==
  Converts("text", <<>>, <<>>, <<Copy("hdbc", "oval", "ilen")>>)
libdb400_SQLGetConnectAttrW == Forwards
libdb400_SQLGetConnectOption ==
  Converts("text", <<>>, <<>>, <<Copy("hdbc", "oval", "maxsz")>>)
libdb400_SQLGetConnectOptionW == Forwards
libdb400_SQLGetCursorName ==
  Converts("always", <<>>, <<>>, <<Copy("0", "szCursor", "cbCursorMax")>>)
libdb400_SQLGetCursorNameW == Forwards
libdb400_SQLGetData == Forwards
libdb400_SQLGetDescField ==
  Converts("text", <<>>, <<>>, <<Copy("0", "fValue", "fLength")>>)
libdb400_SQLGetDescFieldW == Forwards
libdb400_SQLGetDescRec ==
  Converts("always", <<>>, <<>>, <<Copy("0", "fname", "bufLen")>>)
libdb400_SQLGetDescRecW == Forwards
libdb400_SQLGetDiagField ==
  Converts("text", <<>>, <<>>, <<Copy("hndl", "dValue", "bLength")>>)
libdb400_SQLGetDiagFieldW == Forwards
libdb400_SQLGetDiagRec ==
  Converts("always", <<>>, <<>>, <<Copy("hndl", "SQLstate", "maxsz"),
             Copy("hndl", "msgText", "bLength")>>)
libdb400_SQLGetDiagRecW == Forwards
libdb400_SQLGetEnvAttr ==
  Converts("text", <<>>, <<>>, <<Copy("0", "pParam", "cbParamMax")>>)
libdb400_SQLGetFunctions == Forwards
libdb400_SQLGetInfo ==
  Converts("text", <<>>, <<>>,
           <<Copy("hdbc", "rgbInfoValue", "cbInfoValueMax")>>)
libdb400_SQLGetInfoW == Forwards
libdb400_SQLGetLength == Forwards
libdb400_SQLGetPosition ==
  Converts("always", <<Copy("hstmt", "srchLiteral", "srchLiteralLen")>>,
           <<"srchLiteral">>, <<>>)
libdb400_SQLGetPositionW == Forwards
libdb400_SQLGetStmtAttr == Forwards
libdb400_SQLGetStmtOption == Forwards
libdb400_SQLGetSubString == Forwards
libdb400_SQLGetTypeInfo == Forwards
libdb400_SQLLanguages == Forwards
libdb400_SQLMoreResults == Forwards
libdb400_SQLNativeSql ==
  Converts("always", <<Copy("hdbc", "szSqlStrIn", "cbSqlStrIn")>>,
           <<"szSqlStrIn">>, <<Copy("hdbc", "szSqlStr", "cbSqlStrMax")>>)
libdb400_SQLNativeSqlW == Forwards
libdb400_SQLNextResult == Forwards
libdb400_SQLNumParams == Forwards
libdb400_SQLNumResultCols == Forwards
libdb400_SQLParamData == Forwards
libdb400_SQLParamOptions == Forwards
libdb400_SQLPrepare ==
  Converts("always", <<Copy("hstmt", "szSqlStr", "cbSqlStr")>>, <<"szSqlStr">>,
           <<>>)
libdb400_SQLPrepareW == Forwards
\* Mutant of libdb400_SQLPrimaryKeys: the last copy is not freed.
libdb400_SQLPrimaryKeysLeaks ==
  Converts("always", <<Copy("hstmt", "szTableQualifier", "cbTableQualifier"),
             Copy("hstmt", "szTableOwner", "cbTableOwner"),
             Copy("hstmt", "szTableName", "cbTableName")>>,
           <<"szTableQualifier", "szTableOwner">>, <<>>)

libdb400_SQLPrimaryKeys ==
  Converts("always", <<Copy("hstmt", "szTableQualifier", "cbTableQualifier"),
             Copy("hstmt", "szTableOwner", "cbTableOwner"),
             Copy("hstmt", "szTableName", "cbTableName")>>,
           <<"szTableQualifier", "szTableOwner", "szTableName">>, <<>>)
libdb400_SQLPrimaryKeysW == Forwards
libdb400_SQLProcedureColumns ==
  Converts("always", <<Copy("hstmt", "szProcQualifier", "cbProcQualifier"),
             Copy("hstmt", "szProcOwner", "cbProcOwner"),
             Copy("hstmt", "szProcName", "cbProcName"),
             Copy("hstmt", "szColumnName", "cbColumnName")>>,
           <<"szProcQualifier", "szProcOwner", "szProcName", "szColumnName">>,
           <<>>)
libdb400_SQLProcedureColumnsW == Forwards
libdb400_SQLProcedures ==
  Converts("always", <<Copy("hstmt", "szProcQualifier", "cbProcQualifier"),
             Copy("hstmt", "szProcOwner", "cbProcOwner"),
             Copy("hstmt", "szProcName", "cbProcName")>>,
           <<"szProcQualifier", "szProcOwner", "szProcName">>, <<>>)
libdb400_SQLProceduresW == Forwards
libdb400_SQLPutData == Forwards
libdb400_SQLReleaseEnv == Forwards
libdb400_SQLRowCount == Forwards
libdb400_SQLSetConnectAttr ==
  Converts("text", <<Copy("hdbc", "vParam", "inlen")>>, <<"vParam">>, <<>>)
libdb400_SQLSetConnectAttrW == Forwards
libdb400_SQLSetConnectOption ==
  Converts("text", <<Copy("hdbc", "vParam", "SQL_NTS")>>, <<"vParam">>, <<>>)
libdb400_SQLSetConnectOptionW == Forwards
libdb400_SQLSetCursorName ==
  Converts("always", <<Copy("hstmt", "szCursor", "cbCursor")>>, <<"szCursor">>,
           <<>>)
libdb400_SQLSetCursorNameW == Forwards
libdb400_SQLSetDescField == Forwards
libdb400_SQLSetDescRec == Forwards
libdb400_SQLSetEnvAttr ==
  Converts("text", <<Copy("0", "pParam", "maxsz")>>, <<"pParam">>, <<>>)
libdb400_SQLSetParam == Forwards
libdb400_SQLSetStmtAttr == Forwards
libdb400_SQLSetStmtOption == Forwards
libdb400_SQLSpecialColumns ==
  Converts("always", <<Copy("hstmt", "szTableQual", "cbTableQual"),
             Copy("hstmt", "szTableOwner", "cbTableOwner"),
             Copy("hstmt", "szTableName", "cbTableName")>>,
           <<"szTableQual", "szTableOwner", "szTableName">>, <<>>)
libdb400_SQLSpecialColumnsW == Forwards
libdb400_SQLStartTran == Forwards
libdb400_SQLStatistics ==
  Converts("always", <<Copy("hstmt", "szTableQualifier", "cbTableQualifier"),
             Copy("hstmt", "szTableOwner", "cbTableOwner"),
             Copy("hstmt", "szTableName", "cbTableName")>>,
           <<"szTableQualifier", "szTableOwner", "szTableName">>, <<>>)
libdb400_SQLStatisticsW == Forwards
libdb400_SQLTablePrivileges ==
  Converts("always", <<Copy("hstmt", "szTableQualifier", "maxsz"),
             Copy("hstmt", "szTableOwner", "maxsz"),
             Copy("hstmt", "szTableName", "maxsz")>>,
           <<"szTableQualifier", "szTableOwner", "szTableName">>, <<>>)
libdb400_SQLTablePrivilegesW == Forwards
libdb400_SQLTables ==
  Converts("always", <<Copy("hstmt", "szTableQualifier", "maxsz"),
             Copy("hstmt", "szTableOwner", "maxsz"),
             Copy("hstmt", "szTableName", "maxsz"),
             Copy("hstmt", "szTableType", "maxsz")>>,
           <<"szTableQualifier", "szTableOwner", "szTableName", "szTableType">>,
           <<>>)
libdb400_SQLTablesW == Forwards
libdb400_SQLTransact == Forwards

-----------------------------------------------------------------------------
Conversions ==
  [SQLAllocConnect |-> libdb400_SQLAllocConnect,
   SQLAllocEnv |-> libdb400_SQLAllocEnv,
   SQLAllocHandle |-> libdb400_SQLAllocHandle,
   SQLAllocStmt |-> libdb400_SQLAllocStmt, SQLBindCol |-> libdb400_SQLBindCol,
   SQLBindFileToCol |-> libdb400_SQLBindFileToCol,
   SQLBindFileToParam |-> libdb400_SQLBindFileToParam,
   SQLBindParam |-> libdb400_SQLBindParam,
   SQLBindParameter |-> libdb400_SQLBindParameter,
   SQLCancel |-> libdb400_SQLCancel,
   SQLCloseCursor |-> libdb400_SQLCloseCursor,
   SQLColAttribute |-> libdb400_SQLColAttribute,
   SQLColAttributeW |-> libdb400_SQLColAttribute,
   SQLColAttributes |-> libdb400_SQLColAttributes,
   SQLColAttributesW |-> libdb400_SQLColAttributesW,
   SQLColumnPrivileges |-> libdb400_SQLColumnPrivileges,
   SQLColumnPrivilegesW |-> libdb400_SQLColumnPrivilegesW,
   SQLColumns |-> libdb400_SQLColumns, SQLColumnsW |-> libdb400_SQLColumnsW,
   SQLConnect |-> libdb400_SQLConnect, SQLConnectW |-> libdb400_SQLConnectW,
   SQLCopyDesc |-> libdb400_SQLCopyDesc,
   SQLDataSources |-> libdb400_SQLDataSources,
   SQLDataSourcesW |-> libdb400_SQLDataSourcesW,
   SQLDescribeCol |-> libdb400_SQLDescribeCol,
   SQLDescribeColW |-> libdb400_SQLDescribeColW,
   SQLDescribeParam |-> libdb400_SQLDescribeParam,
   SQLDisconnect |-> libdb400_SQLDisconnect,
   SQLDriverConnect |-> libdb400_SQLDriverConnect,
   SQLDriverConnectW |-> libdb400_SQLDriverConnectW,
   SQLEndTran |-> libdb400_SQLEndTran, SQLError |-> libdb400_SQLError,
   SQLErrorW |-> libdb400_SQLErrorW, SQLExecDirect |-> libdb400_SQLExecDirect,
   SQLExecDirectW |-> libdb400_SQLExecDirectW,
   SQLExecute |-> libdb400_SQLExecute,
   SQLExtendedFetch |-> libdb400_SQLExtendedFetch,
   SQLFetch |-> libdb400_SQLFetch, SQLFetchScroll |-> libdb400_SQLFetchScroll,
   SQLForeignKeys |-> libdb400_SQLForeignKeys,
   SQLForeignKeysW |-> libdb400_SQLForeignKeysW,
   SQLFreeConnect |-> libdb400_SQLFreeConnect,
   SQLFreeEnv |-> libdb400_SQLFreeEnv, SQLFreeStmt |-> libdb400_SQLFreeStmt,
   SQLFreeHandle |-> libdb400_SQLFreeHandle, SQLGetCol |-> libdb400_SQLGetCol,
   SQLGetColW |-> libdb400_SQLGetCol,
   SQLGetConnectAttr |-> libdb400_SQLGetConnectAttr,
   SQLGetConnectAttrW |-> libdb400_SQLGetConnectAttrW,
   SQLGetConnectOption |-> libdb400_SQLGetConnectOption,
   SQLGetConnectOptionW |-> libdb400_SQLGetConnectOptionW,
   SQLGetCursorName |-> libdb400_SQLGetCursorName,
   SQLGetCursorNameW |-> libdb400_SQLGetCursorNameW,
   SQLGetData |-> libdb400_SQLGetData,
   SQLGetDescField |-> libdb400_SQLGetDescField,
   SQLGetDescFieldW |-> libdb400_SQLGetDescFieldW,
   SQLGetDescRec |-> libdb400_SQLGetDescRec,
   SQLGetDescRecW |-> libdb400_SQLGetDescRecW,
   SQLGetDiagField |-> libdb400_SQLGetDiagField,
   SQLGetDiagFieldW |-> libdb400_SQLGetDiagFieldW,
   SQLGetDiagRec |-> libdb400_SQLGetDiagRec,
   SQLGetDiagRecW |-> libdb400_SQLGetDiagRecW,
   SQLGetEnvAttr |-> libdb400_SQLGetEnvAttr,
   SQLGetFunctions |-> libdb400_SQLGetFunctions,
   SQLGetInfo |-> libdb400_SQLGetInfo, SQLGetInfoW |-> libdb400_SQLGetInfoW,
   SQLGetLength |-> libdb400_SQLGetLength,
   SQLGetPosition |-> libdb400_SQLGetPosition,
   SQLGetPositionW |-> libdb400_SQLGetPositionW,
   SQLGetStmtAttr |-> libdb400_SQLGetStmtAttr,
   SQLGetStmtAttrW |-> libdb400_SQLGetStmtAttr,
   SQLGetStmtOption |-> libdb400_SQLGetStmtOption,
   SQLGetStmtOptionW |-> libdb400_SQLGetStmtOption,
   SQLGetSubString |-> libdb400_SQLGetSubString,
   SQLGetSubStringW |-> libdb400_SQLGetSubString,
   SQLGetTypeInfo |-> libdb400_SQLGetTypeInfo,
   SQLGetTypeInfoW |-> libdb400_SQLGetTypeInfo,
   SQLLanguages |-> libdb400_SQLLanguages,
   SQLMoreResults |-> libdb400_SQLMoreResults,
   SQLNativeSql |-> libdb400_SQLNativeSql,
   SQLNativeSqlW |-> libdb400_SQLNativeSqlW,
   SQLNextResult |-> libdb400_SQLNextResult,
   SQLNumParams |-> libdb400_SQLNumParams,
   SQLNumResultCols |-> libdb400_SQLNumResultCols,
   SQLParamData |-> libdb400_SQLParamData,
   SQLParamOptions |-> libdb400_SQLParamOptions,
   SQLPrepare |-> libdb400_SQLPrepare, SQLPrepareW |-> libdb400_SQLPrepareW,
   SQLPrimaryKeys |-> libdb400_SQLPrimaryKeys,
   SQLPrimaryKeysW |-> libdb400_SQLPrimaryKeysW,
   SQLProcedureColumns |-> libdb400_SQLProcedureColumns,
   SQLProcedureColumnsW |-> libdb400_SQLProcedureColumnsW,
   SQLProcedures |-> libdb400_SQLProcedures,
   SQLProceduresW |-> libdb400_SQLProceduresW,
   SQLPutData |-> libdb400_SQLPutData,
   SQLReleaseEnv |-> libdb400_SQLReleaseEnv,
   SQLRowCount |-> libdb400_SQLRowCount,
   SQLSetConnectAttr |-> libdb400_SQLSetConnectAttr,
   SQLSetConnectAttrW |-> libdb400_SQLSetConnectAttrW,
   SQLSetConnectOption |-> libdb400_SQLSetConnectOption,
   SQLSetConnectOptionW |-> libdb400_SQLSetConnectOptionW,
   SQLSetCursorName |-> libdb400_SQLSetCursorName,
   SQLSetCursorNameW |-> libdb400_SQLSetCursorNameW,
   SQLSetDescField |-> libdb400_SQLSetDescField,
   SQLSetDescFieldW |-> libdb400_SQLSetDescField,
   SQLSetDescRec |-> libdb400_SQLSetDescRec,
   SQLSetEnvAttr |-> libdb400_SQLSetEnvAttr,
   SQLSetParam |-> libdb400_SQLSetParam,
   SQLSetStmtAttr |-> libdb400_SQLSetStmtAttr,
   SQLSetStmtAttrW |-> libdb400_SQLSetStmtAttr,
   SQLSetStmtOption |-> libdb400_SQLSetStmtOption,
   SQLSetStmtOptionW |-> libdb400_SQLSetStmtOption,
   SQLSpecialColumns |-> libdb400_SQLSpecialColumns,
   SQLSpecialColumnsW |-> libdb400_SQLSpecialColumnsW,
   SQLStartTran |-> libdb400_SQLStartTran,
   SQLStatistics |-> libdb400_SQLStatistics,
   SQLStatisticsW |-> libdb400_SQLStatisticsW,
   SQLTablePrivileges |-> libdb400_SQLTablePrivileges,
   SQLTablePrivilegesW |-> libdb400_SQLTablePrivilegesW,
   SQLTables |-> libdb400_SQLTables, SQLTablesW |-> libdb400_SQLTablesW,
   SQLTransact |-> libdb400_SQLTransact]
================================================================================
