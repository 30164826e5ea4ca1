----------------------------- MODULE CliFunctions ------------------------------
(*****************************************************************************)
(* The functions the driver exports (PaseCliAsync_gen.c), one definition     *)
(* each: the lock the generator put around the work, the parameters, and who *)
(* does the work.  A definition stands for the whole family of a function:   *)
(* the call itself, the thread that runs it for the Async form, Async, and   *)
(* Join, which take the same parameters and the same lock. A function and    *)
(* its wide form, the next in the file, share a definition where they do the *)
(* same.                                                                     *)
(*****************************************************************************)

\* locks: what is held from before the work to after the trace.  works: what the
\* locked part calls; "ccsid" is ILE_f in a UTF CCSID and libdb400_f otherwise.
Exported(locks, works, forms, params) ==
  [locks |-> locks, works |-> works, forms |-> forms, params |-> params]

Forms == {"Thread", "Async", "Join"}

\* init_table_lock(first parameter, 1): the connection of a statement or a
\* descriptor.  init_table_lock(first parameter, 0): a connection.
OnStmt(params) == Exported("stmt", "ccsid", Forms, params)
OnConn(params) == Exported("conn", "ccsid", Forms, params)
\* SQLDisconnect: refused, before any lock, when the connection has a persistent
\* key (PaseCliCall models that).
OnConnUnlessPersistent(params) == OnConn(params)

CustomOnStmt(params) == Exported("stmt", "custom", Forms, params)
CustomOnConn(params) == Exported("conn", "custom", Forms, params)

\* No lock at all.
Bare(params) == Exported("none", "ccsid", Forms, params)
CustomBare(params) == Exported("none", "custom", Forms, params)
\* SQLOverrideCCSID400: no lock, no asynchronous form, not traced.
CustomOnce(params) == Exported("none", "custom", {}, params)

\* init_lock: allocation and release, which have no asynchronous form and call
\* ILE_f whatever the CCSID.
UnderGlobalLock(params) == Exported("global", "ILE", {}, params)

SQLAllocConnect == UnderGlobalLock(<<"henv", "phdbc">>)
SQLAllocEnv == UnderGlobalLock(<<"phenv">>)
SQLAllocHandle == UnderGlobalLock(<<"htype", "ihnd", "ohnd">>)
SQLAllocStmt == UnderGlobalLock(<<"hdbc", "phstmt">>)
SQLBindCol ==
  OnStmt(<<"hstmt", "icol", "iType", "rgbValue", "cbValueMax", "pcbValue">>)
SQLBindFileToCol ==
  OnStmt(<<"hstmt", "icol", "fName", "fNameLen", "fOptions", "fValueMax",
           "sLen", "pcbValue">>)
SQLBindFileToParam ==
  OnStmt(<<"hstmt", "ipar", "iType", "fName", "fNameLen", "fOptions",
           "fValueMax", "pcbValue">>)
SQLBindParam ==
  OnStmt(<<"hstmt", "iparm", "iType", "pType", "pLen", "pScale", "pData",
           "pcbValue">>)
SQLBindParameter ==
  OnStmt(<<"hstmt", "ipar", "fParamType", "fCType", "fSQLType", "pLen",
           "pScale", "pData", "cbValueMax", "pcbValue">>)
SQLCancel == OnStmt(<<"hstmt">>)
SQLCloseCursor == OnStmt(<<"hstmt">>)
SQLColAttribute ==
  OnStmt(<<"hstmt", "icol", "fDescType", "rgbDesc", "cbDescMax", "pcbDesc",
           "pfDesc">>)
SQLColAttributes ==
  OnStmt(<<"hstmt", "icol", "fDescType", "rgbDesc", "cbDescMax", "pcbDesc",
           "pfDesc">>)
SQLColumnPrivileges ==
  OnStmt(<<"hstmt", "szTableQualifier", "cbTableQualifier", "szTableOwner",
           "cbTableOwner", "szTableName", "cbTableName", "szColumnName",
           "cbColumnName">>)
SQLColumnPrivilegesW ==
  OnStmt(<<"hstmt", "szTableQualifier", "cbTableQualifier", "szTableOwner",
           "cbTableOwner", "szTableName", "cbTableName", "szColumnName",
           "cbColumnName">>)
SQLColumns ==
  OnStmt(<<"hstmt", "szTableQualifier", "cbTableQualifier", "szTableOwner",
           "cbTableOwner", "szTableName", "cbTableName", "szColumnName",
           "cbColumnName">>)
SQLColumnsW ==
  OnStmt(<<"hstmt", "szTableQualifier", "cbTableQualifier", "szTableOwner",
           "cbTableOwner", "szTableName", "cbTableName", "szColumnName",
           "cbColumnName">>)
SQLConnect ==
  OnConn(<<"hdbc", "szDSN", "cbDSN", "szUID", "cbUID", "szAuthStr",
           "cbAuthStr">>)
SQLCopyDesc == OnStmt(<<"sDesc", "tDesc">>)
SQLDataSources ==
  Bare(<<"henv", "fDirection", "szDSN", "cbDSNMax", "pcbDSN", "szDescription",
         "cbDescriptionMax", "pcbDescription">>)
SQLDescribeCol ==
  OnStmt(<<"hstmt", "icol", "szColName", "cbColNameMax", "pcbColName",
           "pfSqlType", "pcbColDef", "pibScale", "pfNullable">>)
SQLDescribeColW ==
  OnStmt(<<"hstmt", "icol", "szColName", "cbColNameMax", "pcbColName",
           "pfSqlType", "pcbColDef", "pibScale", "pfNullable">>)
SQLDescribeParam ==
  OnStmt(<<"hstmt", "ipar", "pfSqlType", "pcbColDef", "pibScale",
           "pfNullable">>)
SQLDisconnect == OnConnUnlessPersistent(<<"hdbc">>)
SQLDriverConnect ==
  OnConn(<<"hdbc", "hwnd", "szConnStrIn", "cbConnStrin", "szConnStrOut",
           "cbConnStrOutMax", "pcbConnStrOut", "fDriverCompletion">>)
SQLDriverConnectW ==
  OnConn(<<"hdbc", "hwnd", "szConnStrIn", "cbConnStrin", "szConnStrOut",
           "cbConnStrOutMax", "pcbConnStrOut", "fDriverCompletion">>)
SQLEndTran == Bare(<<"htype", "henv", "ctype">>)
SQLError ==
  Bare(<<"henv", "hdbc", "hstmt", "szSqlState", "pfNativeError", "szErrorMsg",
         "cbErrorMsgMax", "pcbErrorMsg">>)
SQLExecDirect == OnStmt(<<"hstmt", "szSqlStr", "cbSqlStr">>)
\* Mutant of SQLExecute: generated without the lock of its connection.
SQLExecuteUnlocked == Bare(<<"hstmt">>)

SQLExecute == OnStmt(<<"hstmt">>)
SQLExtendedFetch ==
  OnStmt(<<"hstmt", "fOrient", "fOffset", "pcrow", "rgfRowStatus">>)
SQLFetch == OnStmt(<<"hstmt">>)
SQLFetchScroll == OnStmt(<<"hstmt", "fOrient", "fOffset">>)
SQLForeignKeys ==
  OnStmt(<<"hstmt", "szPkTableQualifier", "cbPkTableQualifier",
           "szPkTableOwner", "cbPkTableOwner", "szPkTableName", "cbPkTableName",
           "szFkTableQualifier", "cbFkTableQualifier", "szFkTableOwner",
           "cbFkTableOwner", "szFkTableName", "cbFkTableName">>)
SQLForeignKeysW ==
  OnStmt(<<"hstmt", "szPkTableQualifier", "cbPkTableQualifier",
           "szPkTableOwner", "cbPkTableOwner", "szPkTableName", "cbPkTableName",
           "szFkTableQualifier", "cbFkTableQualifier", "szFkTableOwner",
           "cbFkTableOwner", "szFkTableName", "cbFkTableName">>)
SQLFreeConnect == UnderGlobalLock(<<"hdbc">>)
SQLFreeEnv == UnderGlobalLock(<<"henv">>)
SQLFreeStmt == UnderGlobalLock(<<"hstmt", "fOption">>)
SQLFreeHandle == UnderGlobalLock(<<"htype", "hndl">>)
SQLGetCol == OnStmt(<<"hstmt", "icol", "itype", "tval", "blen", "olen">>)
SQLGetConnectAttr == OnConn(<<"hdbc", "attr", "oval", "ilen", "olen">>)
SQLGetConnectOption == OnConn(<<"hdbc", "iopt", "oval">>)
SQLGetCursorName == OnStmt(<<"hstmt", "szCursor", "cbCursorMax", "pcbCursor">>)
SQLGetData ==
  OnStmt(<<"hstmt", "icol", "fCType", "rgbValue", "cbValueMax", "pcbValue">>)
SQLGetDescField ==
  OnStmt(<<"hdesc", "rcdNum", "fieldID", "fValue", "fLength", "stLength">>)
SQLGetDescRec ==
  OnStmt(<<"hdesc", "rcdNum", "fname", "bufLen", "sLength", "sType", "sbType",
           "fLength", "fprec", "fscale", "fnull">>)
SQLGetDescRecW ==
  OnStmt(<<"hdesc", "rcdNum", "fname", "bufLen", "sLength", "sType", "sbType",
           "fLength", "fprec", "fscale", "fnull">>)
SQLGetDiagField ==
  Bare(<<"hType", "hndl", "rcdNum", "diagID", "dValue", "bLength", "sLength">>)
SQLGetDiagRec ==
  Bare(<<"hType", "hndl", "rcdNum", "SQLstate", "SQLcode", "msgText", "bLength",
         "SLength">>)
SQLGetEnvAttr ==
  Bare(<<"hEnv", "fAttribute", "pParam", "cbParamMax", "pcbParam">>)
SQLGetFunctions == OnConn(<<"hdbc", "fFunction", "pfExists">>)
SQLGetInfo ==
  OnConn(<<"hdbc", "fInfoType", "rgbInfoValue", "cbInfoValueMax",
           "pcbInfoValue">>)
SQLGetLength == OnStmt(<<"hstmt", "locType", "locator", "sLength", "ind">>)
SQLGetPosition ==
  OnStmt(<<"hstmt", "locType", "srceLocator", "srchLocator", "srchLiteral",
           "srchLiteralLen", "fPosition", "located", "ind">>)
SQLGetPositionW ==
  OnStmt(<<"hstmt", "locType", "srceLocator", "srchLocator", "srchLiteral",
           "srchLiteralLen", "fPosition", "located", "ind">>)
SQLGetStmtAttr == OnStmt(<<"hstmt", "fAttr", "pvParam", "bLength", "SLength">>)
SQLGetStmtOption == OnStmt(<<"hstmt", "fOption", "pvParam">>)
SQLGetSubString ==
  OnStmt(<<"hstmt", "locType", "srceLocator", "fPosition", "length", "tType",
           "rgbValue", "cbValueMax", "StringLength", "ind">>)
SQLGetSubStringW ==
  OnStmt(<<"hstmt", "locType", "srceLocator", "fPosition", "length", "tType",
           "rgbValue", "cbValueMax", "StringLength", "ind">>)
SQLGetTypeInfo == OnStmt(<<"hstmt", "fSqlType">>)
SQLLanguages == OnStmt(<<"hstmt">>)
SQLMoreResults == OnStmt(<<"hstmt">>)
SQLNativeSql ==
  OnConn(<<"hdbc", "szSqlStrIn", "cbSqlStrIn", "szSqlStr", "cbSqlStrMax",
           "pcbSqlStr">>)
SQLNextResult == OnStmt(<<"hstmt", "hstmt2">>)
SQLNumParams == OnStmt(<<"hstmt", "pcpar">>)
SQLNumResultCols == OnStmt(<<"hstmt", "pccol">>)
SQLParamData == OnStmt(<<"hstmt", "Value">>)
SQLParamOptions == OnStmt(<<"hstmt", "crow", "pirow">>)
SQLPrepare == OnStmt(<<"hstmt", "szSqlStr", "cbSqlStr">>)
SQLPrimaryKeys ==
  OnStmt(<<"hstmt", "szTableQualifier", "cbTableQualifier", "szTableOwner",
           "cbTableOwner", "szTableName", "cbTableName">>)
SQLProcedureColumns ==
  OnStmt(<<"hstmt", "szProcQualifier", "cbProcQualifier", "szProcOwner",
           "cbProcOwner", "szProcName", "cbProcName", "szColumnName",
           "cbColumnName">>)
SQLProcedureColumnsW ==
  OnStmt(<<"hstmt", "szProcQualifier", "cbProcQualifier", "szProcOwner",
           "cbProcOwner", "szProcName", "cbProcName", "szColumnName",
           "cbColumnName">>)
SQLProcedures ==
  OnStmt(<<"hstmt", "szProcQualifier", "cbProcQualifier", "szProcOwner",
           "cbProcOwner", "szProcName", "cbProcName">>)
SQLPutData == OnStmt(<<"hstmt", "Data", "SLen">>)
SQLReleaseEnv == Bare(<<"henv">>)
SQLRowCount == OnStmt(<<"hstmt", "pcrow">>)
SQLSetConnectAttr == OnConn(<<"hdbc", "attrib", "vParam", "inlen">>)
SQLSetConnectOption == OnConn(<<"hdbc", "fOption", "vParam">>)
SQLSetCursorName == OnStmt(<<"hstmt", "szCursor", "cbCursor">>)
SQLSetDescField == OnStmt(<<"hdesc", "rcdNum", "fID", "Value", "buffLen">>)
SQLSetDescRec ==
  OnStmt(<<"hdesc", "rcdNum", "Type", "subType", "fLength", "fPrec", "fScale",
           "Value", "sLength", "indic">>)
SQLSetEnvAttr == Bare(<<"hEnv", "fAttribute", "pParam", "cbParam">>)
SQLSetParam ==
  OnStmt(<<"hstmt", "ipar", "fCType", "fSqlType", "cbColDef", "ibScale",
           "rgbValue", "pcbValue">>)
SQLSetStmtAttr == OnStmt(<<"hstmt", "fAttr", "pParam", "vParam">>)
SQLSetStmtOption == OnStmt(<<"hstmt", "fOption", "vParam">>)
SQLSpecialColumns ==
  OnStmt(<<"hstmt", "fColType", "szTableQual", "cbTableQual", "szTableOwner",
           "cbTableOwner", "szTableName", "cbTableName", "fScope",
           "fNullable">>)
SQLSpecialColumnsW ==
  OnStmt(<<"hstmt", "fColType", "szTableQual", "cbTableQual", "szTableOwner",
           "cbTableOwner", "szTableName", "cbTableName", "fScope",
           "fNullable">>)
SQLStartTran == Bare(<<"htype", "henv", "mode", "clevel">>)
SQLStatistics ==
  OnStmt(<<"hstmt", "szTableQualifier", "cbTableQualifier", "szTableOwner",
           "cbTableOwner", "szTableName", "cbTableName", "fUnique", "fres">>)
SQLStatisticsW ==
  OnStmt(<<"hstmt", "szTableQualifier", "cbTableQualifier", "szTableOwner",
           "cbTableOwner", "szTableName", "cbTableName", "fUnique", "fres">>)
SQLTablePrivileges ==
  OnStmt(<<"hstmt", "szTableQualifier", "cbTableQualifier", "szTableOwner",
           "cbTableOwner", "szTableName", "cbTableName">>)
SQLTables ==
  OnStmt(<<"hstmt", "szTableQualifier", "cbTableQualifier", "szTableOwner",
           "cbTableOwner", "szTableName", "cbTableName", "szTableType",
           "cbTableType">>)
SQLTablesW ==
  OnStmt(<<"hstmt", "szTableQualifier", "cbTableQualifier", "szTableOwner",
           "cbTableOwner", "szTableName", "cbTableName", "szTableType",
           "cbTableType">>)
SQLTransact == Bare(<<"henv", "hdbc", "fType">>)
SQL400Version == CustomBare(<<"outversion", "outlen">>)
SQLOverrideCCSID400 == CustomOnce(<<"newCCSID">>)
SQL400Stmt2Hdbc == CustomOnStmt(<<"hstmt", "ohnd">>)
SQL400Connect ==
  CustomBare(<<"db", "uid", "pwd", "ohnd", "acommit", "alibl", "acurlib">>)
SQL400pConnect ==
  CustomBare(<<"db", "uid", "pwd", "qual", "ohnd", "acommit", "alibl",
               "acurlib">>)
SQL400ConnectUtf8 ==
  CustomBare(<<"accsid", "db", "uid", "pwd", "ohnd", "acommit", "alibl",
               "acurlib">>)
SQL400pConnectUtf8 ==
  CustomBare(<<"accsid", "db", "uid", "pwd", "qual", "ohnd", "acommit", "alibl",
               "acurlib">>)
SQL400ConnectUtf16 ==
  CustomBare(<<"accsid", "db", "uid", "pwd", "ohnd", "acommit", "alibl",
               "acurlib">>)
SQL400pConnectUtf16 ==
  CustomBare(<<"accsid", "db", "uid", "pwd", "qual", "ohnd", "acommit", "alibl",
               "acurlib">>)
SQL400Close == CustomOnConn(<<"hdbc">>)
SQL400pClose == CustomOnConn(<<"hdbc">>)
SQL400CloseAllStmts == CustomOnConn(<<"hdbc">>)
SQL400Cmd == CustomOnConn(<<"hdbc", "cmd">>)
SQL400ChgLibl == CustomOnConn(<<"hdbc", "libl">>)
SQL400ChgCurLib == CustomOnConn(<<"hdbc", "curlib">>)
SQL400ToUtf8 ==
  CustomOnConn(<<"hdbc", "inparm", "inlen", "outparm", "outlen", "inccsid">>)
SQL400FromUtf8 ==
  CustomOnConn(<<"hdbc", "inparm", "inlen", "outparm", "outlen", "outccsid">>)
SQL400ToUtf16 ==
  CustomOnConn(<<"hdbc", "inparm", "inlen", "outparm", "outlen", "inccsid">>)
SQL400FromUtf16 ==
  CustomOnConn(<<"hdbc", "inparm", "inlen", "outparm", "outlen", "outccsid">>)
SQL400IgnoreNullToUtf8 ==
  CustomOnConn(<<"hdbc", "inparm", "inlen", "outparm", "outlen", "inccsid">>)
SQL400IgnoreNullFromUtf8 ==
  CustomOnConn(<<"hdbc", "inparm", "inlen", "outparm", "outlen", "outccsid">>)
SQL400IgnoreNullToUtf16 ==
  CustomOnConn(<<"hdbc", "inparm", "inlen", "outparm", "outlen", "inccsid">>)
SQL400IgnoreNullFromUtf16 ==
  CustomOnConn(<<"hdbc", "inparm", "inlen", "outparm", "outlen", "outccsid">>)
SQL400AnyToAny ==
  CustomOnConn(<<"hdbc", "inparm", "inlen", "outparm", "outlen", "inccsid",
                 "outccsid">>)
SQL400AnyFromAny ==
  CustomOnConn(<<"hdbc", "inparm", "inlen", "outparm", "outlen", "inccsid",
                 "outccsid">>)
SQL400IgnoreNullAnyToAny ==
  CustomOnConn(<<"hdbc", "inparm", "inlen", "outparm", "outlen", "inccsid",
                 "outccsid">>)
SQL400IgnoreNullAnyFromAny ==
  CustomOnConn(<<"hdbc", "inparm", "inlen", "outparm", "outlen", "inccsid",
                 "outccsid">>)
SQL400Json == CustomOnConn(<<"hdbc", "injson", "inlen", "outjson", "outlen">>)

-----------------------------------------------------------------------------
Functions ==
  [SQLAllocConnect |-> SQLAllocConnect, SQLAllocEnv |-> SQLAllocEnv,
   SQLAllocHandle |-> SQLAllocHandle, SQLAllocStmt |-> SQLAllocStmt,
   SQLBindCol |-> SQLBindCol, SQLBindFileToCol |-> SQLBindFileToCol,
   SQLBindFileToParam |-> SQLBindFileToParam, SQLBindParam |-> SQLBindParam,
   SQLBindParameter |-> SQLBindParameter, SQLCancel |-> SQLCancel,
   SQLCloseCursor |-> SQLCloseCursor, SQLColAttribute |-> SQLColAttribute,
   SQLColAttributeW |-> SQLColAttribute, SQLColAttributes |-> SQLColAttributes,
   SQLColAttributesW |-> SQLColAttributes,
   SQLColumnPrivileges |-> SQLColumnPrivileges,
   SQLColumnPrivilegesW |-> SQLColumnPrivilegesW, SQLColumns |-> SQLColumns,
   SQLColumnsW |-> SQLColumnsW, SQLConnect |-> SQLConnect,
   SQLConnectW |-> SQLConnect, SQLCopyDesc |-> SQLCopyDesc,
   SQLDataSources |-> SQLDataSources, SQLDataSourcesW |-> SQLDataSources,
   SQLDescribeCol |-> SQLDescribeCol, SQLDescribeColW |-> SQLDescribeColW,
   SQLDescribeParam |-> SQLDescribeParam, SQLDisconnect |-> SQLDisconnect,
   SQLDriverConnect |-> SQLDriverConnect,
   SQLDriverConnectW |-> SQLDriverConnectW, SQLEndTran |-> SQLEndTran,
   SQLError |-> SQLError, SQLErrorW |-> SQLError,
   SQLExecDirect |-> SQLExecDirect, SQLExecDirectW |-> SQLExecDirect,
   SQLExecute |-> SQLExecute, SQLExtendedFetch |-> SQLExtendedFetch,
   SQLFetch |-> SQLFetch, SQLFetchScroll |-> SQLFetchScroll,
   SQLForeignKeys |-> SQLForeignKeys, SQLForeignKeysW |-> SQLForeignKeysW,
   SQLFreeConnect |-> SQLFreeConnect, SQLFreeEnv |-> SQLFreeEnv,
   SQLFreeStmt |-> SQLFreeStmt, SQLFreeHandle |-> SQLFreeHandle,
   SQLGetCol |-> SQLGetCol, SQLGetColW |-> SQLGetCol,
   SQLGetConnectAttr |-> SQLGetConnectAttr,
   SQLGetConnectAttrW |-> SQLGetConnectAttr,
   SQLGetConnectOption |-> SQLGetConnectOption,
   SQLGetConnectOptionW |-> SQLGetConnectOption,
   SQLGetCursorName |-> SQLGetCursorName,
   SQLGetCursorNameW |-> SQLGetCursorName, SQLGetData |-> SQLGetData,
   SQLGetDescField |-> SQLGetDescField, SQLGetDescFieldW |-> SQLGetDescField,
   SQLGetDescRec |-> SQLGetDescRec, SQLGetDescRecW |-> SQLGetDescRecW,
   SQLGetDiagField |-> SQLGetDiagField, SQLGetDiagFieldW |-> SQLGetDiagField,
   SQLGetDiagRec |-> SQLGetDiagRec, SQLGetDiagRecW |-> SQLGetDiagRec,
   SQLGetEnvAttr |-> SQLGetEnvAttr, SQLGetFunctions |-> SQLGetFunctions,
   SQLGetInfo |-> SQLGetInfo, SQLGetInfoW |-> SQLGetInfo,
   SQLGetLength |-> SQLGetLength, SQLGetPosition |-> SQLGetPosition,
   SQLGetPositionW |-> SQLGetPositionW, SQLGetStmtAttr |-> SQLGetStmtAttr,
   SQLGetStmtAttrW |-> SQLGetStmtAttr, SQLGetStmtOption |-> SQLGetStmtOption,
   SQLGetStmtOptionW |-> SQLGetStmtOption, SQLGetSubString |-> SQLGetSubString,
   SQLGetSubStringW |-> SQLGetSubStringW, SQLGetTypeInfo |-> SQLGetTypeInfo,
   SQLGetTypeInfoW |-> SQLGetTypeInfo, SQLLanguages |-> SQLLanguages,
   SQLMoreResults |-> SQLMoreResults, SQLNativeSql |-> SQLNativeSql,
   SQLNativeSqlW |-> SQLNativeSql, SQLNextResult |-> SQLNextResult,
   SQLNumParams |-> SQLNumParams, SQLNumResultCols |-> SQLNumResultCols,
   SQLParamData |-> SQLParamData, SQLParamOptions |-> SQLParamOptions,
   SQLPrepare |-> SQLPrepare, SQLPrepareW |-> SQLPrepare,
   SQLPrimaryKeys |-> SQLPrimaryKeys, SQLPrimaryKeysW |-> SQLPrimaryKeys,
   SQLProcedureColumns |-> SQLProcedureColumns,
   SQLProcedureColumnsW |-> SQLProcedureColumnsW,
   SQLProcedures |-> SQLProcedures, SQLProceduresW |-> SQLProcedures,
   SQLPutData |-> SQLPutData, SQLReleaseEnv |-> SQLReleaseEnv,
   SQLRowCount |-> SQLRowCount, SQLSetConnectAttr |-> SQLSetConnectAttr,
   SQLSetConnectAttrW |-> SQLSetConnectAttr,
   SQLSetConnectOption |-> SQLSetConnectOption,
   SQLSetConnectOptionW |-> SQLSetConnectOption,
   SQLSetCursorName |-> SQLSetCursorName,
   SQLSetCursorNameW |-> SQLSetCursorName, SQLSetDescField |-> SQLSetDescField,
   SQLSetDescFieldW |-> SQLSetDescField, SQLSetDescRec |-> SQLSetDescRec,
   SQLSetEnvAttr |-> SQLSetEnvAttr, SQLSetParam |-> SQLSetParam,
   SQLSetStmtAttr |-> SQLSetStmtAttr, SQLSetStmtAttrW |-> SQLSetStmtAttr,
   SQLSetStmtOption |-> SQLSetStmtOption,
   SQLSetStmtOptionW |-> SQLSetStmtOption,
   SQLSpecialColumns |-> SQLSpecialColumns,
   SQLSpecialColumnsW |-> SQLSpecialColumnsW, SQLStartTran |-> SQLStartTran,
   SQLStatistics |-> SQLStatistics, SQLStatisticsW |-> SQLStatisticsW,
   SQLTablePrivileges |-> SQLTablePrivileges,
   SQLTablePrivilegesW |-> SQLTablePrivileges, SQLTables |-> SQLTables,
   SQLTablesW |-> SQLTablesW, SQLTransact |-> SQLTransact,
   SQL400Version |-> SQL400Version,
   SQLOverrideCCSID400 |-> SQLOverrideCCSID400,
   SQL400Stmt2Hdbc |-> SQL400Stmt2Hdbc, SQL400Connect |-> SQL400Connect,
   SQL400ConnectW |-> SQL400Connect, SQL400pConnect |-> SQL400pConnect,
   SQL400pConnectW |-> SQL400pConnect, SQL400ConnectUtf8 |-> SQL400ConnectUtf8,
   SQL400pConnectUtf8 |-> SQL400pConnectUtf8,
   SQL400ConnectUtf16 |-> SQL400ConnectUtf16,
   SQL400pConnectUtf16 |-> SQL400pConnectUtf16, SQL400Close |-> SQL400Close,
   SQL400pClose |-> SQL400pClose, SQL400CloseAllStmts |-> SQL400CloseAllStmts,
   SQL400Cmd |-> SQL400Cmd, SQL400ChgLibl |-> SQL400ChgLibl,
   SQL400ChgCurLib |-> SQL400ChgCurLib, SQL400ToUtf8 |-> SQL400ToUtf8,
   SQL400FromUtf8 |-> SQL400FromUtf8, SQL400ToUtf16 |-> SQL400ToUtf16,
   SQL400FromUtf16 |-> SQL400FromUtf16,
   SQL400IgnoreNullToUtf8 |-> SQL400IgnoreNullToUtf8,
   SQL400IgnoreNullFromUtf8 |-> SQL400IgnoreNullFromUtf8,
   SQL400IgnoreNullToUtf16 |-> SQL400IgnoreNullToUtf16,
   SQL400IgnoreNullFromUtf16 |-> SQL400IgnoreNullFromUtf16,
   SQL400AnyToAny |-> SQL400AnyToAny, SQL400AnyFromAny |-> SQL400AnyFromAny,
   SQL400IgnoreNullAnyToAny |-> SQL400IgnoreNullAnyToAny,
   SQL400IgnoreNullAnyFromAny |-> SQL400IgnoreNullAnyFromAny,
   SQL400Json |-> SQL400Json]
================================================================================
