----------------------------- MODULE IleFunctions ------------------------------
(*****************************************************************************)
(* The calls of DB2 for i CLI (PaseCliILE_gen.c).  ILE_f stores its          *)
(* parameters in the members of the structure fIleCallStruct, which the C    *)
(* compiler lays out, and hands DB2 the signature fIleSigStruct, from which  *)
(* _ILECALL works out where each argument is. A function and its wide form,  *)
(* the next in the file, share a definition where they do the same.          *)
(*****************************************************************************)
EXTENDS Integers, Sequences

\* members: the C types of the structure after its base, ILEpointer for a
\* parameter that is an address.  sig: the signature up to ARG_END.
Passes(members, sig) == [members |-> members, sig |-> sig, back |-> "none"]

\* back: a parameter through which DB2 returns a pointer of its own, converted
\* to an address of the process (_CVTSPP).
PassesBack(members, sig, back) == [members |-> members, sig |-> sig, back |-> back]

ILE_SQLAllocConnect ==
  Passes(<<"SQLHENV", "ILEpointer">>, <<"ARG_INT32", "ARG_MEMPTR">>)
ILE_SQLAllocEnv == Passes(<<"ILEpointer">>, <<"ARG_MEMPTR">>)
ILE_SQLAllocHandle ==
  Passes(<<"SQLSMALLINT", "SQLINTEGER", "ILEpointer">>,
         <<"ARG_INT16", "ARG_INT32", "ARG_MEMPTR">>)
ILE_SQLAllocStmt ==
  Passes(<<"SQLHDBC", "ILEpointer">>, <<"ARG_INT32", "ARG_MEMPTR">>)
ILE_SQLBindCol ==
  Passes(<<"SQLHSTMT", "SQLSMALLINT", "SQLSMALLINT", "ILEpointer", "SQLINTEGER",
           "ILEpointer">>,
         <<"ARG_INT32", "ARG_INT16", "ARG_INT16", "ARG_MEMPTR", "ARG_INT32",
           "ARG_MEMPTR">>)
ILE_SQLBindFileToCol ==
  Passes(<<"SQLHSTMT", "SQLSMALLINT", "ILEpointer", "ILEpointer", "ILEpointer",
           "SQLSMALLINT", "ILEpointer", "ILEpointer">>,
         <<"ARG_INT32", "ARG_INT16", "ARG_MEMPTR", "ARG_MEMPTR", "ARG_MEMPTR",
           "ARG_INT16", "ARG_MEMPTR", "ARG_MEMPTR">>)
ILE_SQLBindFileToParam ==
  Passes(<<"SQLHSTMT", "SQLSMALLINT", "SQLSMALLINT", "ILEpointer", "ILEpointer",
           "ILEpointer", "SQLSMALLINT", "ILEpointer">>,
         <<"ARG_INT32", "ARG_INT16", "ARG_INT16", "ARG_MEMPTR", "ARG_MEMPTR",
           "ARG_MEMPTR", "ARG_INT16", "ARG_MEMPTR">>)
ILE_SQLBindParam ==
  Passes(<<"SQLHSTMT", "SQLSMALLINT", "SQLSMALLINT", "SQLSMALLINT",
           "SQLINTEGER", "SQLSMALLINT", "ILEpointer", "ILEpointer">>,
         <<"ARG_INT32", "ARG_INT16", "ARG_INT16", "ARG_INT16", "ARG_INT32",
           "ARG_INT16", "ARG_MEMPTR", "ARG_MEMPTR">>)
ILE_SQLBindParameter ==
  Passes(<<"SQLHSTMT", "SQLSMALLINT", "SQLSMALLINT", "SQLSMALLINT",
           "SQLSMALLINT", "SQLINTEGER", "SQLSMALLINT", "ILEpointer",
           "SQLINTEGER", "ILEpointer">>,
         <<"ARG_INT32", "ARG_INT16", "ARG_INT16", "ARG_INT16", "ARG_INT16",
           "ARG_INT32", "ARG_INT16", "ARG_MEMPTR", "ARG_INT32", "ARG_MEMPTR">>)
ILE_SQLCancel == Passes(<<"SQLHSTMT">>, <<"ARG_INT32">>)
ILE_SQLCloseCursor == Passes(<<"SQLHSTMT">>, <<"ARG_INT32">>)
ILE_SQLColAttribute ==
  Passes(<<"SQLHSTMT", "SQLSMALLINT", "SQLSMALLINT", "ILEpointer",
           "SQLSMALLINT", "ILEpointer", "ILEpointer">>,
         <<"ARG_INT32", "ARG_INT16", "ARG_INT16", "ARG_MEMPTR", "ARG_INT16",
           "ARG_MEMPTR", "ARG_MEMPTR">>)
ILE_SQLColAttributes ==
  Passes(<<"SQLHSTMT", "SQLSMALLINT", "SQLSMALLINT", "ILEpointer", "SQLINTEGER",
           "ILEpointer", "ILEpointer">>,
         <<"ARG_INT32", "ARG_INT16", "ARG_INT16", "ARG_MEMPTR", "ARG_INT32",
           "ARG_MEMPTR", "ARG_MEMPTR">>)
ILE_SQLColumnPrivileges ==
  Passes(<<"SQLHSTMT", "ILEpointer", "SQLSMALLINT", "ILEpointer", "SQLSMALLINT",
           "ILEpointer", "SQLSMALLINT", "ILEpointer", "SQLSMALLINT">>,
         <<"ARG_INT32", "ARG_MEMPTR", "ARG_INT16", "ARG_MEMPTR", "ARG_INT16",
           "ARG_MEMPTR", "ARG_INT16", "ARG_MEMPTR", "ARG_INT16">>)
ILE_SQLColumns ==
  Passes(<<"SQLHSTMT", "ILEpointer", "SQLSMALLINT", "ILEpointer", "SQLSMALLINT",
           "ILEpointer", "SQLSMALLINT", "ILEpointer", "SQLSMALLINT">>,
         <<"ARG_INT32", "ARG_MEMPTR", "ARG_INT16", "ARG_MEMPTR", "ARG_INT16",
           "ARG_MEMPTR", "ARG_INT16", "ARG_MEMPTR", "ARG_INT16">>)
ILE_SQLConnect ==
  Passes(<<"SQLHDBC", "ILEpointer", "SQLSMALLINT", "ILEpointer", "SQLSMALLINT",
           "ILEpointer", "SQLSMALLINT">>,
         <<"ARG_INT32", "ARG_MEMPTR", "ARG_INT16", "ARG_MEMPTR", "ARG_INT16",
           "ARG_MEMPTR", "ARG_INT16">>)
ILE_SQLCopyDesc ==
  Passes(<<"SQLHDESC", "SQLHDESC">>, <<"ARG_INT32", "ARG_INT32">>)
ILE_SQLDataSources ==
  Passes(<<"SQLHENV", "SQLSMALLINT", "ILEpointer", "SQLSMALLINT", "ILEpointer",
           "ILEpointer", "SQLSMALLINT", "ILEpointer">>,
         <<"ARG_INT32", "ARG_INT16", "ARG_MEMPTR", "ARG_INT16", "ARG_MEMPTR",
           "ARG_MEMPTR", "ARG_INT16", "ARG_MEMPTR">>)
ILE_SQLDescribeCol ==
  Passes(<<"SQLHSTMT", "SQLSMALLINT", "ILEpointer", "SQLSMALLINT", "ILEpointer",
           "ILEpointer", "ILEpointer", "ILEpointer", "ILEpointer">>,
         <<"ARG_INT32", "ARG_INT16", "ARG_MEMPTR", "ARG_INT16", "ARG_MEMPTR",
           "ARG_MEMPTR", "ARG_MEMPTR", "ARG_MEMPTR", "ARG_MEMPTR">>)
ILE_SQLDescribeParam ==
  Passes(<<"SQLHSTMT", "SQLSMALLINT", "ILEpointer", "ILEpointer", "ILEpointer",
           "ILEpointer">>,
         <<"ARG_INT32", "ARG_INT16", "ARG_MEMPTR", "ARG_MEMPTR", "ARG_MEMPTR",
           "ARG_MEMPTR">>)
ILE_SQLDisconnect == Passes(<<"SQLHDBC">>, <<"ARG_INT32">>)
ILE_SQLDriverConnect ==
  Passes(<<"SQLHDBC", "ILEpointer", "ILEpointer", "SQLSMALLINT", "ILEpointer",
           "SQLSMALLINT", "ILEpointer", "SQLSMALLINT">>,
         <<"ARG_INT32", "ARG_MEMPTR", "ARG_MEMPTR", "ARG_INT16", "ARG_MEMPTR",
           "ARG_INT16", "ARG_MEMPTR", "ARG_INT16">>)
ILE_SQLEndTran ==
  Passes(<<"SQLSMALLINT", "SQLHENV", "SQLSMALLINT">>,
         <<"ARG_INT16", "ARG_INT32", "ARG_INT16">>)
ILE_SQLError ==
  Passes(<<"SQLHENV", "SQLHDBC", "SQLHSTMT", "ILEpointer", "ILEpointer",
           "ILEpointer", "SQLSMALLINT", "ILEpointer">>,
         <<"ARG_INT32", "ARG_INT32", "ARG_INT32", "ARG_MEMPTR", "ARG_MEMPTR",
           "ARG_MEMPTR", "ARG_INT16", "ARG_MEMPTR">>)
ILE_SQLExecDirect ==
  Passes(<<"SQLHSTMT", "ILEpointer", "SQLINTEGER">>,
         <<"ARG_INT32", "ARG_MEMPTR", "ARG_INT32">>)
ILE_SQLExecute == Passes(<<"SQLHSTMT">>, <<"ARG_INT32">>)
ILE_SQLExtendedFetch ==
  Passes(<<"SQLHSTMT", "SQLSMALLINT", "SQLINTEGER", "ILEpointer",
           "ILEpointer">>,
         <<"ARG_INT32", "ARG_INT16", "ARG_INT32", "ARG_MEMPTR", "ARG_MEMPTR">>)
ILE_SQLFetch == Passes(<<"SQLHSTMT">>, <<"ARG_INT32">>)
\* Mutant of ILE_SQLFetchScroll: the signature says 16 bits of a 32-bit member.
ILE_SQLFetchScrollNarrow ==
  Passes(<<"SQLHSTMT", "SQLSMALLINT", "SQLINTEGER">>,
         <<"ARG_INT32", "ARG_INT16", "ARG_INT16">>)

ILE_SQLFetchScroll ==
  Passes(<<"SQLHSTMT", "SQLSMALLINT", "SQLINTEGER">>,
         <<"ARG_INT32", "ARG_INT16", "ARG_INT32">>)
ILE_SQLForeignKeys ==
  Passes(<<"SQLHSTMT", "ILEpointer", "SQLSMALLINT", "ILEpointer", "SQLSMALLINT",
           "ILEpointer", "SQLSMALLINT", "ILEpointer", "SQLSMALLINT",
           "ILEpointer", "SQLSMALLINT", "ILEpointer", "SQLSMALLINT">>,
         <<"ARG_INT32", "ARG_MEMPTR", "ARG_INT16", "ARG_MEMPTR", "ARG_INT16",
           "ARG_MEMPTR", "ARG_INT16", "ARG_MEMPTR", "ARG_INT16", "ARG_MEMPTR",
           "ARG_INT16", "ARG_MEMPTR", "ARG_INT16">>)
ILE_SQLFreeConnect == Passes(<<"SQLHDBC">>, <<"ARG_INT32">>)
ILE_SQLFreeEnv == Passes(<<"SQLHENV">>, <<"ARG_INT32">>)
ILE_SQLFreeStmt ==
  Passes(<<"SQLHSTMT", "SQLSMALLINT">>, <<"ARG_INT32", "ARG_INT16">>)
ILE_SQLFreeHandle ==
  Passes(<<"SQLSMALLINT", "SQLINTEGER">>, <<"ARG_INT16", "ARG_INT32">>)
ILE_SQLGetCol ==
  Passes(<<"SQLHSTMT", "SQLSMALLINT", "SQLSMALLINT", "ILEpointer", "SQLINTEGER",
           "ILEpointer">>,
         <<"ARG_INT32", "ARG_INT16", "ARG_INT16", "ARG_MEMPTR", "ARG_INT32",
           "ARG_MEMPTR">>)
ILE_SQLGetConnectAttr ==
  Passes(<<"SQLHDBC", "SQLINTEGER", "ILEpointer", "SQLINTEGER", "ILEpointer">>,
         <<"ARG_INT32", "ARG_INT32", "ARG_MEMPTR", "ARG_INT32", "ARG_MEMPTR">>)
ILE_SQLGetConnectOption ==
  Passes(<<"SQLHDBC", "SQLSMALLINT", "ILEpointer">>,
         <<"ARG_INT32", "ARG_INT16", "ARG_MEMPTR">>)
ILE_SQLGetCursorName ==
  Passes(<<"SQLHSTMT", "ILEpointer", "SQLSMALLINT", "ILEpointer">>,
         <<"ARG_INT32", "ARG_MEMPTR", "ARG_INT16", "ARG_MEMPTR">>)
ILE_SQLGetData ==
  Passes(<<"SQLHSTMT", "SQLSMALLINT", "SQLSMALLINT", "ILEpointer", "SQLINTEGER",
           "ILEpointer">>,
         <<"ARG_INT32", "ARG_INT16", "ARG_INT16", "ARG_MEMPTR", "ARG_INT32",
           "ARG_MEMPTR">>)
ILE_SQLGetDescField ==
  PassesBack(<<"SQLHDESC", "SQLSMALLINT", "SQLSMALLINT", "ILEpointer",
               "SQLINTEGER", "ILEpointer">>,
             <<"ARG_INT32", "ARG_INT16", "ARG_INT16", "ARG_MEMPTR", "ARG_INT32",
               "ARG_MEMPTR">>, "fValue")
ILE_SQLGetDescRec ==
  Passes(<<"SQLHDESC", "SQLSMALLINT", "ILEpointer", "SQLSMALLINT", "ILEpointer",
           "ILEpointer", "ILEpointer", "ILEpointer", "ILEpointer", "ILEpointer",
           "ILEpointer">>,
         <<"ARG_INT32", "ARG_INT16", "ARG_MEMPTR", "ARG_INT16", "ARG_MEMPTR",
           "ARG_MEMPTR", "ARG_MEMPTR", "ARG_MEMPTR", "ARG_MEMPTR", "ARG_MEMPTR",
           "ARG_MEMPTR">>)
ILE_SQLGetDiagField ==
  Passes(<<"SQLSMALLINT", "SQLINTEGER", "SQLSMALLINT", "SQLSMALLINT",
           "ILEpointer", "SQLSMALLINT", "ILEpointer">>,
         <<"ARG_INT16", "ARG_INT32", "ARG_INT16", "ARG_INT16", "ARG_MEMPTR",
           "ARG_INT16", "ARG_MEMPTR">>)
ILE_SQLGetDiagRec ==
  Passes(<<"SQLSMALLINT", "SQLINTEGER", "SQLSMALLINT", "ILEpointer",
           "ILEpointer", "ILEpointer", "SQLSMALLINT", "ILEpointer">>,
         <<"ARG_INT16", "ARG_INT32", "ARG_INT16", "ARG_MEMPTR", "ARG_MEMPTR",
           "ARG_MEMPTR", "ARG_INT16", "ARG_MEMPTR">>)
ILE_SQLGetEnvAttr ==
  Passes(<<"SQLHENV", "SQLINTEGER", "ILEpointer", "SQLINTEGER", "ILEpointer">>,
         <<"ARG_INT32", "ARG_INT32", "ARG_MEMPTR", "ARG_INT32", "ARG_MEMPTR">>)
ILE_SQLGetFunctions ==
  Passes(<<"SQLHDBC", "SQLSMALLINT", "ILEpointer">>,
         <<"ARG_INT32", "ARG_INT16", "ARG_MEMPTR">>)
ILE_SQLGetInfo ==
  Passes(<<"SQLHDBC", "SQLSMALLINT", "ILEpointer", "SQLSMALLINT",
           "ILEpointer">>,
         <<"ARG_INT32", "ARG_INT16", "ARG_MEMPTR", "ARG_INT16", "ARG_MEMPTR">>)
ILE_SQLGetLength ==
  Passes(<<"SQLHSTMT", "SQLSMALLINT", "SQLINTEGER", "ILEpointer",
           "ILEpointer">>,
         <<"ARG_INT32", "ARG_INT16", "ARG_INT32", "ARG_MEMPTR", "ARG_MEMPTR">>)
ILE_SQLGetPosition ==
  Passes(<<"SQLHSTMT", "SQLSMALLINT", "SQLINTEGER", "SQLINTEGER", "ILEpointer",
           "SQLINTEGER", "SQLINTEGER", "ILEpointer", "ILEpointer">>,
         <<"ARG_INT32", "ARG_INT16", "ARG_INT32", "ARG_INT32", "ARG_MEMPTR",
           "ARG_INT32", "ARG_INT32", "ARG_MEMPTR", "ARG_MEMPTR">>)
ILE_SQLGetStmtAttr ==
  Passes(<<"SQLHSTMT", "SQLINTEGER", "ILEpointer", "SQLINTEGER", "ILEpointer">>,
         <<"ARG_INT32", "ARG_INT32", "ARG_MEMPTR", "ARG_INT32", "ARG_MEMPTR">>)
ILE_SQLGetStmtOption ==
  Passes(<<"SQLHSTMT", "SQLSMALLINT", "ILEpointer">>,
         <<"ARG_INT32", "ARG_INT16", "ARG_MEMPTR">>)
ILE_SQLGetSubString ==
  Passes(<<"SQLHSTMT", "SQLSMALLINT", "SQLINTEGER", "SQLINTEGER", "SQLINTEGER",
           "SQLSMALLINT", "ILEpointer", "SQLINTEGER", "ILEpointer",
           "ILEpointer">>,
         <<"ARG_INT32", "ARG_INT16", "ARG_INT32", "ARG_INT32", "ARG_INT32",
           "ARG_INT16", "ARG_MEMPTR", "ARG_INT32", "ARG_MEMPTR", "ARG_MEMPTR">>)
ILE_SQLGetTypeInfo ==
  Passes(<<"SQLHSTMT", "SQLSMALLINT">>, <<"ARG_INT32", "ARG_INT16">>)
ILE_SQLLanguages == Passes(<<"SQLHSTMT">>, <<"ARG_INT32">>)
ILE_SQLMoreResults == Passes(<<"SQLHSTMT">>, <<"ARG_INT32">>)
ILE_SQLNativeSql ==
  Passes(<<"SQLHDBC", "ILEpointer", "SQLINTEGER", "ILEpointer", "SQLINTEGER",
           "ILEpointer">>,
         <<"ARG_INT32", "ARG_MEMPTR", "ARG_INT32", "ARG_MEMPTR", "ARG_INT32",
           "ARG_MEMPTR">>)
ILE_SQLNextResult ==
  Passes(<<"SQLHSTMT", "SQLHSTMT">>, <<"ARG_INT32", "ARG_INT32">>)
ILE_SQLNumParams ==
  Passes(<<"SQLHSTMT", "ILEpointer">>, <<"ARG_INT32", "ARG_MEMPTR">>)
ILE_SQLNumResultCols ==
  Passes(<<"SQLHSTMT", "ILEpointer">>, <<"ARG_INT32", "ARG_MEMPTR">>)
ILE_SQLParamData ==
  PassesBack(<<"SQLHSTMT", "ILEpointer">>, <<"ARG_INT32", "ARG_MEMPTR">>,
             "Value")
ILE_SQLParamOptions ==
  Passes(<<"SQLHSTMT", "SQLINTEGER", "ILEpointer">>,
         <<"ARG_INT32", "ARG_INT32", "ARG_MEMPTR">>)
ILE_SQLPrepare ==
  Passes(<<"SQLHSTMT", "ILEpointer", "SQLINTEGER">>,
         <<"ARG_INT32", "ARG_MEMPTR", "ARG_INT32">>)
ILE_SQLPrimaryKeys ==
  Passes(<<"SQLHSTMT", "ILEpointer", "SQLSMALLINT", "ILEpointer", "SQLSMALLINT",
           "ILEpointer", "SQLSMALLINT">>,
         <<"ARG_INT32", "ARG_MEMPTR", "ARG_INT16", "ARG_MEMPTR", "ARG_INT16",
           "ARG_MEMPTR", "ARG_INT16">>)
ILE_SQLProcedureColumns ==
  Passes(<<"SQLHSTMT", "ILEpointer", "SQLSMALLINT", "ILEpointer", "SQLSMALLINT",
           "ILEpointer", "SQLSMALLINT", "ILEpointer", "SQLSMALLINT">>,
         <<"ARG_INT32", "ARG_MEMPTR", "ARG_INT16", "ARG_MEMPTR", "ARG_INT16",
           "ARG_MEMPTR", "ARG_INT16", "ARG_MEMPTR", "ARG_INT16">>)
ILE_SQLProcedures ==
  Passes(<<"SQLHSTMT", "ILEpointer", "SQLSMALLINT", "ILEpointer", "SQLSMALLINT",
           "ILEpointer", "SQLSMALLINT">>,
         <<"ARG_INT32", "ARG_MEMPTR", "ARG_INT16", "ARG_MEMPTR", "ARG_INT16",
           "ARG_MEMPTR", "ARG_INT16">>)
ILE_SQLPutData ==
  Passes(<<"SQLHSTMT", "ILEpointer", "SQLINTEGER">>,
         <<"ARG_INT32", "ARG_MEMPTR", "ARG_INT32">>)
ILE_SQLReleaseEnv == Passes(<<"SQLHENV">>, <<"ARG_INT32">>)
ILE_SQLRowCount ==
  Passes(<<"SQLHSTMT", "ILEpointer">>, <<"ARG_INT32", "ARG_MEMPTR">>)
ILE_SQLSetConnectAttr ==
  Passes(<<"SQLHDBC", "SQLINTEGER", "ILEpointer", "SQLINTEGER">>,
         <<"ARG_INT32", "ARG_INT32", "ARG_MEMPTR", "ARG_INT32">>)
ILE_SQLSetConnectOption ==
  Passes(<<"SQLHDBC", "SQLSMALLINT", "ILEpointer">>,
         <<"ARG_INT32", "ARG_INT16", "ARG_MEMPTR">>)
ILE_SQLSetCursorName ==
  Passes(<<"SQLHSTMT", "ILEpointer", "SQLSMALLINT">>,
         <<"ARG_INT32", "ARG_MEMPTR", "ARG_INT16">>)
ILE_SQLSetDescField ==
  Passes(<<"SQLHDESC", "SQLSMALLINT", "SQLSMALLINT", "ILEpointer",
           "SQLINTEGER">>,
         <<"ARG_INT32", "ARG_INT16", "ARG_INT16", "ARG_MEMPTR", "ARG_INT32">>)
ILE_SQLSetDescRec ==
  Passes(<<"SQLHDESC", "SQLSMALLINT", "SQLSMALLINT", "SQLSMALLINT",
           "SQLINTEGER", "SQLSMALLINT", "SQLSMALLINT", "ILEpointer",
           "ILEpointer", "ILEpointer">>,
         <<"ARG_INT32", "ARG_INT16", "ARG_INT16", "ARG_INT16", "ARG_INT32",
           "ARG_INT16", "ARG_INT16", "ARG_MEMPTR", "ARG_MEMPTR", "ARG_MEMPTR">>)
ILE_SQLSetEnvAttr ==
  Passes(<<"SQLHENV", "SQLINTEGER", "ILEpointer", "SQLINTEGER">>,
         <<"ARG_INT32", "ARG_INT32", "ARG_MEMPTR", "ARG_INT32">>)
ILE_SQLSetParam ==
  Passes(<<"SQLHSTMT", "SQLSMALLINT", "SQLSMALLINT", "SQLSMALLINT",
           "SQLINTEGER", "SQLSMALLINT", "ILEpointer", "ILEpointer">>,
         <<"ARG_INT32", "ARG_INT16", "ARG_INT16", "ARG_INT16", "ARG_INT32",
           "ARG_INT16", "ARG_MEMPTR", "ARG_MEMPTR">>)
ILE_SQLSetStmtAttr ==
  Passes(<<"SQLHSTMT", "SQLINTEGER", "ILEpointer", "SQLINTEGER">>,
         <<"ARG_INT32", "ARG_INT32", "ARG_MEMPTR", "ARG_INT32">>)
ILE_SQLSetStmtOption ==
  Passes(<<"SQLHSTMT", "SQLSMALLINT", "ILEpointer">>,
         <<"ARG_INT32", "ARG_INT16", "ARG_MEMPTR">>)
ILE_SQLSpecialColumns ==
  Passes(<<"SQLHSTMT", "SQLSMALLINT", "ILEpointer", "SQLSMALLINT", "ILEpointer",
           "SQLSMALLINT", "ILEpointer", "SQLSMALLINT", "SQLSMALLINT",
           "SQLSMALLINT">>,
         <<"ARG_INT32", "ARG_INT16", "ARG_MEMPTR", "ARG_INT16", "ARG_MEMPTR",
           "ARG_INT16", "ARG_MEMPTR", "ARG_INT16", "ARG_INT16", "ARG_INT16">>)
ILE_SQLStartTran ==
  Passes(<<"SQLSMALLINT", "SQLHENV", "SQLINTEGER", "SQLINTEGER">>,
         <<"ARG_INT16", "ARG_INT32", "ARG_INT32", "ARG_INT32">>)
ILE_SQLStatistics ==
  Passes(<<"SQLHSTMT", "ILEpointer", "SQLSMALLINT", "ILEpointer", "SQLSMALLINT",
           "ILEpointer", "SQLSMALLINT", "SQLSMALLINT", "SQLSMALLINT">>,
         <<"ARG_INT32", "ARG_MEMPTR", "ARG_INT16", "ARG_MEMPTR", "ARG_INT16",
           "ARG_MEMPTR", "ARG_INT16", "ARG_INT16", "ARG_INT16">>)
ILE_SQLTablePrivileges ==
  Passes(<<"SQLHSTMT", "ILEpointer", "SQLSMALLINT", "ILEpointer", "SQLSMALLINT",
           "ILEpointer", "SQLSMALLINT">>,
         <<"ARG_INT32", "ARG_MEMPTR", "ARG_INT16", "ARG_MEMPTR", "ARG_INT16",
           "ARG_MEMPTR", "ARG_INT16">>)
ILE_SQLTables ==
  Passes(<<"SQLHSTMT", "ILEpointer", "SQLSMALLINT", "ILEpointer", "SQLSMALLINT",
           "ILEpointer", "SQLSMALLINT", "ILEpointer", "SQLSMALLINT">>,
         <<"ARG_INT32", "ARG_MEMPTR", "ARG_INT16", "ARG_MEMPTR", "ARG_INT16",
           "ARG_MEMPTR", "ARG_INT16", "ARG_MEMPTR", "ARG_INT16">>)
ILE_SQLTransact ==
  Passes(<<"SQLHENV", "SQLHDBC", "SQLSMALLINT">>,
         <<"ARG_INT32", "ARG_INT32", "ARG_INT16">>)

-----------------------------------------------------------------------------
IleCalls ==
  [SQLAllocConnect |-> ILE_SQLAllocConnect, SQLAllocEnv |-> ILE_SQLAllocEnv,
   SQLAllocHandle |-> ILE_SQLAllocHandle, SQLAllocStmt |-> ILE_SQLAllocStmt,
   SQLBindCol |-> ILE_SQLBindCol, SQLBindFileToCol |-> ILE_SQLBindFileToCol,
   SQLBindFileToParam |-> ILE_SQLBindFileToParam,
   SQLBindParam |-> ILE_SQLBindParam,
   SQLBindParameter |-> ILE_SQLBindParameter, SQLCancel |-> ILE_SQLCancel,
   SQLCloseCursor |-> ILE_SQLCloseCursor,
   SQLColAttribute |-> ILE_SQLColAttribute,
   SQLColAttributeW |-> ILE_SQLColAttribute,
   SQLColAttributes |-> ILE_SQLColAttributes,
   SQLColAttributesW |-> ILE_SQLColAttributes,
   SQLColumnPrivileges |-> ILE_SQLColumnPrivileges,
   SQLColumnPrivilegesW |-> ILE_SQLColumnPrivileges,
   SQLColumns |-> ILE_SQLColumns, SQLColumnsW |-> ILE_SQLColumns,
   SQLConnect |-> ILE_SQLConnect, SQLConnectW |-> ILE_SQLConnect,
   SQLCopyDesc |-> ILE_SQLCopyDesc, SQLDataSources |-> ILE_SQLDataSources,
   SQLDataSourcesW |-> ILE_SQLDataSources,
   SQLDescribeCol |-> ILE_SQLDescribeCol,
   SQLDescribeColW |-> ILE_SQLDescribeCol,
   SQLDescribeParam |-> ILE_SQLDescribeParam,
   SQLDisconnect |-> ILE_SQLDisconnect,
   SQLDriverConnect |-> ILE_SQLDriverConnect,
   SQLDriverConnectW |-> ILE_SQLDriverConnect, SQLEndTran |-> ILE_SQLEndTran,
   SQLError |-> ILE_SQLError, SQLErrorW |-> ILE_SQLError,
   SQLExecDirect |-> ILE_SQLExecDirect, SQLExecDirectW |-> ILE_SQLExecDirect,
   SQLExecute |-> ILE_SQLExecute, SQLExtendedFetch |-> ILE_SQLExtendedFetch,
   SQLFetch |-> ILE_SQLFetch, SQLFetchScroll |-> ILE_SQLFetchScroll,
   SQLForeignKeys |-> ILE_SQLForeignKeys,
   SQLForeignKeysW |-> ILE_SQLForeignKeys,
   SQLFreeConnect |-> ILE_SQLFreeConnect, SQLFreeEnv |-> ILE_SQLFreeEnv,
   SQLFreeStmt |-> ILE_SQLFreeStmt, SQLFreeHandle |-> ILE_SQLFreeHandle,
   SQLGetCol |-> ILE_SQLGetCol, SQLGetColW |-> ILE_SQLGetCol,
   SQLGetConnectAttr |-> ILE_SQLGetConnectAttr,
   SQLGetConnectAttrW |-> ILE_SQLGetConnectAttr,
   SQLGetConnectOption |-> ILE_SQLGetConnectOption,
   SQLGetConnectOptionW |-> ILE_SQLGetConnectOption,
   SQLGetCursorName |-> ILE_SQLGetCursorName,
   SQLGetCursorNameW |-> ILE_SQLGetCursorName, SQLGetData |-> ILE_SQLGetData,
   SQLGetDescField |-> ILE_SQLGetDescField,
   SQLGetDescFieldW |-> ILE_SQLGetDescField,
   SQLGetDescRec |-> ILE_SQLGetDescRec, SQLGetDescRecW |-> ILE_SQLGetDescRec,
   SQLGetDiagField |-> ILE_SQLGetDiagField,
   SQLGetDiagFieldW |-> ILE_SQLGetDiagField,
   SQLGetDiagRec |-> ILE_SQLGetDiagRec, SQLGetDiagRecW |-> ILE_SQLGetDiagRec,
   SQLGetEnvAttr |-> ILE_SQLGetEnvAttr,
   SQLGetFunctions |-> ILE_SQLGetFunctions, SQLGetInfo |-> ILE_SQLGetInfo,
   SQLGetInfoW |-> ILE_SQLGetInfo, SQLGetLength |-> ILE_SQLGetLength,
   SQLGetPosition |-> ILE_SQLGetPosition,
   SQLGetPositionW |-> ILE_SQLGetPosition,
   SQLGetStmtAttr |-> ILE_SQLGetStmtAttr,
   SQLGetStmtAttrW |-> ILE_SQLGetStmtAttr,
   SQLGetStmtOption |-> ILE_SQLGetStmtOption,
   SQLGetStmtOptionW |-> ILE_SQLGetStmtOption,
   SQLGetSubString |-> ILE_SQLGetSubString,
   SQLGetSubStringW |-> ILE_SQLGetSubString,
   SQLGetTypeInfo |-> ILE_SQLGetTypeInfo,
   SQLGetTypeInfoW |-> ILE_SQLGetTypeInfo, SQLLanguages |-> ILE_SQLLanguages,
   SQLMoreResults |-> ILE_SQLMoreResults, SQLNativeSql |-> ILE_SQLNativeSql,
   SQLNativeSqlW |-> ILE_SQLNativeSql, SQLNextResult |-> ILE_SQLNextResult,
   SQLNumParams |-> ILE_SQLNumParams,
   SQLNumResultCols |-> ILE_SQLNumResultCols,
   SQLParamData |-> ILE_SQLParamData, SQLParamOptions |-> ILE_SQLParamOptions,
   SQLPrepare |-> ILE_SQLPrepare, SQLPrepareW |-> ILE_SQLPrepare,
   SQLPrimaryKeys |-> ILE_SQLPrimaryKeys,
   SQLPrimaryKeysW |-> ILE_SQLPrimaryKeys,
   SQLProcedureColumns |-> ILE_SQLProcedureColumns,
   SQLProcedureColumnsW |-> ILE_SQLProcedureColumns,
   SQLProcedures |-> ILE_SQLProcedures, SQLProceduresW |-> ILE_SQLProcedures,
   SQLPutData |-> ILE_SQLPutData, SQLReleaseEnv |-> ILE_SQLReleaseEnv,
   SQLRowCount |-> ILE_SQLRowCount,
   SQLSetConnectAttr |-> ILE_SQLSetConnectAttr,
   SQLSetConnectAttrW |-> ILE_SQLSetConnectAttr,
   SQLSetConnectOption |-> ILE_SQLSetConnectOption,
   SQLSetConnectOptionW |-> ILE_SQLSetConnectOption,
   SQLSetCursorName |-> ILE_SQLSetCursorName,
   SQLSetCursorNameW |-> ILE_SQLSetCursorName,
   SQLSetDescField |-> ILE_SQLSetDescField,
   SQLSetDescFieldW |-> ILE_SQLSetDescField,
   SQLSetDescRec |-> ILE_SQLSetDescRec, SQLSetEnvAttr |-> ILE_SQLSetEnvAttr,
   SQLSetParam |-> ILE_SQLSetParam, SQLSetStmtAttr |-> ILE_SQLSetStmtAttr,
   SQLSetStmtAttrW |-> ILE_SQLSetStmtAttr,
   SQLSetStmtOption |-> ILE_SQLSetStmtOption,
   SQLSetStmtOptionW |-> ILE_SQLSetStmtOption,
   SQLSpecialColumns |-> ILE_SQLSpecialColumns,
   SQLSpecialColumnsW |-> ILE_SQLSpecialColumns,
   SQLStartTran |-> ILE_SQLStartTran, SQLStatistics |-> ILE_SQLStatistics,
   SQLStatisticsW |-> ILE_SQLStatistics,
   SQLTablePrivileges |-> ILE_SQLTablePrivileges,
   SQLTablePrivilegesW |-> ILE_SQLTablePrivileges, SQLTables |-> ILE_SQLTables,
   SQLTablesW |-> ILE_SQLTables, SQLTransact |-> ILE_SQLTransact]

-----------------------------------------------------------------------------
(* Where an argument is.                                                     *)

\* Size and alignment in bytes of a member and of an argument.  An address is
\* an ILE pointer of 16 bytes on a boundary of 16, in 32 and in 64 bits.
MemberSize(type) == CASE type = "ILEpointer" -> 16
                      [] type = "SQLSMALLINT" -> 2
                      [] OTHER -> 4

ArgSize(arg) == CASE arg = "ARG_MEMPTR" -> 16
                  [] arg = "ARG_INT16" -> 2
                  [] arg = "ARG_INT32" -> 4

\* Offsets of items laid out one after the other, each on a multiple of its size.
Offsets(sizes) ==
  LET aligned(at, size) == ((at + size - 1) \div size) * size
      end[i \in 0 .. Len(sizes)] ==
        IF i = 0 THEN 0 ELSE aligned(end[i - 1], sizes[i]) + sizes[i]
  IN  [i \in 1 .. Len(sizes) |-> end[i] - sizes[i]]

\* Every argument of f is where DB2 looks for it, and has the width it reads.
ArgumentsAgree(f) ==
  LET members == [i \in DOMAIN IleCalls[f].members |-> MemberSize(IleCalls[f].members[i])]
      args    == [i \in DOMAIN IleCalls[f].sig |-> ArgSize(IleCalls[f].sig[i])]
  IN  members = args /\ Offsets(members) = Offsets(args)
================================================================================
