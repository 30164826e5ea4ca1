-------------------------------- MODULE Db2Cli --------------------------------
(***************************************************************************)
(* What the driver relies on from DB2 for i (the ILE service program        *)
(* QSYS/QSQCLI that the ILE_SQL... routines call): which handles exist,     *)
(* which connection a statement belongs to and whether it is connected.     *)
(* External code, reduced to what the driver's own state must agree with.   *)
(***************************************************************************)
EXTENDS PaseCliInit

\* kind of a handle, the connection it belongs to (itself for a connection).
Db2Handle == [kind : {"free", "dbc", "stmt"}, parent : Slots, connected : BOOLEAN]

Db2Free == [kind |-> "free", parent |-> 0, connected |-> FALSE]

Db2Alive(d, h) == d[h].kind # "free"

\* Statements and descriptors of connection c that DB2 still knows.
Db2Stmts(d, c) == {i \in Slots : d[i].kind = "stmt" /\ d[i].parent = c}

\* SQLAllocConnect: any number that is not in use.
Db2NewDbc(d, h) == [d EXCEPT ![h] = [kind |-> "dbc", parent |-> h, connected |-> FALSE]]

\* SQLAllocStmt on a connected connection.
Db2NewStmt(d, h, c) == [d EXCEPT ![h] = [kind |-> "stmt", parent |-> c, connected |-> FALSE]]

Db2Connect(d, c) == [d EXCEPT ![c].connected = TRUE]

\* SQLDisconnect frees the statements of the connection.
Db2Disconnect(d, c) ==
  [i \in Slots |-> IF i \in Db2Stmts(d, c) THEN Db2Free
                   ELSE IF i = c THEN [d[i] EXCEPT !.connected = FALSE] ELSE d[i]]

\* SQLFreeStmt(SQL_DROP), SQLFreeHandle(SQL_HANDLE_STMT): an error for a number
\* that names no statement.
Db2FreeStmt(d, h) == IF d[h].kind = "stmt" THEN [d EXCEPT ![h] = Db2Free] ELSE d

\* SQLFreeConnect, SQLFreeHandle(SQL_HANDLE_DBC): an error while connected.
Db2FreeDbc(d, h) ==
  IF d[h].kind = "dbc" /\ ~d[h].connected THEN [d EXCEPT ![h] = Db2Free] ELSE d
=============================================================================
