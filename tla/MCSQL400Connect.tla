---------------------------- MODULE MCSQL400Connect ----------------------------
(***************************************************************************)
(* Bounds for TLC: two threads that open, use and close connections, plain  *)
(* ones and persistent ones of one key; in connect_returns also of a key in *)
(* UTF-16.                                                                  *)
(***************************************************************************)
EXTENDS SQL400Connect, TLC

CONSTANTS t1, t2, k1, k2

MCThreads == {t1, t2}
MCSymmetry == Permutations(MCThreads)
MCKeys == {k1}
BothKeys == {k1, k2}
WideKey == {k2}

OneConnection == {<<2, 2>>, <<3, 2>>}

PersistentOps == {"SQL400pConnect", "SQL400Close", "SQL400pClose", "AllocStmt",
                  "StmtCall", "Disconnect", "FreeConnect"}
CloserOps == LongOps \cup {"AllocStmt", "StmtCall", "FreeStmtDrop", "Disconnect"}
StaleOps == {"SQL400pConnect", "SQL400Close", "Disconnect"}
=============================================================================
