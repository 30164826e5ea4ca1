----------------------------- MODULE MCPaseCliCall -----------------------------
(***************************************************************************)
(* Bounds for TLC: two threads share the connections that are open, one     *)
(* with statements and, in call_shared, a persistent one (handle 4).        *)
(***************************************************************************)
EXTENDS PaseCliCall, TLC

CONSTANTS t1, t2, k1

MCThreads == {t1, t2}
MCKeys == {k1}
MCSymmetry == Permutations(MCThreads)

SharedConnection == {<<2, 2>>, <<3, 2>>, <<4, 2>>}
TwoConnections == {<<2, 2>>, <<3, 2>>, <<4, 4>>}

EveryOp == CallOps
AllOps == CallOps \ {"FreeStmtClose"}
CloseOps == {"StmtCall", "FreeStmtClose"}
=============================================================================
