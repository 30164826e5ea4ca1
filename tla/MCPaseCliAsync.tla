---------------------------- MODULE MCPaseCliAsync ----------------------------
(***************************************************************************)
(* Bounds for TLC: the client and two threads it creates, on one connection *)
(* with a statement and on a persistent connection.                         *)
(***************************************************************************)
EXTENDS PaseCliAsync

CONSTANTS main, c1, c2, k1

MCThreads == {main, c1, c2}
OneChild == {main, c1}
MCKeys == {k1}
TwoConnections == {<<2, 2>>, <<3, 2>>, <<4, 4>>}
OneConnection == {<<2, 2>>, <<3, 2>>}

AllAsyncOps == {"StmtCall", "ConnCall", "EndTran", "Disconnect"}
PollOps == {"StmtCall", "ConnCall"}
Waits == {"WAIT"}
Polls == {"NO_WAIT"}
Both == {"WAIT", "NO_WAIT"}
=============================================================================
