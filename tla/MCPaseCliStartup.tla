--------------------------- MODULE MCPaseCliStartup ---------------------------
(***************************************************************************)
(* Bounds for TLC: the pairs of clients whose first calls can meet.          *)
(***************************************************************************)
EXTENDS PaseCliStartup

CONSTANTS t1, t2

MCThreads == {t1, t2}
Pair(first, second) == [t \in MCThreads |-> IF t = t1 THEN first ELSE second]

Any == <<Do("call", 0)>>
Connect == <<Do("SQL400Connect", 0)>>
Override(n) == <<Do("SQLOverrideCCSID400", n)>>
RawClient == <<Do("SQLAllocEnv", 0), Do("SQLAllocConnect", 0)>>

MCPrograms ==
  {Pair(Connect \o Connect, Connect \o Connect),
   Pair(Override(1208) \o Connect, Connect),
   Pair(Override(1208) \o Any, Override(819) \o Connect),
   Pair(Override(1200), RawClient), Pair(Any \o Override(1208), RawClient),
   Pair(RawClient, Connect \o Connect), Pair(RawClient, RawClient)}
=============================================================================
