------------------------------ MODULE Db2Sessions ------------------------------
(***************************************************************************)
(* What the driver promises the clients of its exported functions, without  *)
(* its table, its locks and the steps of a call: connections that own       *)
(* statements, at most one call at work on each connection, and handles     *)
(* that stay usable as long as a client holds them.                         *)
(***************************************************************************)
CONSTANTS
  Handles,  \* the numbers DB2 has for connections and statements
  Threads,  \* the threads of the clients
  None      \* no handle

VARIABLES
  owner,      \* the connection a handle belongs to: itself for a connection
  connected,  \* the connections that are connected
  inside,     \* the handle each thread is at work on
  held        \* the handles the clients hold

sessions == <<owner, connected, inside, held>>

Alive == {h \in Handles : owner[h] # None}

Connection(h) == h \in Alive /\ owner[h] = h

Statements(c) == {h \in Alive : owner[h] = c} \ {c}

\* Somebody is at work on the connection, or on a statement of it.
AtWork(c) == \E t \in Threads : inside[t] # None /\ owner[inside[t]] = c

Init ==
  /\ owner \in [Handles -> Handles \cup {None}]
  /\ \A h \in Alive : Connection(owner[h])
  /\ connected \subseteq {h \in Handles : Connection(h)}
  /\ inside = [t \in Threads |-> None]
  /\ held = Alive

-----------------------------------------------------------------------------
NewConnection(h) ==
  /\ h \notin Alive
  /\ owner' = [owner EXCEPT ![h] = h]
  /\ UNCHANGED <<connected, inside, held>>

NewStatement(h, c) ==
  /\ h \notin Alive /\ c \in connected
  /\ owner' = [owner EXCEPT ![h] = c]
  /\ UNCHANGED <<connected, inside, held>>

\* Handles reach the clients: new ones, or those of a release that was refused.
Hand(given) ==
  /\ given \subseteq Alive
  /\ held' = held \cup given
  /\ UNCHANGED <<owner, connected, inside>>

\* A client asks for the release of a handle and uses it no more.
GiveBack(given) ==
  /\ held' = held \ given
  /\ UNCHANGED <<owner, connected, inside>>

\* A call begins its work when nobody else is at work on the connection.
Enter(t, h) ==
  /\ inside[t] = None /\ h \in Alive
  /\ ~AtWork(owner[h])
  /\ inside' = [inside EXCEPT ![t] = h]
  /\ UNCHANGED <<owner, connected, held>>

\* A connection others may come to before the call that connects it ends its work.
Appear(t) ==
  /\ inside[t] # None /\ Connection(inside[t])
  /\ connected' = connected \cup {inside[t]}
  /\ UNCHANGED <<owner, inside, held>>

\* A call ends its work, after which a connection may be connected, or be
\* disconnected and have lost its statements, which no client holds.
Leave(t) ==
  /\ inside[t] # None
  /\ inside' = [inside EXCEPT ![t] = None]
  /\ \E given \in SUBSET Alive : held' = held \cup given
  /\ \/ UNCHANGED <<owner, connected>>
     \/ /\ Connection(inside[t])
        /\ connected' = connected \cup {inside[t]}
        /\ UNCHANGED owner
     \/ /\ Connection(inside[t])
        /\ connected' = connected \ {inside[t]}
        /\ owner' = [h \in Handles |-> IF h \in Statements(inside[t]) THEN None ELSE owner[h]]
        /\ held' \cap Statements(inside[t]) = {}

\* A handle ends: nobody holds it or is at work on it.
DropStatement(h) ==
  /\ h \in Alive \ held /\ ~Connection(h)
  /\ \A t \in Threads : inside[t] # h
  /\ owner' = [owner EXCEPT ![h] = None]
  /\ UNCHANGED <<connected, inside, held>>

DropConnection(c) ==
  /\ c \notin held /\ Connection(c) /\ c \notin connected
  /\ Statements(c) = {} /\ ~AtWork(c)
  /\ owner' = [owner EXCEPT ![c] = None]
  /\ UNCHANGED <<connected, inside, held>>

Next ==
  \/ \E h \in Handles :
       \/ NewConnection(h)
       \/ \E c \in Handles : NewStatement(h, c)
       \/ \E t \in Threads : Enter(t, h)
       \/ DropStatement(h)
       \/ DropConnection(h)
  \/ \E t \in Threads : Appear(t) \/ Leave(t)
  \/ \E given \in SUBSET Handles : Hand(given) \/ GiveBack(given)

Spec == Init /\ [][Next]_sessions
=============================================================================
