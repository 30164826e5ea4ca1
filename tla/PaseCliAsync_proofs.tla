-------------------------- MODULE PaseCliAsync_proofs --------------------------
(***************************************************************************)
(* Proofs about the asynchronous forms for any number of threads and jobs,  *)
(* any table and any handles open at the start: a job that waits to begin   *)
(* can still make its call when its thread gets to run, so the invariant of *)
(* the plain calls holds among the threads of jobs too.                     *)
(***************************************************************************)
EXTENDS PaseCliAsync, PaseCliCall_proofs

-----------------------------------------------------------------------------
(* The invariant                                                             *)

JobTypes == job \in [Children -> Job] /\ join \in Join

\* The calls in flight are of the kinds that have an asynchronous form here.
OnlyOps == \A t \in Threads : call[t].at # "idle" => call[t].op \in Ops

\* No call gives a connection a key.
KeysPooled == \A h \in Slots : table[h].hKey # NoKey => h \in Pooled

\* What a job that has not begun will pass is alive and no client can release
\* it; what it will release nobody else uses or holds.
Fresh(c) == job[c].at = "created"

Startable(c) ==
  LET h == job[c].h
  IN  /\ job[c].op \in Ops /\ h \in HandleNums /\ Db2Alive(db2, h)
      /\ job[c].op = "StmtCall" <=> db2[h].kind = "stmt"
      /\ job[c].op # "Disconnect" => h \in known
      /\ job[c].op = "Disconnect" =>
           /\ \A x \in known : db2[x].parent # h
           /\ \A u \in Threads : call[u].at # "idle" => call[u].c # h
           /\ \A d \in Children \ {c} : Fresh(d) => db2[job[d].h].parent # h

Pending == \A c \in Children : Fresh(c) => Startable(c)

RanInCallback == \A c \in Children : job[c].at = "callback" => job[c].ran

AInv ==
  /\ IInv /\ NoStray /\ JobTypes /\ OnlyOps /\ KeysPooled
  /\ Pending /\ RanInCallback /\ CallbackRan

-----------------------------------------------------------------------------
(* Facts about the invariant                                                 *)

LEMMA OpsFacts ==
  /\ Main \in Threads /\ Children \subseteq Threads
  /\ Ops \subseteq {"StmtCall", "ConnCall", "EndTran", "Disconnect"}
BY AsyncAssumption DEF Children

LEMMA NobodyReserves ==
  ASSUME OnlyOps, NEW o
  PROVE  ~Reserved(o)
BY OpsFacts DEF OnlyOps, Reserved, AllocOps

\* Fewer handles known and a call more counted: the invariant of the calls does
\* not mind.
LEMMA ShrinkKeeps ==
  ASSUME IInv, UNCHANGED <<table, mutex, glock, db2, call>>, known' \subseteq known,
         calls' \in [Threads -> 0 .. MaxCalls]
  PROVE  IInv'
<1>1. TypeOK'
  BY DEF IInv, TypeOK
<1>2. /\ Phases' /\ GlobalLock' /\ Mutexes' /\ Db2Tree' /\ AllFiled' /\ KnownAlive'
  BY DEF IInv, Phases, GlobalLock, Mutexes, Db2Tree, AllFiled, KnownAlive, Reserved,
     Filed, Db2Alive
<1>3. Handles' /\ NewHandles' /\ Exclusive' /\ Released'
  BY DEF IInv, Handles, NewHandles, Exclusive, Released, HandleOK, NewOK, InFlight,
     Forgotten, Reserved, Db2Alive
<1> QED BY <1>1, <1>2, <1>3 DEF IInv

\* The connection of a handle a job passes.
LEMMA StartableParent ==
  ASSUME IInv, NEW c \in Children, Startable(c)
  PROVE  /\ db2[job[c].h].parent \in HandleNums
         /\ job[c].op = "Disconnect" =>
              db2[job[c].h].kind = "dbc" /\ db2[job[c].h].parent = job[c].h
<1>1. job[c].h \in Slots /\ db2 \in [Slots -> Db2Handle]
  BY SlotTypes DEF IInv, TypeOK, Startable
<1>2. db2[job[c].h].kind \in {"free", "dbc", "stmt"}
  BY <1>1 DEF Db2Handle
<1> QED BY <1>2 DEF IInv, Db2Tree, Startable, Db2Alive

-----------------------------------------------------------------------------
(* SQLxxxAsync                                                               *)

LEMMA AsyncKeeps ==
  ASSUME AInv, NEW c \in Children, NEW op \in Ops, NEW h \in HandleNums,
         NEW callback \in BOOLEAN, Async(c, op, h, callback)
  PROVE  AInv'
<1> DEFINE new == [at |-> "created", op |-> op, h |-> h, callback |-> callback, ran |-> FALSE]
<1>1. /\ UNCHANGED <<table, mutex, glock, db2, call, join>>
      /\ job' = [job EXCEPT ![c] = new] /\ h \in known
      /\ calls[Main] < MaxCalls /\ calls' = [calls EXCEPT ![Main] = calls[Main] + 1]
      /\ known' = IF op = "Disconnect" THEN known \ GivenBack(h) ELSE known
      /\ call[Main].at = "idle"
  BY DEF Async, MainFree
<1>2. job \in [Children -> Job] /\ h \in Slots
  BY SlotTypes DEF AInv, JobTypes
<1>3. job'[c] = new /\ \A d \in Children \ {c} : job'[d] = job[d]
  BY <1>1, <1>2
<1>4. known' \subseteq known
  BY <1>1
<1>5. IInv'
  <2>1. calls' \in [Threads -> 0 .. MaxCalls]
    BY <1>1, OpsFacts, CallAssumption DEF AInv, IInv, TypeOK
  <2> QED BY <1>1, <1>4, <2>1, ShrinkKeeps DEF AInv
<1>6. JobTypes'
  <2>1. new \in Job
    BY <1>2 DEF Job
  <2> HIDE DEF new
  <2> QED BY <1>1, <1>2, <2>1 DEF AInv, JobTypes
<1>7. NoStray' /\ OnlyOps' /\ KeysPooled'
  BY <1>1 DEF AInv, NoStray, Db2Alive, OnlyOps, KeysPooled
<1>8. RanInCallback' /\ CallbackRan'
  BY <1>3 DEF AInv, RanInCallback, CallbackRan
<1>9. op = "Disconnect" =>
        /\ db2[h].kind = "dbc"
        /\ \A x \in known' : db2[x].parent # h
        /\ \A u \in Threads : call[u].at # "idle" => call[u].c # h
        /\ \A d \in Children : Fresh(d) => db2[job[d].h].parent # h
  <2> SUFFICES ASSUME op = "Disconnect"
               PROVE  /\ db2[h].kind = "dbc"
                      /\ \A x \in known' : db2[x].parent # h
                      /\ \A u \in Threads : call[u].at # "idle" => call[u].c # h
                      /\ \A d \in Children : Fresh(d) => db2[job[d].h].parent # h
    OBVIOUS
  <2>1. db2[h].kind = "dbc" /\ ~InUseByOthers(Main, h) /\ ~PendingOn(h)
    BY DEF Async
  <2>2. \A x \in known' : db2[x].parent # h
    BY <1>1, <2>1 DEF GivenBack
  <2>3. \A u \in Threads : call[u].at # "idle" => call[u].c # h
    BY <1>1, <2>1 DEF InUseByOthers
  <2>4. \A d \in Children : Fresh(d) => db2[job[d].h].parent # h
    BY <2>1 DEF PendingOn, Fresh
  <2> QED BY <2>1, <2>2, <2>3, <2>4
<1>10. Startable(c)'
  <2>1. Db2Alive(db2, h)
    BY <1>1 DEF AInv, IInv, KnownAlive
  <2>2. op = "StmtCall" <=> db2[h].kind = "stmt"
    BY DEF Async
  <2>3. op = "Disconnect" =>
          \A d \in Children \ {c} : Fresh(d)' => db2[job'[d].h].parent # h
    BY <1>3, <1>9 DEF Fresh
  <2> QED BY <1>1, <1>3, <1>9, <2>1, <2>2, <2>3 DEF Startable
<1>11. ASSUME NEW d \in Children \ {c}, Fresh(d)' PROVE Startable(d)'
  <2>1. job'[d] = job[d] /\ Fresh(d)
    BY <1>3, <1>11 DEF Fresh
  <2>2. Startable(d)
    BY <2>1 DEF AInv, Pending
  <2>3. job[d].op # "Disconnect" => job[d].h \in known'
    BY <1>1, <1>9, <2>1, <2>2 DEF Startable, GivenBack
  <2>4. job[d].op = "Disconnect" =>
          \A e \in Children \ {d} : Fresh(e)' => db2[job'[e].h].parent # job[d].h
    BY <1>1, <1>3, <2>2 DEF Startable, Fresh
  <2> QED BY <1>1, <1>4, <2>1, <2>2, <2>3, <2>4 DEF Startable
<1>12. Pending'
  BY <1>10, <1>11 DEF Pending
<1> QED BY <1>5, <1>6, <1>7, <1>8, <1>12 DEF AInv

-----------------------------------------------------------------------------
(* A call begins: in the thread of a job, from the client, from a callback   *)

\* The jobs that have not begun when thread t begins a call on h.
LEMMA PendingAfterBegin ==
  ASSUME AInv, NEW t \in Threads, NEW op, NEW h, NEW label, Begin(t, op, h, label),
         known' \subseteq known,
         \A d \in Children : Fresh(d)' =>
            /\ Fresh(d) /\ job'[d] = job[d]
            /\ job[d].op # "Disconnect" => job[d].h \in known'
            /\ job[d].op = "Disconnect" => db2[h].parent # job[d].h
  PROVE  Pending'
<1>1. /\ Others(t) /\ call'[t].c = db2[h].parent /\ db2' = db2
  BY BeginFacts DEF AInv, IInv
<1> SUFFICES ASSUME NEW d \in Children, Fresh(d)' PROVE Startable(d)'
  BY DEF Pending
<1>2. Startable(d) /\ job'[d] = job[d]
  BY DEF AInv, Pending
<1>3. job[d].op = "Disconnect" =>
        \A u \in Threads : call'[u].at # "idle" => call'[u].c # job[d].h
  BY <1>1, <1>2 DEF Startable, Others
<1>4. job[d].op = "Disconnect" =>
        \A e \in Children \ {d} : Fresh(e)' => db2[job'[e].h].parent # job[d].h
  BY <1>2 DEF Startable
<1>5. job[d].op # "Disconnect" => job[d].h \in known'
  OBVIOUS
<1> QED BY <1>1, <1>2, <1>3, <1>4, <1>5 DEF Startable

LEMMA ThreadStartsKeeps ==
  ASSUME AInv, NEW c \in Children, ThreadStarts(c)
  PROVE  AInv'
<1> DEFINE op == job[c].op
           h == job[c].h
           label == FirstLabel(op)
<1>1. /\ Fresh(c) /\ Begin(c, op, h, label) /\ known' = known /\ join' = join
      /\ job' = [job EXCEPT ![c].at = "running"] /\ c \in Threads
  BY OpsFacts DEF ThreadStarts, Fresh
<1>2. Startable(c)
  BY <1>1 DEF AInv, Pending
<1>3. job \in [Children -> Job]
  BY DEF AInv, JobTypes
<1>4. /\ job'[c].at = "running" /\ job'[c].op = op /\ job'[c].h = h
      /\ job'[c].callback = job[c].callback /\ job'[c].ran = job[c].ran
      /\ \A d \in Children \ {c} : job'[d] = job[d]
  BY <1>1, <1>3 DEF Job
<1>5. op \in Ops /\ op \in {"StmtCall", "ConnCall", "EndTran", "Disconnect"}
  BY <1>2, OpsFacts DEF Startable
<1>6. \/ label = "check" /\ op = "Disconnect"
      \/ label = "want" /\ op \in {"StmtCall", "ConnCall"}
      \/ label = "bare" /\ op = "EndTran"
  BY <1>5 DEF FirstLabel
<1> HIDE DEF label
<1>7. Undisturbed(c, op, h)
  <2>1. ~Reserved(h)
    BY NobodyReserves DEF AInv
  <2>2. ASSUME NEW u \in Threads \ {c}, InFlight(u)
        PROVE  /\ call[u].op \in ReleaseOps => call[u].c # db2[h].parent
               /\ call[u].op # "FreeStmtDrop"
    <3>1. call[u].at # "idle" /\ call[u].op \in Ops
      BY <2>2 DEF InFlight, AInv, OnlyOps
    <3>2. CASE op = "Disconnect"
      BY <1>2, <3>1, <3>2, StartableParent, OpsFacts DEF AInv, Startable
    <3>3. CASE op # "Disconnect"
      BY <1>2, <2>2, <3>1, <3>3, OpsFacts DEF AInv, IInv, Released, Startable
    <3> QED BY <3>2, <3>3
  <2> QED BY <1>2, <1>5, <2>1, <2>2 DEF Undisturbed, Startable, OfStmt
<1>8. op = "Disconnect" => ~InUseByOthers(c, h) /\ \A x \in known' : db2[x].parent # h
  BY <1>1, <1>2, StartableParent DEF AInv, Startable, InUseByOthers
<1>9. IInv'
  <2>1. h \in Slots /\ known' \in SUBSET Slots /\ label \in Labels
    BY <1>1, <1>2, <1>6, SlotTypes DEF Startable, AInv, IInv, TypeOK, Labels
  <2>2. TypeOK'
    BY <1>1, <2>1, BeginType DEF AInv, IInv
  <2> QED BY <1>1, <1>5, <1>6, <1>7, <1>8, <2>2, StartKeeps DEF AInv, ReleaseOps, LockOps
<1>10. NoStray' /\ KeysPooled' /\ OnlyOps'
  <2>1. /\ Others(c) /\ call'[c].op = op /\ table' = table /\ db2' = db2
    BY <1>1, BeginFacts DEF AInv, IInv
  <2> QED BY <1>5, <2>1 DEF AInv, NoStray, Db2Alive, KeysPooled, OnlyOps, Others
<1>11. JobTypes'
  BY <1>1, <1>3 DEF AInv, JobTypes, Job
<1>12. RanInCallback' /\ CallbackRan'
  BY <1>4 DEF AInv, RanInCallback, CallbackRan
<1>13. Pending'
  <2>1. ASSUME NEW d \in Children, Fresh(d)'
        PROVE  /\ Fresh(d) /\ job'[d] = job[d]
               /\ job[d].op # "Disconnect" => job[d].h \in known'
               /\ job[d].op = "Disconnect" => db2[h].parent # job[d].h
    <3>1. d # c /\ job'[d] = job[d] /\ Fresh(d)
      BY <1>4, <2>1 DEF Fresh
    <3>2. Startable(d)
      BY <3>1 DEF AInv, Pending
    <3> QED BY <1>1, <3>1, <3>2 DEF Startable
  <2> QED BY <1>1, <2>1, PendingAfterBegin
<1> QED BY <1>9, <1>10, <1>11, <1>12, <1>13 DEF AInv

LEMMA DirectCallKeeps ==
  ASSUME AInv, Careful, NEW t \in Threads, DirectCall(t)
  PROVE  AInv'
<1>1. PICK h \in HandleNums : \/ BeginStmtCall(t, h)
                              \/ BeginConnCall(t, h)
                              \/ BeginDisconnect(t, h) /\ ~PendingOn(h)
  BY DEF DirectCall
<1>2. IInv'
  <2>1. BeginCall(t)
    BY <1>1 DEF BeginCall
  <2>2. CarefulClients
    BY OpsFacts DEF CarefulClients
  <2> QED BY <2>1, <2>2, BeginCallKeeps DEF AInv
<1>3. PICK op, label : /\ Begin(t, op, h, label) /\ h \in known
                       /\ \/ known' = known
                          \/ known' = known \ GivenBack(h) /\ db2[h].kind = "dbc" /\ ~PendingOn(h)
  BY <1>1 DEF BeginStmtCall, BeginConnCall, BeginDisconnect, BeginRelease
<1>4. /\ Others(t) /\ call'[t].op = op /\ op \in Ops /\ table' = table /\ db2' = db2
      /\ job' = job /\ join' = join
  BY <1>3, BeginFacts DEF DirectCall, AInv, IInv
<1>5. NoStray' /\ KeysPooled' /\ OnlyOps'
  BY <1>4 DEF AInv, NoStray, Db2Alive, KeysPooled, OnlyOps, Others
<1>6. JobTypes' /\ RanInCallback' /\ CallbackRan'
  BY <1>4 DEF AInv, JobTypes, RanInCallback, CallbackRan
<1>7. Pending'
  <2>1. ASSUME NEW d \in Children, Fresh(d)'
        PROVE  /\ Fresh(d) /\ job'[d] = job[d]
               /\ job[d].op # "Disconnect" => job[d].h \in known'
               /\ job[d].op = "Disconnect" => db2[h].parent # job[d].h
    <3>1. Fresh(d) /\ job'[d] = job[d]
      BY <1>4, <2>1 DEF Fresh
    <3>2. Startable(d)
      BY <3>1 DEF AInv, Pending
    <3>3. job[d].op # "Disconnect" => job[d].h \in known'
      BY <1>3, <3>1, <3>2 DEF Startable, GivenBack, PendingOn, Fresh
    <3> QED BY <1>3, <3>1, <3>2, <3>3 DEF Startable
  <2> QED BY <1>3, <2>1, PendingAfterBegin
<1> QED BY <1>2, <1>5, <1>6, <1>7 DEF AInv

-----------------------------------------------------------------------------
(* The steps of a call                                                       *)

\* Only a disconnect changes DB2's handles or what the clients hold, and no step
\* changes which connection a handle or a call belongs to, or a key.
LEMMA StepFacts ==
  ASSUME AInv, NEW t \in Threads, CallStep(t)
  PROVE  /\ Others(t) /\ call[t].at # "idle"
         /\ call'[t].at # "idle" => call'[t].c = call[t].c /\ call'[t].op = call[t].op
         /\ SameMapping(table, table')
         /\ \/ db2' = db2
            \/ /\ call[t].op = "Disconnect" /\ call[t].at = "db2"
               /\ db2' = Db2Disconnect(db2, call[t].h)
         /\ known \subseteq known'
         /\ \/ known' = known
            \/ /\ call[t].op = "Disconnect" /\ call[t].at # "table"
               /\ known' \subseteq known \cup {call[t].h} \cup Db2Stmts(db2, call[t].h)
<1>1. TypeOK /\ IInv
  BY DEF AInv, IInv
<1>2. call[t].at # "idle" => call[t].op \in {"StmtCall", "ConnCall", "EndTran", "Disconnect"}
  BY OpsFacts DEF AInv, OnlyOps
<1>3. table' = table => SameMapping(table, table')
  BY DEF SameMapping
<1>4. CASE TableLock(t)
  <2>1. Others(t) /\ call'[t].c = call[t].c /\ call'[t].op = call[t].op
    BY <1>1, <1>4, GotoFacts DEF TableLock
  <2>2. SameMapping(table, table')
    BY <1>1, <1>4, LockKeeps
  <2> QED BY <1>4, <2>1, <2>2 DEF TableLock
<1>5. CASE LockedCallReturns(t)
  <2>1. /\ call[t].at = "db2" /\ TableUnlock(t) /\ Return(t, {}) /\ db2' = db2
    BY <1>5 DEF LockedCallReturns
  <2>2. Others(t) /\ call'[t].at = "idle" /\ known' = known
    BY <1>1, <2>1, ReturnFacts
  <2>3. SameMapping(table, table')
    BY <1>1, <2>1, <2>2, UnlockKeeps
  <2> QED BY <2>1, <2>2, <2>3
<1>6. CASE BareCallReturns(t)
  <2>1. Others(t) /\ call'[t].at = "idle" /\ known' = known
    BY <1>1, <1>6, ReturnFacts DEF BareCallReturns
  <2> QED BY <1>3, <1>6, <2>1 DEF BareCallReturns
<1>7. CASE DisconnectReturns(t)
  <2> DEFINE all == {call[t].h} \cup Db2Stmts(db2, call[t].h)
  <2>1. /\ call[t].at = "db2" /\ call[t].op = "Disconnect" /\ TableUnlock(t)
        /\ \/ db2' = Db2Disconnect(db2, call[t].h) /\ Return(t, {call[t].h})
           \/ db2' = db2 /\ Return(t, KeptUnder(call[t].h))
    BY <1>7 DEF DisconnectReturns
  <2>2. PICK back \in SUBSET all : Return(t, back)
    <3>1. call[t].h \in Slots
      BY <1>1 DEF TypeOK, Call
    <3> QED BY <2>1, <3>1, KeptUnderFacts
  <2>3. Others(t) /\ call'[t].at = "idle" /\ known' = known \cup back
    BY <1>1, <2>2, ReturnFacts
  <2>4. SameMapping(table, table')
    BY <1>1, <2>1, <2>3, UnlockKeeps
  <2> QED BY <2>1, <2>3, <2>4
<1>8. CASE CheckPersistent(t)
  <2> DEFINE all == KeptUnder(call[t].h)
  <2>1. call[t].at = "check" /\ call[t].op = "Disconnect" /\ table' = table /\ db2' = db2
    BY <1>2, <1>8 DEF CheckPersistent
  <2>2. CASE Return(t, all)
    <3>1. Others(t) /\ call'[t].at = "idle" /\ known' = known \cup all
      BY <1>1, <2>2, ReturnFacts
    <3>2. call[t].h \in Slots
      BY <1>1 DEF TypeOK, Call
    <3> QED BY <1>3, <2>1, <3>1, <3>2, KeptUnderFacts
  <2>3. CASE Goto(t, "want") /\ known' = known
    <3>1. Others(t) /\ call'[t].c = call[t].c /\ call'[t].op = call[t].op
      BY <1>1, <2>3, GotoFacts
    <3> QED BY <1>3, <2>1, <2>3, <3>1
  <2> QED BY <1>8, <2>1, <2>2, <2>3 DEF CheckPersistent
<1> QED BY <1>2, <1>4, <1>5, <1>6, <1>7, <1>8 DEF CallStep, ConnectReturns, AllocInDb2,
        AllocInTable, FreeInDb2, FreeInTable

\* What the end of a disconnect does to the handles of the jobs that wait.
LEMMA PendingAfterStep ==
  ASSUME AInv, NEW t \in Threads, CallStep(t), UNCHANGED <<job, join>>
  PROVE  Pending'
<1> DEFINE H == call[t].h
<1>1. /\ Others(t) /\ call[t].at # "idle"
      /\ call'[t].at # "idle" => call'[t].c = call[t].c
      /\ known \subseteq known'
  BY StepFacts
<1>2. ASSUME call[t].op = "Disconnect", call[t].at # "table"
      PROVE  /\ H = call[t].c /\ H \in HandleNums /\ H \in Slots /\ db2[H].kind = "dbc"
             /\ \A x \in known : db2[x].parent # H
             /\ \A x \in {H} \cup Db2Stmts(db2, H) :
                  x \in HandleNums /\ Db2Alive(db2, x) /\ db2[x].parent = H
  <2>1. InFlight(t) /\ ~Forgotten(t) /\ call[t].op \in ReleaseOps
    BY <1>1, <1>2 DEF InFlight, Forgotten, ReleaseOps
  <2>2. HandleOK(t)
    BY <2>1 DEF AInv, IInv, Handles
  <2>3. H = call[t].c /\ H \in HandleNums /\ H \in Slots /\ Db2Alive(db2, H) /\ db2[H].parent = H
    BY <1>2, <2>1, <2>2, SlotTypes DEF HandleOK, OfStmt
  <2>4. db2[H].kind = "dbc"
    BY <2>3 DEF AInv, IInv, TypeOK, Db2Tree, Db2Alive, Db2Handle
  <2>5. \A x \in known : db2[x].parent # H
    BY <2>1, <2>3 DEF AInv, IInv, Released
  <2>6. \A x \in {H} \cup Db2Stmts(db2, H) :
          x \in HandleNums /\ Db2Alive(db2, x) /\ db2[x].parent = H
    BY <2>1, <2>3, BackFacts DEF AInv
  <2> QED BY <2>3, <2>4, <2>5, <2>6
<1>3. \A x \in Slots :
        (db2[x].kind = "dbc" \/ x \in known) =>
          db2'[x].kind = db2[x].kind /\ db2'[x].parent = db2[x].parent
  <2>1. CASE db2' = db2
    BY <2>1
  <2>2. CASE /\ call[t].op = "Disconnect" /\ call[t].at = "db2"
             /\ db2' = Db2Disconnect(db2, H)
    <3>1. db2 \in [Slots -> Db2Handle]
      BY DEF AInv, IInv, TypeOK
    <3> HIDE DEF H
    <3> QED BY <1>2, <2>2, <3>1, Db2DisconnectFacts
  <2> QED BY <2>1, <2>2, StepFacts
<1>4. ASSUME NEW c \in Children, Fresh(c)
      PROVE  /\ Startable(c) /\ job[c].h \in Slots
             /\ db2'[job[c].h].kind = db2[job[c].h].kind
             /\ db2'[job[c].h].parent = db2[job[c].h].parent
  <2>1. Startable(c)
    BY <1>4 DEF AInv, Pending
  <2>2. job[c].h \in Slots /\ (db2[job[c].h].kind = "dbc" \/ job[c].h \in known)
    BY <2>1, SlotTypes, StartableParent DEF Startable, AInv
  <2> QED BY <1>3, <2>1, <2>2
<1> SUFFICES ASSUME NEW c \in Children, Fresh(c) PROVE Startable(c)'
  BY DEF Pending, Fresh
<1>5. \A d \in Children : Fresh(d)' <=> Fresh(d)
  BY DEF Fresh
<1>6. Db2Alive(db2', job[c].h) /\ (job[c].op = "StmtCall" <=> db2'[job[c].h].kind = "stmt")
  BY <1>4 DEF Startable, Db2Alive
<1>7. job[c].op # "Disconnect" => job[c].h \in known'
  BY <1>1, <1>4 DEF Startable
<1>8. ASSUME job[c].op = "Disconnect"
      PROVE  /\ \A x \in known' : db2'[x].parent # job[c].h
             /\ \A u \in Threads : call'[u].at # "idle" => call'[u].c # job[c].h
             /\ \A d \in Children \ {c} : Fresh(d) => db2'[job[d].h].parent # job[c].h
  <2>1. \A u \in Threads : call'[u].at # "idle" => call'[u].c # job[c].h
    BY <1>1, <1>4, <1>8 DEF Startable, Others
  <2>2. \A d \in Children \ {c} : Fresh(d) => db2'[job[d].h].parent # job[c].h
    BY <1>4, <1>8 DEF Startable
  <2>3. ASSUME NEW x \in known PROVE db2'[x].parent # job[c].h
    <3>1. x \in Slots
      BY DEF AInv, IInv, TypeOK
    <3> QED BY <1>3, <1>4, <1>8, <3>1 DEF Startable
  <2>4. ASSUME NEW x \in known', x \notin known PROVE db2'[x].parent # job[c].h
    <3>1. /\ call[t].op = "Disconnect" /\ call[t].at # "table"
          /\ x \in {H} \cup Db2Stmts(db2, H)
      BY <2>4, StepFacts
    <3>2. db2[x].parent = H /\ x \in Slots /\ H # job[c].h /\ db2[H].kind = "dbc" /\ H \in Slots
      BY ZenonT(60), <1>1, <1>2, <1>4, <1>8, <3>1, SlotTypes DEF Startable
    <3>3. db2'[x].parent \in {db2[x].parent, 0}
      <4>1. db2 \in [Slots -> Db2Handle]
        BY DEF AInv, IInv, TypeOK
      <4>2. Db2Disconnect(db2, H)[x].parent \in {db2[x].parent, 0}
        BY <3>2, <4>1 DEF Db2Disconnect, Db2Free, Db2Handle
      <4> QED BY <4>2, StepFacts
    <3>4. job[c].h # 0
      BY <1>4, TableAssumption DEF Startable, HandleNums
    <3> QED BY <3>2, <3>3, <3>4
  <2> QED BY <2>1, <2>2, <2>3, <2>4
<1> QED BY <1>4, <1>5, <1>6, <1>7, <1>8 DEF Startable

LEMMA DriverStepKeeps ==
  ASSUME AInv, NEW t \in Threads, DriverStep(t)
  PROVE  AInv'
<1>1. CallStep(t) /\ job' = job /\ join' = join
  BY DEF DriverStep
<1>2. IInv'
  BY <1>1, CallStepKeeps DEF AInv
<1>3. NoStray'
  <2>1. TypeOK /\ NoStray /\ [Next]_vars
    BY <1>1 DEF AInv, IInv, Next
  <2> QED BY <2>1, StepNoStray
<1>4. OnlyOps'
  BY <1>1, StepFacts DEF AInv, OnlyOps, Others
<1>5. KeysPooled'
  <2>1. SameMapping(table, table')
    BY <1>1, StepFacts
  <2> QED BY <2>1 DEF AInv, KeysPooled, SameMapping
<1>6. JobTypes' /\ RanInCallback' /\ CallbackRan'
  BY <1>1 DEF AInv, JobTypes, RanInCallback, CallbackRan
<1> QED BY <1>1, <1>2, <1>3, <1>4, <1>5, <1>6, PendingAfterStep DEF AInv

-----------------------------------------------------------------------------
(* A thread between its call and its exit, and the joins                     *)

\* Steps of the threads outside the driver.
LEMMA OutsideKeeps ==
  ASSUME AInv, UNCHANGED vars, JobTypes',
         \A c \in Children : /\ Fresh(c)' => job'[c] = job[c]
                             /\ job'[c].at = "callback" => job'[c].ran
                             /\ job'[c].at \in {"exited", "joined"} /\ job'[c].callback =>
                                  job'[c].ran \/ (job'[c].op = "Disconnect" /\ job'[c].h \in Pooled)
  PROVE  AInv'
<1>1. IInv'
  BY ShrinkKeeps DEF AInv, vars, IInv, TypeOK
<1>2. NoStray' /\ OnlyOps' /\ KeysPooled'
  BY DEF AInv, vars, NoStray, Db2Alive, OnlyOps, KeysPooled
<1>3. Pending'
  BY DEF AInv, vars, Pending, Startable, Fresh, Db2Alive
<1>4. RanInCallback' /\ CallbackRan'
  BY DEF RanInCallback, CallbackRan
<1> QED BY <1>1, <1>2, <1>3, <1>4 DEF AInv

LEMMA ThreadEndsKeeps ==
  ASSUME AInv, NEW c \in Children, ThreadCalled(c) \/ CallbackReturns(c)
  PROVE  AInv'
<1>1. job \in [Children -> Job] /\ join \in Join /\ UNCHANGED vars /\ join' = join
  BY DEF AInv, JobTypes, ThreadCalled, CallbackReturns, vars
<1>2. CASE ThreadCalled(c)
  <2>1. CASE job[c].callback /\ ~Refused(c)
    <3>1. job' = [job EXCEPT ![c].at = "callback", ![c].ran = TRUE]
      BY <1>2, <2>1 DEF ThreadCalled
    <3>2. JobTypes'
      BY ZenonT(60), <1>1, <3>1 DEF JobTypes, Job
    <3>3. /\ job'[c].at = "callback" /\ job'[c].ran
          /\ \A d \in Children \ {c} : job'[d] = job[d]
      BY <1>1, <3>1 DEF Job
    <3> QED BY <1>1, <3>2, <3>3, OutsideKeeps DEF AInv, RanInCallback, CallbackRan, Fresh
  <2>2. CASE ~(job[c].callback /\ ~Refused(c))
    <3>1. job' = [job EXCEPT ![c].at = "exited"]
      BY <1>2, <2>2 DEF ThreadCalled
    <3>2. JobTypes'
      BY <1>1, <3>1 DEF JobTypes, Job
    <3>3. /\ job'[c].at = "exited" /\ job'[c].callback = job[c].callback
          /\ job'[c].op = job[c].op /\ job'[c].h = job[c].h
          /\ \A d \in Children \ {c} : job'[d] = job[d]
      BY <1>1, <3>1 DEF Job
    <3>4. job[c].callback => job[c].op = "Disconnect" /\ job[c].h \in Pooled
      BY <1>1, <2>2 DEF Refused, HashActive, AInv, KeysPooled, Job
    <3> QED BY <1>1, <3>2, <3>3, <3>4, OutsideKeeps DEF AInv, RanInCallback, CallbackRan, Fresh
  <2> QED BY <2>1, <2>2
<1>3. CASE CallbackReturns(c)
  <2>1. job' = [job EXCEPT ![c].at = "exited"] /\ job[c].at = "callback"
    BY <1>3 DEF CallbackReturns
  <2>2. JobTypes'
    BY <1>1, <2>1 DEF JobTypes, Job
  <2>3. /\ job'[c].at = "exited" /\ job'[c].ran = job[c].ran
        /\ \A d \in Children \ {c} : job'[d] = job[d]
    BY <1>1, <2>1 DEF Job
  <2> QED BY <1>1, <2>1, <2>2, <2>3, OutsideKeeps DEF AInv, RanInCallback, CallbackRan, Fresh
<1> QED BY <1>2, <1>3

LEMMA JoinKeeps ==
  ASSUME AInv,
         JoinReturns \/ \E c \in Children, flag \in JoinFlags : JoinAsks(c, flag)
  PROVE  AInv'
<1>1. job \in [Children -> Job] /\ join \in Join
  BY DEF AInv, JobTypes
<1>2. ASSUME NEW c \in Children, NEW flag \in JoinFlags, JoinAsks(c, flag)
      PROVE  AInv'
  <2>1. UNCHANGED vars /\ job' = job /\ join' = [tid |-> c, flag |-> flag]
    BY <1>2 DEF JoinAsks, vars
  <2>2. JobTypes'
    BY <1>1, <2>1 DEF JobTypes, Join
  <2> QED BY <2>1, <2>2, OutsideKeeps DEF AInv, RanInCallback, CallbackRan
<1>3. CASE JoinReturns
  <2> DEFINE c == join.tid
  <2>1. /\ UNCHANGED vars /\ join' = NoJoin /\ job[c].at = "exited"
        /\ job' = [job EXCEPT ![c].at = "joined"]
    BY <1>3 DEF JoinReturns, vars
  <2>2. JobTypes'
    BY ZenonT(60), <1>1, <2>1 DEF JobTypes, Join, NoJoin, Job
  <2>3. \A d \in Children : \/ job'[d] = job[d]
                            \/ /\ job[d].at = "exited" /\ job'[d].at = "joined"
                               /\ job'[d].callback = job[d].callback /\ job'[d].ran = job[d].ran
                               /\ job'[d].op = job[d].op /\ job'[d].h = job[d].h
    BY <1>1, <2>1 DEF Job
  <2> QED BY <2>1, <2>2, <2>3, OutsideKeeps DEF AInv, RanInCallback, CallbackRan, Fresh
<1> QED BY <1>2, <1>3

-----------------------------------------------------------------------------
(* Theorems                                                                  *)

LEMMA InitAInv == AsyncInit => AInv
<1> SUFFICES ASSUME AsyncInit PROVE AInv
  OBVIOUS
<1>1. Init /\ job = [c \in Children |-> NoJob] /\ join = NoJoin
  BY DEF AsyncInit
<1>2. IInv /\ NoStray
  BY <1>1, InitIInv, InitNoStray
<1>3. NoJob \in Job /\ NoJoin \in Join
  BY SlotTypes DEF NoJob, Job, NoJoin, Join
<1>4. \A t \in Threads : call[t].at = "idle"
  BY <1>1 DEF Init, NoCall, Started
<1>5. KeysPooled
  BY <1>1 DEF KeysPooled, Init, ZeroSlot, OpenedSlot
<1>6. \A c \in Children : job[c].at = "none"
  BY <1>1 DEF NoJob
<1> QED BY <1>1, <1>2, <1>3, <1>4, <1>5, <1>6
        DEF AInv, JobTypes, OnlyOps, Pending, Fresh, RanInCallback, CallbackRan

LEMMA AsyncNextKeeps ==
  ASSUME AInv, Careful, [AsyncNext]_asyncVars
  PROVE  AInv'
<1>1. ASSUME NEW c \in Children, NEW op \in Ops, NEW h \in HandleNums,
             NEW callback \in BOOLEAN, Async(c, op, h, callback)
      PROVE  AInv'
  BY <1>1, AsyncKeeps
<1>2. ASSUME NEW c \in Children, ThreadStep(c) PROVE AInv'
  BY <1>2, ThreadStartsKeeps, ThreadEndsKeeps DEF ThreadStep
<1>3. ASSUME NEW t \in Threads, DirectCall(t) \/ DriverStep(t) PROVE AInv'
  BY <1>3, DirectCallKeeps, DriverStepKeeps
<1>4. CASE UNCHANGED asyncVars
  <2>1. UNCHANGED vars /\ job' = job /\ join' = join
    BY <1>4 DEF asyncVars, vars
  <2>2. JobTypes'
    BY <2>1 DEF AInv, JobTypes
  <2> QED BY <2>1, <2>2, OutsideKeeps DEF AInv, RanInCallback, CallbackRan
<1> QED BY <1>1, <1>2, <1>3, <1>4, JoinKeeps DEF AsyncNext, AllDone

\* A job keeps the right to its handle from SQLxxxAsync to the start of its
\* thread: nobody can release the handle meanwhile, nor use what the job will
\* release, so the invariant of the plain calls survives.
THEOREM AsyncInvariant ==
  ASSUME Careful
  PROVE  AsyncSpec => []AInv
<1>1. AsyncInit => AInv
  BY InitAInv
<1>2. AInv /\ [AsyncNext]_asyncVars => AInv'
  BY AsyncNextKeeps
<1> QED BY <1>1, <1>2, PTL DEF AsyncSpec

\* Jobs, joins and the driver's state keep their shape however many threads
\* SQLxxxAsync creates and however they interleave.
THEOREM AsyncTypeCorrect ==
  ASSUME Careful
  PROVE  AsyncSpec => []AsyncTypeOK
<1>1. AInv => AsyncTypeOK
  BY DEF AInv, IInv, JobTypes, AsyncTypeOK
<1> QED BY <1>1, AsyncInvariant, PTL

\* While the callback of an SQLxxxThread runs, and is in no call itself, its
\* thread holds neither the mutex of a slot nor the global lock.
THEOREM CallbacksUnlocked ==
  ASSUME Careful
  PROVE  AsyncSpec => []CallbackHoldsNothing
<1>1. AInv => CallbackHoldsNothing
  <2> SUFFICES ASSUME AInv, NEW c \in Children, call[c].at = "idle"
               PROVE  glock # c /\ \A s \in Slots : mutex[s].owner # c
    BY DEF CallbackHoldsNothing
  <2>1. c \in Threads
    BY OpsFacts
  <2>2. glock # c
    BY <2>1 DEF AInv, IInv, GlobalLock
  <2>3. ASSUME NEW s \in Slots PROVE mutex[s].owner # c
    <3>1. CASE mutex[s] = FreeMutex
      BY <2>1, <3>1, TableAssumption DEF FreeMutex
    <3>2. ASSUME NEW u \in Threads, call[u].at = "db2", mutex[s] = Held(u)
          PROVE  mutex[s].owner # c
      BY <3>2, HeldFacts
    <3> QED BY <3>1, <3>2 DEF AInv, IInv, Mutexes
  <2> QED BY <2>2, <2>3
<1> QED BY <1>1, AsyncInvariant, PTL

\* The thread of a call that was given a callback exits having run it, unless
\* SQLDisconnectThread found the connection persistent: no other thread can make
\* it so, or take the key away, between the call and the second look at the key.
THEOREM CallbacksRun ==
  ASSUME Careful
  PROVE  AsyncSpec => []CallbackRan
<1>1. AInv => CallbackRan
  BY DEF AInv
<1> QED BY <1>1, AsyncInvariant, PTL

\* The threads of asynchronous calls, their callbacks and the client are never two
\* inside DB2 on one connection, in the calls that take its mutex.
THEOREM AsyncOneAtATime ==
  ASSUME Careful
  PROVE  AsyncSpec => []OneCallPerConnection
<1>1. AInv => OneCallPerConnection
  <2> SUFFICES ASSUME IInv, NEW t \in Threads, NEW u \in Threads,
                      t # u, UnderLock(t), UnderLock(u), call[t].c = call[u].c
               PROVE  FALSE
    BY DEF OneCallPerConnection, AInv
  <2>1. call[t].at = "db2" /\ call[u].at = "db2"
    BY DEF UnderLock, IInv, Phases
  <2>2. Held(t) = Held(u)
    BY <2>1 DEF IInv, Mutexes
  <2> QED BY <2>2, HeldFacts
<1> QED BY <1>1, AsyncInvariant, PTL
=============================================================================
