-------------------------- MODULE PaseCliStartup_proofs --------------------------
(***************************************************************************)
(* Proofs about the first calls of a process, for any number of threads and *)
(* whatever each of them calls: nobody enters the global lock before it      *)
(* exists, two threads are never inside it, there is one CCSID (IInv), and   *)
(* no connection is allocated before DB2 was told the server mode and the    *)
(* CCSID of the environment (EInv).                                          *)
(***************************************************************************)
EXTENDS PaseCliStartup, SequenceTheorems, TLAPS

Steps ==
  {"flag", "boot", "lock", "unlock", "ccsid", "choose", "parse", "myccsid", "srvpgm", "load",
   "env", "tell", "tell_set", "tell_attr", "override", "override_env",
   "server", "server_attr", "server_flag", "dbc"}

Step == [do : Steps, n : Nat]

Local == [myccsid : Nat, env : {0, 1}, inside : Int]

Conn == [by : {"SQL400Connect", "client"}, told : Nat, server : BOOLEAN]

Types ==
  /\ program \in [Threads -> Seq(ClientCalls)]
  /\ boot \in BOOLEAN
  /\ glock \in Mutex
  /\ ccsid \in Nat
  /\ trace \in [listed : Nat, left : Nat, parses : Nat]
  /\ loaded \in BOOLEAN /\ env_hndl \in {0, 1} /\ env_server_mode \in BOOLEAN
  /\ db2 \in [env : BOOLEAN, told : Nat, server : BOOLEAN, refused : BOOLEAN, conns : SUBSET Conn]
  /\ todo \in [Threads -> Seq(Step)]
  /\ local \in [Threads -> Local]

-----------------------------------------------------------------------------
(* What a thread may have left to do                                         *)

\* A step that tells the environment a CCSID tells it none or that of the process.
Tells == {"tell", "tell_set", "tell_attr"}
TellsOnly(s, c) == \A i \in 1 .. Len(s) : s[i].do \in Tells => s[i].n \in {0, c}

\* The lock is taken only behind the step that has seen, or has set, the flag.
Announced(s, i) == i > 1 /\ s[i - 1].do \in {"flag", "boot"}

\* Steps that may be put in front of others, whatever the flag is.
Stretch(s, c) ==
  /\ s \in Seq(Step)
  /\ TellsOnly(s, c)
  /\ \A i \in 1 .. Len(s) : s[i].do = "lock" => Announced(s, i)

\* The same of a thread that may be just behind the flag, which then is set.
Left(s, b, c) ==
  /\ s \in Seq(Step)
  /\ TellsOnly(s, c)
  /\ \A i \in 1 .. Len(s) : s[i].do = "lock" => Announced(s, i) \/ (i = 1 /\ b)

-----------------------------------------------------------------------------
(* The inductive invariant                                                   *)

\* The mutex of init_lock: whoever is inside owns it, as often as it has entered;
\* before the flag is set nobody has touched it.
LockHeld ==
  /\ \A t \in Threads : /\ local[t].inside > 0 => glock.owner = t
                        /\ glock.owner = t => local[t].inside <= glock.count
  /\ ~boot => glock = FreeMutex

Ahead == \A t \in Threads : Left(todo[t], boot, ccsid)

\* The list of directories is cut by the first parse and whole until then.
Parsed ==
  /\ trace.parses = 0 => trace.left = Dirs
  /\ trace.parses = 1 => trace.listed = Dirs

IInv == Types /\ LockHeld /\ Ahead /\ OneCcsid /\ Parsed

-----------------------------------------------------------------------------
(* Sequences of steps                                                        *)

LEMMA EmptyStretch == ASSUME NEW c PROVE Stretch(<<>>, c)
  BY EmptySeq DEF Stretch, TellsOnly

\* One step that does not lock.
LEMMA OneStep ==
  ASSUME NEW c, NEW do \in Steps, do # "lock", NEW n \in Nat, do \in Tells => n \in {0, c}
  PROVE  Stretch(<<Do(do, n)>>, c)
  BY DEF Stretch, TellsOnly, Step, Do

LEMMA LockingStretch == ASSUME NEW c PROVE Stretch(Locking, c)
  <1>1. Locking \in Seq(Step)
    <2>1. Do("flag", 0) \in Step /\ Do("lock", 0) \in Step BY DEF Step, Steps, Do
    <2> QED BY <2>1 DEF Locking
  <1>2. Len(Locking) = 2 /\ Locking[1].do = "flag" /\ Locking[2].do = "lock"
    BY DEF Locking, Do
  <1> QED BY <1>1, <1>2 DEF Stretch, TellsOnly, Announced, Tells

LEMMA TwoSteps ==
  ASSUME NEW c, NEW n \in Nat
  PROVE  Stretch(<<Do("choose", n), Do("parse", 0)>>, c)
  <1> DEFINE s == <<Do("choose", n), Do("parse", 0)>>
  <1>1. s \in Seq(Step)
    <2>1. Do("choose", n) \in Step /\ Do("parse", 0) \in Step BY DEF Step, Steps, Do
    <2> QED BY <2>1
  <1>2. Len(s) = 2 /\ s[1].do = "choose" /\ s[2].do = "parse" BY DEF Do
  <1>3. \A i \in 1 .. Len(s) : s[i].do \notin Tells /\ s[i].do # "lock"
    BY <1>2 DEF Tells
  <1> QED BY <1>1, <1>3 DEF Stretch, TellsOnly

\* One stretch after another is a stretch.
LEMMA ConcatStretch ==
  ASSUME NEW c, NEW a, NEW b, Stretch(a, c), Stretch(b, c)
  PROVE  Stretch(a \o b, c)
  <1> DEFINE s == a \o b
  <1>1. a \in Seq(Step) /\ b \in Seq(Step) BY DEF Stretch
  <1>2. /\ s \in Seq(Step) /\ Len(s) = Len(a) + Len(b)
        /\ \A i \in 1 .. Len(a) + Len(b) : s[i] = IF i <= Len(a) THEN a[i] ELSE b[i - Len(a)]
    BY <1>1, ConcatProperties
  <1>3. Len(a) \in Nat /\ Len(b) \in Nat BY <1>1, LenProperties
  <1>4. ASSUME NEW i \in 1 .. Len(s)
        PROVE  /\ s[i].do \in Tells => s[i].n \in {0, c}
               /\ s[i].do = "lock" => Announced(s, i)
    <2>1. CASE i <= Len(a)
      <3>1. i \in 1 .. Len(a) /\ s[i] = a[i] BY <1>2, <1>3, <2>1
      <3>2. i > 1 => s[i - 1] = a[i - 1] BY <1>2, <1>3, <3>1
      <3> QED BY <3>1, <3>2 DEF Stretch, TellsOnly, Announced
    <2>2. CASE i > Len(a)
      <3> DEFINE j == i - Len(a)
      <3>1. j \in 1 .. Len(b) /\ s[i] = b[j] BY <1>2, <1>3, <2>2
      <3>2. j > 1 => s[i - 1] = b[j - 1] /\ i > 1 BY <1>2, <1>3, <3>1
      <3> QED BY <3>1, <3>2 DEF Stretch, TellsOnly, Announced
    <2> QED BY <1>2, <1>3, <2>1, <2>2
  <1> QED BY <1>2, <1>4 DEF Stretch, TellsOnly

LEMMA StretchIsLeft ==
  ASSUME NEW c, NEW b, NEW s, Stretch(s, c)
  PROVE  Left(s, b, c)
  BY DEF Stretch, Left

\* Setting the flag, or choosing the CCSID, takes nothing from what is left.
LEMMA LeftWeakens ==
  ASSUME NEW s, NEW b \in BOOLEAN, NEW d \in BOOLEAN, NEW c, NEW e,
         Left(s, b, c), b => d, c \in {0, e}
  PROVE  Left(s, d, e)
  BY DEF Left, TellsOnly

\* Without its first step, a thread has a stretch left, or is behind the flag.
LEMMA TailLeft ==
  ASSUME NEW s, NEW b \in BOOLEAN, NEW c, Left(s, b, c), s # <<>>
  PROVE  /\ Tail(s) \in Seq(Step) /\ TellsOnly(Tail(s), c)
         /\ Head(s).do \notin {"flag", "boot"} => Stretch(Tail(s), c)
         /\ Left(Tail(s), TRUE, c)
  <1>1. s \in Seq(Step) BY DEF Left
  <1>2. Len(s) \in Nat \ {0} BY <1>1, EmptySeq
  <1> DEFINE r == Tail(s)
  <1>3. /\ r \in Seq(Step) /\ Len(r) = Len(s) - 1
        /\ \A i \in 1 .. Len(r) : r[i] = s[i + 1]
    BY <1>1, HeadTailProperties
  <1>4. Head(s) = s[1] BY <1>1, <1>2
  <1>5. TellsOnly(r, c) BY <1>2, <1>3 DEF Left, TellsOnly
  <1>6. ASSUME NEW i \in 1 .. Len(r), r[i].do = "lock"
        PROVE  /\ i > 1 => Announced(r, i)
               /\ i = 1 => Head(s).do \in {"flag", "boot"}
    <2>1. i + 1 \in 1 .. Len(s) /\ s[i + 1].do = "lock" BY <1>2, <1>3, <1>6
    <2>2. s[i].do \in {"flag", "boot"} BY <2>1, <1>6 DEF Left, Announced
    <2>3. i > 1 => r[i - 1] = s[i] BY <1>2, <1>3, <1>6
    <2> QED BY <1>4, <2>2, <2>3 DEF Announced
  <1> QED BY <1>2, <1>3, <1>5, <1>6 DEF Stretch, Left

\* The flag was not set: the boot takes the place of the flag.
LEMMA BootLeft ==
  ASSUME NEW s, NEW b \in BOOLEAN, NEW c, Left(s, b, c), s # <<>>
  PROVE  Left(<<Do("boot", 0)>> \o Tail(s), b, c)
  <1> DEFINE h == <<Do("boot", 0)>>
             r == Tail(s)
             x == h \o r
  <1>1. r \in Seq(Step) /\ TellsOnly(r, c) /\ Left(r, TRUE, c) BY TailLeft
  <1>2. h \in Seq(Step) /\ Len(h) = 1 /\ h[1].do = "boot"
    <2>1. Do("boot", 0) \in Step BY DEF Step, Steps, Do
    <2> QED BY <2>1 DEF Do
  <1>3. /\ x \in Seq(Step) /\ Len(x) = 1 + Len(r)
        /\ \A i \in 1 .. 1 + Len(r) : x[i] = IF i <= 1 THEN h[i] ELSE r[i - 1]
    BY <1>1, <1>2, ConcatProperties
  <1>4. Len(r) \in Nat BY <1>1, LenProperties
  <1>5. ASSUME NEW i \in 1 .. Len(x)
        PROVE  /\ x[i].do \in Tells => x[i].n \in {0, c}
               /\ x[i].do = "lock" => Announced(x, i)
    <2>1. CASE i = 1
      <3>1. x[i].do = "boot" BY <1>2, <1>3, <1>4, <2>1
      <3> QED BY <3>1 DEF Tells
    <2>2. CASE i > 1
      <3> DEFINE j == i - 1
      <3>1. j \in 1 .. Len(r) /\ x[i] = r[j] BY <1>3, <1>4, <2>2
      <3>2. x[i].do \in Tells => x[i].n \in {0, c} BY <1>1, <3>1 DEF TellsOnly
      <3>3. ASSUME x[i].do = "lock" PROVE Announced(x, i)
        <4>1. CASE j = 1 BY <1>2, <1>3, <1>4, <2>2, <4>1 DEF Announced
        <4>2. CASE j > 1
          <5>1. r[j - 1].do \in {"flag", "boot"} BY <1>1, <3>1, <3>3, <4>2 DEF Left, Announced
          <5>2. x[i - 1] = r[j - 1] BY <1>3, <1>4, <3>1, <4>2
          <5> QED BY <2>2, <5>1, <5>2 DEF Announced
        <4> QED BY <3>1, <4>1, <4>2
      <3> QED BY <3>2, <3>3
    <2> QED BY <1>3, <1>4, <2>1, <2>2
  <1> QED BY <1>3, <1>5 DEF Left, TellsOnly

-----------------------------------------------------------------------------
(* The named pieces are stretches.                                           *)

LEMMA UnlockingStretch == ASSUME NEW c PROVE Stretch(Unlocking, c)
  BY OneStep DEF Unlocking, Steps, Tells

LEMMA CcsidStretch == ASSUME NEW c, NEW n \in Nat PROVE Stretch(Ccsid(n), c)
  BY OneStep DEF Ccsid, Steps, Tells

LEMMA IntoDb2Stretch == ASSUME NEW c PROVE Stretch(IntoDb2, c)
  BY OneStep DEF IntoDb2, Steps, Tells

LEMMA SetEnvAttrStretch ==
  ASSUME NEW c, NEW attr \in Steps, attr # "lock", NEW n \in Nat, attr \in Tells => n \in {0, c}
  PROVE  Stretch(SetEnvAttr(attr, n), c)
  <1>1. Stretch(<<Do(attr, n)>>, c) BY OneStep
  <1>2. Stretch(Ccsid(0) \o IntoDb2, c) BY CcsidStretch, IntoDb2Stretch, ConcatStretch
  <1>3. Stretch((Ccsid(0) \o IntoDb2) \o <<Do(attr, n)>>, c) BY <1>1, <1>2, ConcatStretch
  <1> QED BY <1>3 DEF SetEnvAttr

LEMMA AllocHandleStretch ==
  ASSUME NEW c, NEW kind \in {"env", "dbc"}, NEW n \in Nat
  PROVE  Stretch(AllocHandle(kind, n), c)
  <1>1. Stretch(<<Do(kind, n)>>, c) BY OneStep DEF Steps, Tells
  <1>2. Stretch(Ccsid(0) \o Locking, c) BY CcsidStretch, LockingStretch, ConcatStretch
  <1>3. Stretch((Ccsid(0) \o Locking) \o IntoDb2, c) BY <1>2, IntoDb2Stretch, ConcatStretch
  <1>4. Stretch(((Ccsid(0) \o Locking) \o IntoDb2) \o <<Do(kind, n)>>, c)
    BY <1>1, <1>3, ConcatStretch
  <1> QED BY <1>4 DEF AllocHandle

LEMMA EnvAllocatedStretch ==
  ASSUME NEW c, NEW n \in Nat, n \in {0, c}
  PROVE  Stretch(EnvAllocated(n), c)
  <1>1. Stretch(<<Do("tell", n)>>, c) BY OneStep DEF Steps
  <1> QED BY <1>1, UnlockingStretch, ConcatStretch DEF EnvAllocated

LEMMA ServerModeStretch == ASSUME NEW c PROVE Stretch(ServerMode, c)
  <1>1. Stretch(<<Do("server_flag", 0)>>, c) BY OneStep DEF Steps, Tells
  <1>2. Stretch(SetEnvAttr("server_attr", 0), c) BY SetEnvAttrStretch DEF Steps, Tells
  <1> QED BY <1>1, <1>2, ConcatStretch DEF ServerMode

LEMMA EnterStretch ==
  ASSUME NEW c, NEW call \in ClientCalls
  PROVE  Stretch(Enter(call), c)
  <1>1. CASE call.do = "SQLOverrideCCSID400"
    <2>1. call.n \in Nat BY DEF ClientCalls, Do
    <2>2. Stretch(<<Do("override", call.n)>>, c) BY <2>1, OneStep DEF Steps, Tells
    <2> QED BY <1>1, <2>2 DEF Enter
  <1>2. CASE call.do = "call"
    <2>1. Stretch(Ccsid(0) \o IntoDb2, c) BY CcsidStretch, IntoDb2Stretch, ConcatStretch
    <2> QED BY <1>2, <2>1 DEF Enter
  <1>3. CASE call.do = "SQLAllocEnv"
    <2>1. Enter(call) = AllocHandle("env", 0) BY <1>3 DEF Enter
    <2> QED BY <2>1, AllocHandleStretch
  <1>4. CASE call.do = "SQLAllocConnect"
    <2>1. Enter(call) = AllocHandle("dbc", 0) BY <1>4 DEF Enter
    <2> QED BY <2>1, AllocHandleStretch
  <1>5. CASE call.do \notin {"SQLOverrideCCSID400", "call", "SQLAllocEnv", "SQLAllocConnect"}
    <2> DEFINE asks == <<Do("override", 0), Do("server", 0)>>
    <2>1. Enter(call) = Ccsid(0) \o asks \o AllocHandle("dbc", 1) BY <1>5 DEF Enter
    <2>2. Stretch(asks, c)
      <3>1. Do("override", 0) \in Step /\ Do("server", 0) \in Step BY DEF Step, Steps, Do
      <3>2. asks \in Seq(Step) /\ Len(asks) = 2 BY <3>1
      <3>3. asks[1].do = "override" /\ asks[2].do = "server" BY DEF Do
      <3>4. \A i \in 1 .. Len(asks) : asks[i].do \notin Tells /\ asks[i].do # "lock"
        BY <3>2, <3>3 DEF Tells
      <3> QED BY <3>2, <3>4 DEF Stretch, TellsOnly
    <2>3. Stretch(Ccsid(0) \o asks, c) BY <2>2, CcsidStretch, ConcatStretch
    <2>4. Stretch(AllocHandle("dbc", 1), c) BY AllocHandleStretch
    <2>5. Stretch((Ccsid(0) \o asks) \o AllocHandle("dbc", 1), c) BY <2>3, <2>4, ConcatStretch
    <2> QED BY <2>1, <2>5
  <1> QED BY <1>1, <1>2, <1>3, <1>4, <1>5

-----------------------------------------------------------------------------
(* A step takes the first of what its thread has left.                       *)

\* What the thread at a step that is not the flag's or the boot's has left is a
\* stretch, and the other threads have left what they had.
LEMMA ThenKeeps ==
  ASSUME Types, Ahead, NEW t \in Threads, todo[t] # <<>>,
         Head(todo[t]).do \notin {"flag", "boot"},
         NEW more, Stretch(more, ccsid), Then(t, more)
  PROVE  /\ todo' \in [Threads -> Seq(Step)]
         /\ \A u \in Threads : Left(todo'[u], boot, ccsid)
  <1>1. Left(todo[t], boot, ccsid) /\ boot \in BOOLEAN BY DEF Ahead, Types
  <1>2. Stretch(Tail(todo[t]), ccsid) BY <1>1, TailLeft
  <1>3. Stretch(more \o Tail(todo[t]), ccsid) BY <1>2, ConcatStretch
  <1>4. todo' = [todo EXCEPT ![t] = more \o Tail(todo[t])] BY DEF Then
  <1>5. todo \in [Threads -> Seq(Step)] BY DEF Types
  <1>6. more \o Tail(todo[t]) \in Seq(Step) BY <1>3 DEF Stretch
  <1>7. Left(more \o Tail(todo[t]), boot, ccsid) BY <1>3, StretchIsLeft
  <1> QED BY <1>4, <1>5, <1>6, <1>7 DEF Ahead

\* The first step of a thread is one of the driver's, with a number.
LEMMA HeadStep ==
  ASSUME Types, Ahead, NEW t \in Threads, todo[t] # <<>>
  PROVE  /\ N(t) \in Nat
         /\ Head(todo[t]).do \in Tells => N(t) \in {0, ccsid}
         /\ Head(todo[t]).do = "lock" => boot
  <1>1. Left(todo[t], boot, ccsid) BY DEF Ahead
  <1>2. todo[t] \in Seq(Step) BY <1>1 DEF Left
  <1>3. Len(todo[t]) \in Nat \ {0} /\ Head(todo[t]) = todo[t][1] BY <1>2, EmptySeq
  <1>4. todo[t][1] \in Step BY <1>2, <1>3, ElementOfSeq
  <1>5. 1 \in 1 .. Len(todo[t]) BY <1>3
  <1> QED BY <1>1, <1>3, <1>4, <1>5 DEF N, Left, TellsOnly, Announced, Step

-----------------------------------------------------------------------------
\* Nothing but what a thread has left, and things no part of the invariant but
\* Types is about, changes in most steps.
Quiet == UNCHANGED <<program, boot, glock, ccsid, trace>>

LEMMA QuietStep ==
  ASSUME IInv, NEW t \in Threads, todo[t] # <<>>,
         Head(todo[t]).do \notin {"flag", "boot"},
         NEW more, Stretch(more, ccsid), Then(t, more), Quiet,
         loaded' \in BOOLEAN, env_hndl' \in {0, 1}, env_server_mode' \in BOOLEAN,
         db2' \in [env : BOOLEAN, told : Nat, server : BOOLEAN, refused : BOOLEAN, conns : SUBSET Conn],
         db2'.told \in {0, ccsid},
         local' \in [Threads -> Local],
         \A u \in Threads : /\ local'[u].inside = local[u].inside
                            /\ local'[u].myccsid \in {0, ccsid}
  PROVE  IInv'
  <1>1. /\ todo' \in [Threads -> Seq(Step)]
        /\ \A u \in Threads : Left(todo'[u], boot, ccsid)
    BY ThenKeeps DEF IInv
  <1>2. Types' BY <1>1 DEF IInv, Types, Quiet
  <1>3. LockHeld' BY DEF IInv, LockHeld, Quiet
  <1>4. Ahead' BY <1>1 DEF Ahead, Quiet
  <1>5. OneCcsid' BY DEF OneCcsid, Quiet
  <1>6. Parsed' BY DEF IInv, Parsed, Quiet
  <1> QED BY <1>2, <1>3, <1>4, <1>5, <1>6 DEF IInv
-----------------------------------------------------------------------------
(* The invariant is preserved: one lemma for each action that it depends on, *)
(* one for those it does not.                                                *)

\* The sequences a quiet step puts in front are stretches.
LEMMA CcsidTestStretch ==
  ASSUME NEW c, NEW n \in Nat
  PROVE  Stretch((Locking \o <<Do("choose", n), Do("parse", 0)>> \o Unlocking) \o <<Do("myccsid", 0)>>, c)
  <1>1. Stretch(Locking \o <<Do("choose", n), Do("parse", 0)>>, c)
    BY LockingStretch, TwoSteps, ConcatStretch
  <1>2. Stretch((Locking \o <<Do("choose", n), Do("parse", 0)>>) \o Unlocking, c)
    BY <1>1, UnlockingStretch, ConcatStretch
  <1>3. Stretch(<<Do("myccsid", 0)>>, c) BY OneStep DEF Steps, Tells
  <1> QED BY <1>2, <1>3, ConcatStretch

\* Testing the CCSID, the service program, the environment and the server mode,
\* and loading the service program: only what the thread has left changes.
LEMMA TestsKeep ==
  ASSUME IInv, NEW t \in Threads,
         \/ CcsidTest(t) \/ SrvpgmTest(t) \/ SrvpgmLoad(t) \/ TellTest(t)
         \/ OverrideTest(t) \/ OverrideEnv(t) \/ ServerTest(t) \/ ServerFlag(t)
  PROVE  IInv'
  <1> USE DEF IInv
  <1>0. /\ todo[t] # <<>>
        /\ local \in [Threads -> Local] /\ env_hndl \in {0, 1}
        /\ db2 \in [env : BOOLEAN, told : Nat, server : BOOLEAN, refused : BOOLEAN, conns : SUBSET Conn]
        /\ loaded \in BOOLEAN /\ env_server_mode \in BOOLEAN /\ db2.told \in {0, ccsid}
        /\ \A u \in Threads : local[u].myccsid \in {0, ccsid}
    BY DEF Types, OneCcsid, At, CcsidTest, SrvpgmTest, SrvpgmLoad, TellTest, OverrideTest,
           OverrideEnv, ServerTest, ServerFlag
  <1>1. N(t) \in Nat /\ (Head(todo[t]).do \in Tells => N(t) \in {0, ccsid}) BY <1>0, HeadStep
  <1>2. local[t].myccsid \in Nat BY <1>0 DEF Local
  <1>3. ASSUME NEW more, Stretch(more, ccsid), Then(t, more), Quiet,
               Head(todo[t]).do \notin {"flag", "boot"},
               loaded' \in BOOLEAN, env_server_mode' \in BOOLEAN,
               UNCHANGED <<env_hndl, db2, local>>
        PROVE  IInv'
    BY <1>0, <1>3, QuietStep
  <1>4. CASE CcsidTest(t)
    <2> DEFINE whole == Locking \o <<Do("choose", N(t)), Do("parse", 0)>> \o Unlocking
               more == (IF ccsid = 0 THEN whole ELSE <<>>) \o <<Do("myccsid", 0)>>
    <2>1. Stretch(<<Do("myccsid", 0)>>, ccsid) BY OneStep DEF Steps, Tells
    <2>2. Stretch(<<>> \o <<Do("myccsid", 0)>>, ccsid) BY <2>1, EmptyStretch, ConcatStretch
    <2>3. Stretch(more, ccsid) BY <1>1, <2>2, CcsidTestStretch
    <2>4. /\ Then(t, more) /\ Quiet /\ Head(todo[t]).do = "ccsid"
          /\ UNCHANGED <<loaded, env_hndl, env_server_mode, db2, local>>
      BY <1>4 DEF CcsidTest, At, Quiet
    <2> HIDE DEF more
    <2> QED BY <1>0, <1>3, <2>3, <2>4
  <1>5. CASE SrvpgmTest(t)
    <2> DEFINE more == IF loaded THEN <<>> ELSE Locking \o <<Do("load", 0)>> \o Unlocking
    <2>1. Stretch(<<Do("load", 0)>>, ccsid) BY OneStep DEF Steps, Tells
    <2>2. Stretch(Locking \o <<Do("load", 0)>>, ccsid) BY <2>1, LockingStretch, ConcatStretch
    <2>3. Stretch((Locking \o <<Do("load", 0)>>) \o Unlocking, ccsid)
      BY <2>2, UnlockingStretch, ConcatStretch
    <2>4. Stretch(more, ccsid) BY <2>3, EmptyStretch
    <2>5. /\ Then(t, more) /\ Quiet /\ Head(todo[t]).do = "srvpgm"
          /\ UNCHANGED <<loaded, env_hndl, env_server_mode, db2, local>>
      BY <1>5 DEF SrvpgmTest, At, Quiet
    <2> HIDE DEF more
    <2> QED BY <1>0, <1>3, <2>4, <2>5
  <1>6. CASE SrvpgmLoad(t)
    <2>1. /\ Then(t, <<>>) /\ Quiet /\ Head(todo[t]).do = "load" /\ loaded' \in BOOLEAN
          /\ UNCHANGED <<env_hndl, env_server_mode, db2, local>>
      BY <1>6 DEF SrvpgmLoad, At, Quiet
    <2> QED BY <1>0, <1>3, <2>1, EmptyStretch
  <1>7. CASE TellTest(t)
    <2> DEFINE more == IF env_hndl = 0 THEN <<Do("tell_set", N(t))>> ELSE <<>>
    <2>1. /\ Then(t, more) /\ Quiet /\ Head(todo[t]).do = "tell"
          /\ UNCHANGED <<loaded, env_hndl, env_server_mode, db2, local>>
      BY <1>7 DEF TellTest, At, Quiet
    <2>2. Stretch(<<Do("tell_set", N(t))>>, ccsid) BY <1>1, <2>1, OneStep DEF Steps, Tells
    <2>3. Stretch(more, ccsid) BY <2>2, EmptyStretch
    <2> HIDE DEF more
    <2> QED BY <1>0, <1>3, <2>1, <2>3
  <1>8. CASE OverrideTest(t)
    <2> DEFINE more == IF env_hndl # 0 THEN <<>> ELSE Ccsid(N(t)) \o <<Do("override_env", 0)>>
    <2>1. Stretch(<<Do("override_env", 0)>>, ccsid) BY OneStep DEF Steps, Tells
    <2>2. Stretch(Ccsid(N(t)) \o <<Do("override_env", 0)>>, ccsid)
      BY <1>1, <2>1, CcsidStretch, ConcatStretch
    <2>3. Stretch(more, ccsid) BY <2>2, EmptyStretch
    <2>4. /\ Then(t, more) /\ Quiet /\ Head(todo[t]).do = "override"
          /\ UNCHANGED <<loaded, env_hndl, env_server_mode, db2, local>>
      BY <1>8 DEF OverrideTest, At, Quiet
    <2> HIDE DEF more
    <2> QED BY <1>0, <1>3, <2>3, <2>4
  <1>9. CASE OverrideEnv(t)
    <2> DEFINE more == AllocHandle("env", 0) \o <<Do("tell", local[t].myccsid)>>
    <2>1. Stretch(<<Do("tell", local[t].myccsid)>>, ccsid) BY <1>0, <1>2, OneStep DEF Steps
    <2>2. Stretch(more, ccsid) BY <2>1, AllocHandleStretch, ConcatStretch
    <2>3. /\ Then(t, more) /\ Quiet /\ Head(todo[t]).do = "override_env"
          /\ UNCHANGED <<loaded, env_hndl, env_server_mode, db2, local>>
      BY <1>9 DEF OverrideEnv, At, Quiet
    <2> HIDE DEF more
    <2> QED BY <1>0, <1>3, <2>2, <2>3
  <1>10. CASE ServerTest(t)
    <2> DEFINE more == IF env_server_mode THEN <<>> ELSE ServerMode
    <2>1. Stretch(more, ccsid) BY ServerModeStretch, EmptyStretch
    <2>2. /\ Then(t, more) /\ Quiet /\ Head(todo[t]).do = "server"
          /\ UNCHANGED <<loaded, env_hndl, env_server_mode, db2, local>>
      BY <1>10 DEF ServerTest, At, Quiet
    <2> HIDE DEF more
    <2> QED BY <1>0, <1>3, <2>1, <2>2
  <1>11. CASE ServerFlag(t)
    <2>1. /\ Then(t, <<>>) /\ Quiet /\ Head(todo[t]).do = "server_flag" /\ env_server_mode' \in BOOLEAN
          /\ UNCHANGED <<loaded, env_hndl, db2, local>>
      BY <1>11 DEF ServerFlag, At, Quiet
    <2> QED BY <1>0, <1>3, <2>1, EmptyStretch
  <1> QED BY <1>4, <1>5, <1>6, <1>7, <1>8, <1>9, <1>10, <1>11

\* The calls of DB2 and what is remembered of them: what the environment is told,
\* and what a thread takes for the CCSID, is none or that of the process.
LEMMA CallsKeep ==
  ASSUME IInv, NEW t \in Threads,
         \/ CcsidReturn(t) \/ AllocEnv(t) \/ TellSet(t) \/ TellAttr(t)
         \/ ServerAttr(t) \/ AllocConn(t)
  PROVE  IInv'
  <1> USE DEF IInv
  <1> DEFINE Envs == [env : BOOLEAN, told : Nat, server : BOOLEAN, refused : BOOLEAN, conns : SUBSET Conn]
  <1>0. /\ todo[t] # <<>>
        /\ local \in [Threads -> Local] /\ env_hndl \in {0, 1} /\ db2 \in Envs /\ ccsid \in Nat
        /\ loaded \in BOOLEAN /\ env_server_mode \in BOOLEAN /\ db2.told \in {0, ccsid}
        /\ \A u \in Threads : local[u].myccsid \in {0, ccsid}
    BY DEF Types, OneCcsid, At, CcsidReturn, AllocEnv, TellSet, TellAttr, ServerAttr, AllocConn
  <1>1. N(t) \in Nat /\ (Head(todo[t]).do \in Tells => N(t) \in {0, ccsid}) BY <1>0, HeadStep
  <1>2. local[t] \in Local BY <1>0
  <1>3. ASSUME NEW more, Stretch(more, ccsid), Then(t, more), Quiet,
               Head(todo[t]).do \notin {"flag", "boot"},
               env_hndl' \in {0, 1}, UNCHANGED <<loaded, env_server_mode>>,
               db2' \in Envs, db2'.told \in {0, ccsid},
               local' \in [Threads -> Local],
               \A u \in Threads : /\ local'[u].inside = local[u].inside
                                  /\ local'[u].myccsid \in {0, ccsid}
        PROVE  IInv'
    BY <1>0, <1>3, QuietStep
  <1>4. CASE CcsidReturn(t)
    <2>1. /\ Then(t, <<>>) /\ Quiet /\ Head(todo[t]).do = "myccsid"
          /\ local' = [local EXCEPT ![t].myccsid = ccsid]
          /\ UNCHANGED <<loaded, env_hndl, env_server_mode, db2>>
      BY <1>4 DEF CcsidReturn, At, Quiet
    <2>2. local' \in [Threads -> Local] BY <1>0, <1>2, <2>1 DEF Local
    <2>3. \A u \in Threads : /\ local'[u].inside = local[u].inside
                             /\ local'[u].myccsid \in {0, ccsid}
      BY <1>0, <1>2, <2>1 DEF Local
    <2> QED BY <1>0, <1>3, <2>1, <2>2, <2>3, EmptyStretch
  <1>5. CASE AllocEnv(t)
    <2>1. PICK more \in {EnvAllocated(local[t].myccsid), Unlocking}, e \in {0, 1}, b \in BOOLEAN, r \in BOOLEAN :
             /\ Then(t, more)
             /\ local' = [local EXCEPT ![t].env = e]
             /\ db2' = [db2 EXCEPT !.env = b, !.refused = r]
      <3>1. CASE /\ db2' = [db2 EXCEPT !.env = TRUE]
                 /\ local' = [local EXCEPT ![t].env = 1]
                 /\ Then(t, EnvAllocated(local[t].myccsid))
        <4>1. db2' = [db2 EXCEPT !.env = TRUE, !.refused = db2.refused] BY <1>0, <3>1
        <4> QED BY <1>0, <3>1, <4>1
      <3>2. CASE /\ local' = [local EXCEPT ![t].env = 0]
                 /\ db2' = [db2 EXCEPT !.refused = TRUE]
                 /\ Then(t, Unlocking)
        <4>1. db2' = [db2 EXCEPT !.env = db2.env, !.refused = TRUE] BY <1>0, <3>2
        <4> QED BY <1>0, <3>2, <4>1
      <3> QED BY <1>5, <3>1, <3>2 DEF AllocEnv
    <2>2. Stretch(more, ccsid)
      <3>1. local[t].myccsid \in Nat /\ local[t].myccsid \in {0, ccsid} BY <1>0, <1>2 DEF Local
      <3>2. Stretch(EnvAllocated(local[t].myccsid), ccsid) BY <3>1, EnvAllocatedStretch
      <3> QED BY <3>2, UnlockingStretch
    <2>3. /\ Quiet /\ Head(todo[t]).do = "env" /\ UNCHANGED <<loaded, env_hndl, env_server_mode>>
      BY <1>5 DEF AllocEnv, At, Quiet
    <2>4. local' \in [Threads -> Local] BY <1>0, <1>2, <2>1 DEF Local
    <2>5. \A u \in Threads : /\ local'[u].inside = local[u].inside
                             /\ local'[u].myccsid \in {0, ccsid}
      BY <1>0, <1>2, <2>1 DEF Local
    <2>6. db2' \in Envs /\ db2'.told = db2.told BY <1>0, <2>1
    <2> QED BY <1>0, <1>3, <2>1, <2>2, <2>3, <2>4, <2>5, <2>6
  <1>6. CASE TellSet(t)
    <2>1. /\ Then(t, SetEnvAttr("tell_attr", N(t))) /\ Quiet /\ Head(todo[t]).do = "tell_set"
          /\ env_hndl' = local[t].env
          /\ UNCHANGED <<loaded, env_server_mode, db2, local>>
      BY <1>6 DEF TellSet, At, Quiet
    <2>2. N(t) \in {0, ccsid} BY <1>1, <2>1 DEF Tells
    <2>3. Stretch(SetEnvAttr("tell_attr", N(t)), ccsid)
      BY <1>1, <2>2, SetEnvAttrStretch DEF Steps, Tells
    <2>4. env_hndl' \in {0, 1} BY <1>2, <2>1 DEF Local
    <2> QED BY <1>0, <1>3, <2>1, <2>3, <2>4
  <1>7. CASE TellAttr(t)
    <2>1. /\ Then(t, <<>>) /\ Quiet /\ Head(todo[t]).do = "tell_attr"
          /\ db2' = IF env_hndl = 0 THEN db2 ELSE [db2 EXCEPT !.told = N(t)]
          /\ UNCHANGED <<loaded, env_hndl, env_server_mode, local>>
      BY <1>7 DEF TellAttr, At, Quiet
    <2>2. N(t) \in {0, ccsid} BY <1>1, <2>1 DEF Tells
    <2>3. db2' \in Envs /\ db2'.told \in {0, ccsid} BY <1>0, <1>1, <2>1, <2>2
    <2> QED BY <1>0, <1>3, <2>1, <2>3, EmptyStretch
  <1>8. CASE ServerAttr(t)
    <2>1. /\ Then(t, <<>>) /\ Quiet /\ Head(todo[t]).do = "server_attr"
          /\ UNCHANGED <<loaded, env_hndl, env_server_mode, local>>
          /\ db2' = [db2 EXCEPT !.server = TRUE] \/ db2' = [db2 EXCEPT !.refused = TRUE]
      BY <1>8 DEF ServerAttr, At, Quiet
    <2>2. db2' \in Envs /\ db2'.told = db2.told BY <1>0, <2>1
    <2> QED BY <1>0, <1>3, <2>1, <2>2, EmptyStretch
  <1>9. CASE AllocConn(t)
    <2> DEFINE conn == [by |-> IF N(t) = 1 THEN "SQL400Connect" ELSE "client",
                        told |-> db2.told, server |-> db2.server]
    <2>1. /\ Then(t, Unlocking) /\ Quiet /\ Head(todo[t]).do = "dbc"
          /\ UNCHANGED <<loaded, env_hndl, env_server_mode, local>>
          /\ db2' = db2 \/ db2' = [db2 EXCEPT !.conns = db2.conns \cup {conn}]
      BY <1>9 DEF AllocConn, At, Quiet
    <2>2. conn \in Conn BY <1>0 DEF Conn
    <2>3. db2' \in Envs /\ db2'.told = db2.told
      <3> HIDE DEF conn
      <3> QED BY <1>0, <2>1, <2>2
    <2> QED BY <1>0, <1>3, <2>1, <2>3, UnlockingStretch
  <1> QED BY <1>4, <1>5, <1>6, <1>7, <1>8, <1>9

\* A client calls: nothing was left, and the call is a stretch.
LEMMA CallKeeps == ASSUME IInv, NEW t \in Threads, Call(t) PROVE IInv'
  <1> USE DEF IInv
  <1> DEFINE call == Head(program[t])
             more == IF call.do = "SQLAllocConnect" /\ local[t].env = 0 THEN <<>> ELSE Enter(call)
  <1>0. /\ program \in [Threads -> Seq(ClientCalls)] /\ program[t] # <<>>
        /\ todo \in [Threads -> Seq(Step)] /\ boot \in BOOLEAN
    BY DEF Call, Types
  <1>1. program[t] \in Seq(ClientCalls) BY <1>0
  <1>2. call \in ClientCalls /\ Tail(program[t]) \in Seq(ClientCalls)
    BY <1>0, <1>1, HeadTailProperties
  <1>3. Stretch(more, ccsid) BY <1>2, EnterStretch, EmptyStretch
  <1>4. /\ todo' = [todo EXCEPT ![t] = more]
        /\ program' = [program EXCEPT ![t] = Tail(program[t])]
        /\ UNCHANGED <<boot, glock, ccsid, trace, loaded, env_hndl, env_server_mode, db2, local>>
    BY DEF Call
  <1>5. more \in Seq(Step) BY <1>3 DEF Stretch
  <1>6. Left(more, boot, ccsid) BY <1>3, StretchIsLeft
  <1> HIDE DEF more
  <1>7. Types' BY <1>0, <1>2, <1>4, <1>5 DEF Types
  <1>8. LockHeld' BY <1>4 DEF LockHeld
  <1>9. Ahead' BY <1>0, <1>4, <1>6 DEF Ahead
  <1>10. OneCcsid' /\ Parsed' BY <1>4 DEF OneCcsid, Parsed
  <1> QED BY <1>7, <1>8, <1>9, <1>10

\* Behind the flag a thread may be about to lock only when the flag is set; when
\* it is not, the boot comes first.
LEMMA FlagKeeps == ASSUME IInv, NEW t \in Threads, Flag(t) PROVE IInv'
  <1> USE DEF IInv
  <1>0. /\ todo \in [Threads -> Seq(Step)] /\ boot \in BOOLEAN /\ todo[t] # <<>>
        /\ Left(todo[t], boot, ccsid)
        /\ UNCHANGED <<program, boot, glock, ccsid, trace, loaded, env_hndl, env_server_mode, db2, local>>
    BY DEF Flag, At, Types, Ahead
  <1> DEFINE ahead == (IF boot THEN <<>> ELSE <<Do("boot", 0)>>) \o Tail(todo[t])
  <1>1. todo' = [todo EXCEPT ![t] = ahead] BY DEF Flag, Then
  <1>2. Left(ahead, boot, ccsid)
    <2>1. CASE boot
      <3>1. Tail(todo[t]) \in Seq(Step) /\ Left(Tail(todo[t]), TRUE, ccsid) BY <1>0, TailLeft
      <3>2. <<>> \o Tail(todo[t]) = Tail(todo[t]) BY <3>1, ConcatEmptySeq
      <3> QED BY <2>1, <3>1, <3>2
    <2>2. CASE ~boot BY <1>0, <2>2, BootLeft
    <2> QED BY <1>0, <2>1, <2>2
  <1> HIDE DEF ahead
  <1>3. ahead \in Seq(Step) BY <1>2 DEF Left
  <1>4. Types' BY <1>0, <1>1, <1>3 DEF Types
  <1>5. LockHeld' BY <1>0 DEF LockHeld
  <1>6. Ahead' BY <1>0, <1>1, <1>2 DEF Ahead
  <1>7. OneCcsid' /\ Parsed' BY <1>0 DEF OneCcsid, Parsed
  <1> QED BY <1>4, <1>5, <1>6, <1>7

\* The boot makes a mutex only where nobody has used one; from then on whoever is
\* behind it may lock.
LEMMA BootKeeps == ASSUME IInv, NEW t \in Threads, Boot(t) PROVE IInv'
  <1> USE DEF IInv
  <1>0. /\ todo \in [Threads -> Seq(Step)] /\ boot \in BOOLEAN /\ todo[t] # <<>>
        /\ \A u \in Threads : Left(todo[u], boot, ccsid)
        /\ boot' = TRUE /\ glock' = glock
        /\ UNCHANGED <<program, ccsid, trace, loaded, env_hndl, env_server_mode, db2, local>>
    BY DEF Boot, At, Types, Ahead, MustBoot, LockHeld
  <1>1. Tail(todo[t]) \in Seq(Step) /\ Left(Tail(todo[t]), TRUE, ccsid) BY <1>0, TailLeft
  <1>2. <<>> \o Tail(todo[t]) = Tail(todo[t]) BY <1>1, ConcatEmptySeq
  <1>3. todo' = [todo EXCEPT ![t] = Tail(todo[t])] BY <1>2 DEF Boot, Then
  <1>4. Types' BY <1>0, <1>1, <1>3 DEF Types
  <1>5. LockHeld' BY <1>0 DEF LockHeld
  <1>6. Ahead'
    <2> SUFFICES ASSUME NEW u \in Threads PROVE Left(todo'[u], TRUE, ccsid) BY <1>0 DEF Ahead
    <2>1. CASE u = t BY <1>0, <1>1, <1>3, <2>1
    <2>2. CASE u # t
      <3>1. Left(todo[u], boot, ccsid) /\ todo'[u] = todo[u] BY <1>0, <1>3, <2>2
      <3> QED BY <1>0, <3>1, LeftWeakens
    <2> QED BY <2>1, <2>2
  <1>7. OneCcsid' /\ Parsed' BY <1>0 DEF OneCcsid, Parsed
  <1> QED BY <1>4, <1>5, <1>6, <1>7

\* Entering the lock: it was free, or the thread's own.  The flag is set by then.
LEMMA GlobalLockKeeps == ASSUME IInv, NEW t \in Threads, GlobalLock(t) PROVE IInv'
  <1> USE DEF IInv
  <1>0. /\ todo[t] # <<>> /\ Head(todo[t]).do = "lock" /\ MayEnter(t) /\ Then(t, <<>>)
        /\ glock' = Locked(glock, t) /\ local' = [local EXCEPT ![t].inside = @ + 1]
        /\ glock \in Mutex /\ local \in [Threads -> Local]
        /\ UNCHANGED <<program, boot, ccsid, trace, loaded, env_hndl, env_server_mode, db2>>
    BY DEF GlobalLock, At, Types
  <1>1. /\ todo' \in [Threads -> Seq(Step)]
        /\ \A u \in Threads : Left(todo'[u], boot, ccsid)
    BY <1>0, ThenKeeps, EmptyStretch
  <1>2. boot BY <1>0, HeadStep
  <1>3. glock' \in Mutex /\ glock'.owner = t /\ glock'.count = glock.count + 1 /\ glock.count \in Nat
    BY <1>0 DEF Mutex, FreeMutex, Locked
  <1>4. /\ local' \in [Threads -> Local]
        /\ local'[t].inside = local[t].inside + 1 /\ local[t].inside \in Int
        /\ \A u \in Threads : u # t => local'[u].inside = local[u].inside
        /\ \A u \in Threads : local'[u].myccsid = local[u].myccsid
    <2>1. local[t] \in Local /\ local[t].inside \in Int /\ local[t].inside + 1 \in Int
      BY <1>0 DEF Local
    <2>2. local' = [local EXCEPT ![t] = [local[t] EXCEPT !.inside = local[t].inside + 1]]
      BY <1>0
    <2>3. [local[t] EXCEPT !.inside = local[t].inside + 1] \in Local BY <2>1 DEF Local
    <2>4. local' \in [Threads -> Local] BY <1>0, <2>2, <2>3
    <2>5. local'[t] = [local[t] EXCEPT !.inside = local[t].inside + 1] BY <1>0, <2>2
    <2>6. \A u \in Threads : u # t => local'[u] = local[u] BY <1>0, <2>2
    <2>7. /\ local'[t].inside = local[t].inside + 1
          /\ local'[t].myccsid = local[t].myccsid
      BY <2>1, <2>5 DEF Local
    <2> QED BY <2>1, <2>4, <2>6, <2>7
  <1>5. Types' BY <1>0, <1>1, <1>3, <1>4 DEF Types
  <1>6. LockHeld'
    <2>1. ASSUME NEW u \in Threads
          PROVE  /\ local'[u].inside > 0 => glock'.owner = u
                 /\ glock'.owner = u => local'[u].inside <= glock'.count
      <3>1. CASE u = t
        <4>1. CASE glock.owner = t BY <1>3, <1>4, <3>1, <4>1 DEF LockHeld
        <4>2. CASE glock.owner # t
          <5>1. ~(local[t].inside > 0) BY <4>2 DEF LockHeld
          <5> QED BY <1>3, <1>4, <3>1, <5>1
        <4> QED BY <4>1, <4>2
      <3>2. CASE u # t
        <4>1. glock.owner # u
          BY <1>0, <3>2, TableAssumption DEF MayEnter, MayLock
        <4>2. ~(local[u].inside > 0) BY <4>1 DEF LockHeld
        <4> QED BY <1>3, <1>4, <3>2, <4>2
      <3> QED BY <3>1, <3>2
    <2> QED BY <1>0, <1>2, <2>1 DEF LockHeld
  <1>7. Ahead' BY <1>0, <1>1 DEF Ahead
  <1>8. OneCcsid' BY <1>0, <1>4 DEF OneCcsid
  <1>9. Parsed' BY <1>0 DEF Parsed
  <1> QED BY <1>5, <1>6, <1>7, <1>8, <1>9

\* Leaving it: what the thread still owes the mutex is never more than its count.
LEMMA GlobalUnlockKeeps == ASSUME IInv, NEW t \in Threads, GlobalUnlock(t) PROVE IInv'
  <1> USE DEF IInv
  <1>0. /\ todo[t] # <<>> /\ Head(todo[t]).do = "unlock" /\ Then(t, <<>>)
        /\ glock' = Unlocked(glock, t) /\ local' = [local EXCEPT ![t].inside = @ - 1]
        /\ glock \in Mutex /\ local \in [Threads -> Local]
        /\ UNCHANGED <<program, boot, ccsid, trace, loaded, env_hndl, env_server_mode, db2>>
    BY DEF GlobalUnlock, At, Types
  <1>1. /\ todo' \in [Threads -> Seq(Step)]
        /\ \A u \in Threads : Left(todo'[u], boot, ccsid)
    BY <1>0, ThenKeeps, EmptyStretch
  <1>2. /\ local' \in [Threads -> Local]
        /\ local'[t].inside = local[t].inside - 1 /\ local[t].inside \in Int
        /\ \A u \in Threads : u # t => local'[u].inside = local[u].inside
        /\ \A u \in Threads : local'[u].myccsid = local[u].myccsid
    <2>1. local[t] \in Local /\ local[t].inside \in Int /\ local[t].inside - 1 \in Int
      BY <1>0 DEF Local
    <2>2. local' = [local EXCEPT ![t] = [local[t] EXCEPT !.inside = local[t].inside - 1]]
      BY <1>0
    <2>3. [local[t] EXCEPT !.inside = local[t].inside - 1] \in Local BY <2>1 DEF Local
    <2>4. local' \in [Threads -> Local] BY <1>0, <2>2, <2>3
    <2>5. local'[t] = [local[t] EXCEPT !.inside = local[t].inside - 1] BY <1>0, <2>2
    <2>6. \A u \in Threads : u # t => local'[u] = local[u] BY <1>0, <2>2
    <2>7. /\ local'[t].inside = local[t].inside - 1
          /\ local'[t].myccsid = local[t].myccsid
      BY <2>1, <2>5 DEF Local
    <2> QED BY <2>1, <2>4, <2>6, <2>7
  <1>3. glock' \in Mutex /\ LockHeld'
    <2>1. CASE glock.owner # t
      <3>1. glock' = glock BY <1>0, <2>1 DEF Unlocked
      <3>2. ~(local[t].inside > 0) BY <2>1 DEF LockHeld
      <3> QED BY <1>0, <1>2, <2>1, <3>1, <3>2 DEF LockHeld
    <2>2. CASE glock.owner = t
      <3>1. glock.count \in Nat \ {0} /\ glock # FreeMutex
        BY <1>0, <2>2, TableAssumption DEF Mutex, FreeMutex
      <3>2. boot BY <3>1 DEF LockHeld
      <3>3. local[t].inside <= glock.count BY <2>2 DEF LockHeld
      <3>4. \A u \in Threads : u # t => ~(local[u].inside > 0) BY <2>2 DEF LockHeld
      <3>5. CASE glock.count > 1
        <4>1. glock' = [owner |-> t, count |-> glock.count - 1] BY <1>0, <2>2, <3>5 DEF Unlocked
        <4>2. glock' \in Mutex BY <3>1, <3>5, <4>1 DEF Mutex
        <4>3. LockHeld' BY <1>0, <1>2, <3>1, <3>2, <3>3, <3>4, <4>1 DEF LockHeld
        <4> QED BY <4>2, <4>3
      <3>6. CASE ~(glock.count > 1)
        <4>1. glock' = FreeMutex BY <1>0, <2>2, <3>6 DEF Unlocked
        <4>2. glock'.owner = NoThread BY <4>1 DEF FreeMutex
        <4>3. ~(local'[t].inside > 0) BY <1>2, <3>1, <3>3, <3>6
        <4>4. \A u \in Threads : ~(local'[u].inside > 0) BY <1>2, <3>4, <4>3
        <4>5. LockHeld' BY <4>1, <4>2, <4>4, TableAssumption DEF LockHeld
        <4> QED BY <4>1, <4>5 DEF Mutex
      <3> QED BY <3>5, <3>6
    <2> QED BY <2>1, <2>2
  <1>4. Types' BY <1>0, <1>1, <1>2, <1>3 DEF Types
  <1>5. Ahead' BY <1>0, <1>1 DEF Ahead
  <1>6. OneCcsid' BY <1>0, <1>2 DEF OneCcsid
  <1>7. Parsed' BY <1>0 DEF Parsed
  <1> QED BY <1>3, <1>4, <1>5, <1>6, <1>7

\* The CCSID is chosen once: until then everybody has taken, and told, none.
LEMMA CcsidChooseKeeps == ASSUME IInv, NEW t \in Threads, CcsidChoose(t) PROVE IInv'
  <1> USE DEF IInv
  <1>0. /\ todo[t] # <<>> /\ Head(todo[t]).do = "choose" /\ Then(t, <<>>)
        /\ ccsid' = IF ccsid # 0 THEN ccsid ELSE IF N(t) = 0 THEN PaseCcsid ELSE N(t)
        /\ ccsid \in Nat /\ boot \in BOOLEAN
        /\ UNCHANGED <<program, boot, glock, trace, loaded, env_hndl, env_server_mode, db2, local>>
    BY DEF CcsidChoose, At, MayChoose, Types
  <1>1. /\ todo' \in [Threads -> Seq(Step)]
        /\ \A u \in Threads : Left(todo'[u], boot, ccsid)
    BY <1>0, ThenKeeps, EmptyStretch
  <1>2. N(t) \in Nat BY <1>0, HeadStep
  <1>3. ccsid' \in Nat /\ ccsid \in {0, ccsid'} BY <1>0, <1>2, StartupAssumption
  <1>4. Types' BY <1>0, <1>1, <1>3 DEF Types
  <1>5. LockHeld' BY <1>0 DEF LockHeld
  <1>6. Ahead'
    <2> SUFFICES ASSUME NEW u \in Threads PROVE Left(todo'[u], boot, ccsid') BY <1>0 DEF Ahead
    <2> QED BY <1>0, <1>1, <1>3, LeftWeakens
  <1>7. OneCcsid' BY <1>0, <1>3 DEF OneCcsid
  <1>8. Parsed' BY <1>0 DEF Parsed
  <1> QED BY <1>4, <1>5, <1>6, <1>7, <1>8

\* The first parse finds the string whole.
LEMMA TraceParseKeeps == ASSUME IInv, NEW t \in Threads, TraceParse(t) PROVE IInv'
  <1> USE DEF IInv
  <1>0. /\ todo[t] # <<>> /\ Head(todo[t]).do = "parse" /\ Then(t, <<>>)
        /\ trace' = [listed |-> trace.left, left |-> IF trace.left = 0 THEN 0 ELSE 1,
                     parses |-> trace.parses + 1]
        /\ trace \in [listed : Nat, left : Nat, parses : Nat]
        /\ UNCHANGED <<program, boot, glock, ccsid, loaded, env_hndl, env_server_mode, db2, local>>
    BY DEF TraceParse, At, Listed, Types
  <1>1. /\ todo' \in [Threads -> Seq(Step)]
        /\ \A u \in Threads : Left(todo'[u], boot, ccsid)
    BY <1>0, ThenKeeps, EmptyStretch
  <1>2. Types' BY <1>0, <1>1 DEF Types
  <1>3. LockHeld' BY <1>0 DEF LockHeld
  <1>4. Ahead' BY <1>0, <1>1 DEF Ahead
  <1>5. OneCcsid' BY <1>0 DEF OneCcsid
  <1>6. Parsed' BY <1>0 DEF Parsed
  <1> QED BY <1>2, <1>3, <1>4, <1>5, <1>6

-----------------------------------------------------------------------------
(* The environment: what a thread may rely on at each of the steps it has    *)
(* left, as long as DB2 has refused nothing                                   *)

\* What may be known: the CCSID is chosen, the thread has taken it, DB2 gave the
\* thread the environment, env_hndl is set, the environment has been told its
\* CCSID, it is in server mode.
Facts == {"ccsid", "my", "own", "env", "told", "server"}

\* Where a thread stands before a step: how often it is inside the lock, what it
\* knows, and whether it owes the environment its CCSID.
Stand == [n : Nat, has : SUBSET Facts, owes : BOOLEAN]

\* What a step, and the steps that take its place, add to what is known.
Gains(do, q) ==
  CASE do = "choose" -> {"ccsid"}
    [] do = "myccsid" -> {"my"}
    [] do = "ccsid" -> {"ccsid", "my"}
    [] do = "lock" -> IF q.n = 0 /\ "env" \in q.has THEN {"told"} ELSE {}
    [] do = "env" -> {"own", "env", "told"}
    [] do = "tell" -> IF q.n > 0 THEN {"env", "told"} ELSE {"env"}
    [] do = "tell_set" -> {"env", "told"}
    [] do = "tell_attr" -> {"told"}
    [] do \in {"override", "override_env"} -> {"env"}
    [] do \in {"server", "server_attr"} -> {"server"}
    [] OTHER -> {}

\* Where a step is allowed.
Guard(x, q) ==
  /\ x.do \in {"unlock", "env", "dbc", "tell_set", "tell_attr"} => q.n > 0
  /\ q.owes => q.n > 0
  /\ x.do = "myccsid" => "ccsid" \in q.has
  /\ x.do \in {"env", "override_env"} => "my" \in q.has
  /\ x.do \in Tells => x.n # 0
  /\ x.do = "tell" => "env" \in q.has \/ ("own" \in q.has /\ q.n > 0)
  /\ x.do = "tell_set" => "own" \in q.has
  /\ x.do = "tell_attr" => q.owes /\ "env" \in q.has
  /\ x.do = "server_flag" => "server" \in q.has
  /\ x.do = "dbc" => {"env", "told"} \subseteq q.has /\ (x.n = 1 => "server" \in q.has)

\* The lock levels of a step: the unlock of an allocation comes with DB2's answer.
Level(do, n) ==
  IF do = "lock" THEN n + 1 ELSE IF do \in {"unlock", "env", "dbc"} THEN n - 1 ELSE n

Allowed(x, q, r) ==
  /\ Guard(x, q)
  /\ r.n = Level(x.do, q.n)
  /\ r.has \subseteq q.has \cup Gains(x.do, q)
  /\ r.owes = q.owes \/ (x.do = "tell_attr" /\ ~r.owes)

\* The steps of s, all from D, lead from q to r.
Runs(D, s, q, r) ==
  /\ s \in Seq(Step) /\ \A i \in 1 .. Len(s) : s[i].do \in D
  /\ \E f \in [1 .. Len(s) + 1 -> Stand] :
       /\ f[1] = q /\ f[Len(s) + 1] = r
       /\ \A i \in 1 .. Len(s) : Allowed(s[i], f[i], f[i + 1])

LEMMA RunsStands ==
  ASSUME NEW D, NEW s, NEW q, NEW r, Runs(D, s, q, r)
  PROVE  s \in Seq(Step) /\ q \in Stand /\ r \in Stand
  <1>1. PICK f \in [1 .. Len(s) + 1 -> Stand] : f[1] = q /\ f[Len(s) + 1] = r
    BY DEF Runs
  <1>2. s \in Seq(Step) /\ Len(s) \in Nat BY LenProperties DEF Runs
  <1> QED BY <1>1, <1>2

LEMMA RunsWider ==
  ASSUME NEW D, NEW E, D \subseteq E, NEW s, NEW q, NEW r, Runs(D, s, q, r)
  PROVE  Runs(E, s, q, r)
  BY DEF Runs

LEMMA RunsEmpty ==
  ASSUME NEW D, NEW q \in Stand
  PROVE  Runs(D, <<>>, q, q)
  <1> DEFINE f == [i \in 1 .. 1 |-> q]
  <1>1. <<>> \in Seq(Step) /\ Len(<<>>) = 0 BY EmptySeq
  <1>2. f \in [1 .. Len(<<>>) + 1 -> Stand] /\ f[1] = q /\ f[Len(<<>>) + 1] = q BY <1>1
  <1> HIDE DEF f
  <1> QED BY <1>1, <1>2 DEF Runs

LEMMA RunsOne ==
  ASSUME NEW D, NEW x \in Step, x.do \in D, NEW q \in Stand, NEW r \in Stand, Allowed(x, q, r)
  PROVE  Runs(D, <<x>>, q, r)
  <1> DEFINE f == [i \in 1 .. 2 |-> IF i = 1 THEN q ELSE r]
             s == <<x>>
  <1>1. s \in Seq(Step) /\ Len(s) = 1 /\ s[1] = x OBVIOUS
  <1>2. f \in [1 .. Len(s) + 1 -> Stand] /\ f[1] = q /\ f[Len(s) + 1] = r BY <1>1
  <1>3. \A i \in 1 .. Len(s) : s[i].do \in D /\ Allowed(s[i], f[i], f[i + 1])
    <2> SUFFICES ASSUME NEW i \in 1 .. Len(s)
                 PROVE  s[i].do \in D /\ Allowed(s[i], f[i], f[i + 1])
      OBVIOUS
    <2>1. i = 1 /\ f[i] = q /\ f[i + 1] = r BY <1>1
    <2> HIDE DEF f, s
    <2> QED BY <1>1, <2>1
  <1> HIDE DEF f
  <1> QED BY <1>1, <1>2, <1>3 DEF Runs

LEMMA RunsTwo ==
  ASSUME NEW D, NEW x \in Step, x.do \in D, NEW y \in Step, y.do \in D,
         NEW q \in Stand, NEW p \in Stand, NEW r \in Stand, Allowed(x, q, p), Allowed(y, p, r)
  PROVE  Runs(D, <<x, y>>, q, r)
  <1> DEFINE f == [i \in 1 .. 3 |-> IF i = 1 THEN q ELSE IF i = 2 THEN p ELSE r]
             s == <<x, y>>
  <1>1. s \in Seq(Step) /\ Len(s) = 2 /\ s[1] = x /\ s[2] = y OBVIOUS
  <1>2. f \in [1 .. Len(s) + 1 -> Stand] /\ f[1] = q /\ f[Len(s) + 1] = r BY <1>1
  <1>3. \A i \in 1 .. Len(s) : s[i].do \in D /\ Allowed(s[i], f[i], f[i + 1])
    <2> SUFFICES ASSUME NEW i \in 1 .. Len(s)
                 PROVE  s[i].do \in D /\ Allowed(s[i], f[i], f[i + 1])
      OBVIOUS
    <2>1. (i = 1 /\ f[i] = q /\ f[i + 1] = p) \/ (i = 2 /\ f[i] = p /\ f[i + 1] = r) BY <1>1
    <2> HIDE DEF f, s
    <2> QED BY <1>1, <2>1
  <1> HIDE DEF f
  <1> QED BY <1>1, <1>2, <1>3 DEF Runs

LEMMA RunsConcat ==
  ASSUME NEW D, NEW a, NEW b, NEW q, NEW p, NEW r, Runs(D, a, q, p), Runs(D, b, p, r)
  PROVE  Runs(D, a \o b, q, r)
  <1>1. PICK f \in [1 .. Len(a) + 1 -> Stand] :
             /\ f[1] = q /\ f[Len(a) + 1] = p
             /\ \A i \in 1 .. Len(a) : Allowed(a[i], f[i], f[i + 1])
    BY DEF Runs
  <1>2. PICK g \in [1 .. Len(b) + 1 -> Stand] :
             /\ g[1] = p /\ g[Len(b) + 1] = r
             /\ \A i \in 1 .. Len(b) : Allowed(b[i], g[i], g[i + 1])
    BY DEF Runs
  <1> DEFINE s == a \o b
             h == [i \in 1 .. Len(s) + 1 |-> IF i <= Len(a) THEN f[i] ELSE g[i - Len(a)]]
  <1>3. a \in Seq(Step) /\ b \in Seq(Step) /\ Len(a) \in Nat /\ Len(b) \in Nat
    BY LenProperties DEF Runs
  <1>4. /\ s \in Seq(Step) /\ Len(s) = Len(a) + Len(b)
        /\ \A i \in 1 .. Len(a) + Len(b) : s[i] = IF i <= Len(a) THEN a[i] ELSE b[i - Len(a)]
    BY <1>3, ConcatProperties
  <1>5. \A i \in 1 .. Len(s) + 1 : h[i] \in Stand
    <2> SUFFICES ASSUME NEW i \in 1 .. Len(s) + 1 PROVE h[i] \in Stand OBVIOUS
    <2>1. CASE i <= Len(a)
      <3>1. i \in 1 .. Len(a) + 1 /\ h[i] = f[i] BY <1>3, <1>4, <2>1
      <3> QED BY <3>1
    <2>2. CASE ~(i <= Len(a))
      <3>1. i - Len(a) \in 1 .. Len(b) + 1 /\ h[i] = g[i - Len(a)] BY <1>3, <1>4, <2>2
      <3> QED BY <3>1
    <2> QED BY <2>1, <2>2
  <1>6. h \in [1 .. Len(s) + 1 -> Stand] BY <1>5
  <1>7. \A i \in 1 .. Len(a) : h[i] = f[i] /\ h[i + 1] = f[i + 1]
    <2> SUFFICES ASSUME NEW i \in 1 .. Len(a) PROVE h[i] = f[i] /\ h[i + 1] = f[i + 1] OBVIOUS
    <2>1. h[i] = f[i] BY <1>3, <1>4
    <2>2. CASE i < Len(a) BY <1>3, <1>4, <2>2, <2>1
    <2>3. CASE i = Len(a)
      <3>1. i + 1 \in 1 .. Len(s) + 1 /\ ~(i + 1 <= Len(a)) /\ i + 1 - Len(a) = 1
        BY <1>3, <1>4, <2>3
      <3>2. h[i + 1] = g[1] BY <3>1
      <3> QED BY <1>1, <1>2, <2>1, <2>3, <3>2
    <2> QED BY <1>3, <2>2, <2>3
  <1>8. \A i \in 1 .. Len(b) : h[Len(a) + i] = g[i] /\ h[Len(a) + i + 1] = g[i + 1]
    BY <1>3, <1>4
  <1>9. h[1] = q /\ h[Len(s) + 1] = r
    <2>1. h[Len(s) + 1] = g[Len(b) + 1] BY <1>3, <1>4
    <2>2. CASE Len(a) = 0 BY <1>1, <1>2, <1>3, <1>4, <2>2
    <2>3. CASE Len(a) > 0
      <3>1. 1 \in 1 .. Len(s) + 1 /\ 1 <= Len(a) BY <1>3, <1>4, <2>3
      <3>2. h[1] = f[1] BY <3>1
      <3> QED BY <1>1, <1>2, <2>1, <3>2
    <2> QED BY <1>2, <1>3, <2>1, <2>2, <2>3
  <1> HIDE DEF h
  <1>10. \A i \in 1 .. Len(s) : s[i].do \in D /\ Allowed(s[i], h[i], h[i + 1])
    <2> SUFFICES ASSUME NEW i \in 1 .. Len(s)
                 PROVE  s[i].do \in D /\ Allowed(s[i], h[i], h[i + 1])
      OBVIOUS
    <2>1. CASE i <= Len(a)
      <3>1. i \in 1 .. Len(a) /\ s[i] = a[i] BY <1>3, <1>4, <2>1
      <3>2. a[i].do \in D /\ Allowed(a[i], f[i], f[i + 1]) BY <1>1, <3>1 DEF Runs
      <3>3. h[i] = f[i] /\ h[i + 1] = f[i + 1] BY <1>7, <3>1
      <3> HIDE DEF s
      <3> QED BY <3>1, <3>2, <3>3
    <2>2. CASE i > Len(a)
      <3> DEFINE j == i - Len(a)
      <3>1. j \in 1 .. Len(b) /\ s[i] = b[j] /\ i = Len(a) + j BY <1>3, <1>4, <2>2
      <3>2. b[j].do \in D /\ Allowed(b[j], g[j], g[j + 1]) BY <1>2, <3>1 DEF Runs
      <3>3. h[i] = g[j] /\ h[i + 1] = g[j + 1] BY <1>8, <3>1
      <3> HIDE DEF s, j
      <3> QED BY <3>1, <3>2, <3>3
    <2> QED BY <1>3, <1>4, <2>1, <2>2
  <1> QED BY <1>4, <1>6, <1>9, <1>10 DEF Runs

\* Without its first step.
LEMMA RunsTail ==
  ASSUME NEW D, NEW s, NEW q, NEW r, Runs(D, s, q, r), s # <<>>
  PROVE  /\ Head(s) \in Step /\ Head(s).do \in D
         /\ \E p \in Stand : Allowed(Head(s), q, p) /\ Runs(D, Tail(s), p, r)
  <1>1. PICK f \in [1 .. Len(s) + 1 -> Stand] :
             /\ f[1] = q /\ f[Len(s) + 1] = r
             /\ \A i \in 1 .. Len(s) : Allowed(s[i], f[i], f[i + 1])
    BY DEF Runs
  <1>2. s \in Seq(Step) /\ Len(s) \in Nat \ {0} /\ \A i \in 1 .. Len(s) : s[i].do \in D
    BY EmptySeq DEF Runs
  <1> DEFINE b == Tail(s)
             g == [i \in 1 .. Len(b) + 1 |-> f[i + 1]]
  <1>3. /\ Head(s) \in Step /\ b \in Seq(Step) /\ Len(b) = Len(s) - 1
        /\ \A i \in 1 .. Len(b) : b[i] = s[i + 1]
    BY <1>2, HeadTailProperties
  <1>4. Head(s) = s[1] /\ 1 \in 1 .. Len(s) BY <1>2
  <1>5. \A i \in 1 .. Len(b) + 1 : i + 1 \in 1 .. Len(s) + 1 /\ g[i] = f[i + 1] BY <1>2, <1>3
  <1>6. g \in [1 .. Len(b) + 1 -> Stand] BY <1>5
  <1>7. g[1] = f[2] /\ g[Len(b) + 1] = r BY <1>1, <1>2, <1>3, <1>5
  <1>8. \A i \in 1 .. Len(b) : b[i].do \in D /\ Allowed(b[i], g[i], g[i + 1])
    <2> SUFFICES ASSUME NEW i \in 1 .. Len(b)
                 PROVE  b[i].do \in D /\ Allowed(b[i], g[i], g[i + 1])
      OBVIOUS
    <2>1. i + 1 \in 1 .. Len(s) /\ i \in 1 .. Len(b) + 1 /\ i + 1 \in 1 .. Len(b) + 1
      BY <1>2, <1>3
    <2>2. g[i] = f[i + 1] /\ g[i + 1] = f[(i + 1) + 1] /\ b[i] = s[i + 1] BY <1>3, <1>5, <2>1
    <2>3. s[i + 1].do \in D /\ Allowed(s[i + 1], f[i + 1], f[(i + 1) + 1])
      BY <1>1, <1>2, <2>1
    <2> HIDE DEF g, b
    <2> QED BY <2>2, <2>3
  <1>9. f[2] \in Stand /\ Allowed(Head(s), q, f[2])
    <2>1. 2 \in 1 .. Len(s) + 1 /\ 1 + 1 = 2 BY <1>2
    <2>2. Allowed(s[1], f[1], f[1 + 1]) BY <1>1, <1>4
    <2> QED BY <1>1, <1>4, <2>1, <2>2
  <1> HIDE DEF g
  <1>10. Runs(D, b, f[2], r) BY <1>3, <1>6, <1>7, <1>8 DEF Runs
  <1> QED BY <1>2, <1>3, <1>4, <1>9, <1>10

\* Who knows more may do all the same.
Knowing(q, X) == [n |-> q.n, has |-> q.has \cup X, owes |-> q.owes]

LEMMA AllowedLift ==
  ASSUME NEW x \in Step, NEW q \in Stand, NEW r \in Stand, Allowed(x, q, r), NEW X \in SUBSET Facts
  PROVE  Allowed(x, Knowing(q, X), Knowing(r, X))
  <1>1. Guard(x, Knowing(q, X)) BY DEF Allowed, Guard, Knowing, Stand
  <1>2. Gains(x.do, q) \subseteq Gains(x.do, Knowing(q, X)) BY DEF Gains, Knowing, Stand
  <1> QED BY <1>1, <1>2 DEF Allowed, Knowing, Stand

LEMMA RunsLift ==
  ASSUME NEW D, NEW s, NEW q, NEW r, Runs(D, s, q, r),
         NEW p \in Stand, p.n = q.n, p.owes = q.owes, q.has \subseteq p.has
  PROVE  \E z \in Stand : /\ Runs(D, s, p, z)
                          /\ z.n = r.n /\ r.has \subseteq z.has /\ p.has \subseteq z.has
  <1> DEFINE X == p.has
  <1>1. PICK f \in [1 .. Len(s) + 1 -> Stand] :
             /\ f[1] = q /\ f[Len(s) + 1] = r
             /\ \A i \in 1 .. Len(s) : Allowed(s[i], f[i], f[i + 1])
    BY DEF Runs
  <1>2. s \in Seq(Step) /\ Len(s) \in Nat /\ \A i \in 1 .. Len(s) : s[i].do \in D
    BY LenProperties DEF Runs
  <1>3. X \in SUBSET Facts /\ q \in Stand /\ r \in Stand BY RunsStands DEF Stand
  <1> HIDE DEF X
  <1> DEFINE g == [i \in 1 .. Len(s) + 1 |-> Knowing(f[i], X)]
  <1>4. \A y \in Stand : Knowing(y, X) \in Stand BY <1>3 DEF Knowing, Stand
  <1>5. g \in [1 .. Len(s) + 1 -> Stand] BY <1>4
  <1>6. Knowing(q, X) = p BY <1>3 DEF Knowing, Stand, X
  <1>7. g[1] = p /\ g[Len(s) + 1] = Knowing(r, X) BY <1>1, <1>2, <1>6
  <1>8. \A i \in 1 .. Len(s) : Allowed(s[i], g[i], g[i + 1])
    <2> SUFFICES ASSUME NEW i \in 1 .. Len(s) PROVE Allowed(s[i], g[i], g[i + 1]) OBVIOUS
    <2>1. i \in 1 .. Len(s) + 1 /\ i + 1 \in 1 .. Len(s) + 1 BY <1>2
    <2>2. g[i] = Knowing(f[i], X) /\ g[i + 1] = Knowing(f[i + 1], X) BY <2>1
    <2>3. Allowed(s[i], f[i], f[i + 1]) /\ s[i] \in Step /\ f[i] \in Stand /\ f[i + 1] \in Stand
      BY <1>1, <1>2, <2>1, ElementOfSeq
    <2> HIDE DEF g
    <2> QED BY <1>3, <2>2, <2>3, AllowedLift
  <1> HIDE DEF g
  <1>9. Runs(D, s, p, Knowing(r, X)) BY <1>2, <1>5, <1>7, <1>8 DEF Runs
  <1>10. /\ Knowing(r, X) \in Stand /\ Knowing(r, X).n = r.n
         /\ r.has \subseteq Knowing(r, X).has /\ p.has \subseteq Knowing(r, X).has
    BY <1>3, <1>4 DEF Knowing, X
  <1> QED BY <1>9, <1>10

-----------------------------------------------------------------------------
(* How the pieces run                                                        *)

\* The steps that may stand before the one that tells the environment its CCSID.
Lookups ==
  {"flag", "boot", "lock", "unlock", "ccsid", "choose", "parse", "myccsid", "srvpgm", "load"}

Others == Steps \ {"tell_attr"}

Entered(q) ==
  [n |-> q.n + 1,
   has |-> q.has \cup (IF q.n = 0 /\ "env" \in q.has THEN {"told"} ELSE {}),
   owes |-> q.owes]

Sane(q) == q \in Stand /\ (q.owes => q.n > 0)

LEMMA Sanity ==
  ASSUME NEW q, Sane(q)
  PROVE  /\ Sane(Entered(q)) /\ \A X \in SUBSET Facts : Sane(Knowing(q, X))
         /\ q.n \in Nat /\ q.has \subseteq Facts /\ q.owes \in BOOLEAN
  <1>1. q.n \in Nat /\ q.has \in SUBSET Facts /\ q.owes \in BOOLEAN /\ (q.owes => q.n > 0)
    BY DEF Sane, Stand
  <1>2. \A X \in SUBSET Facts : Sane(Knowing(q, X))
    BY <1>1 DEF Sane, Stand, Knowing
  <1>3. "told" \in Facts BY DEF Facts
  <1>4. q.has \cup (IF q.n = 0 /\ "env" \in q.has THEN {"told"} ELSE {}) \in SUBSET Facts
    BY <1>1, <1>3
  <1>5. Entered(q) \in Stand BY <1>1, <1>4 DEF Entered, Stand
  <1>6. Entered(q).n > 0 BY <1>1 DEF Entered
  <1> QED BY <1>1, <1>2, <1>5, <1>6 DEF Sane

LEMMA LockingRuns ==
  ASSUME NEW q, Sane(q)
  PROVE  Runs(Lookups, Locking, q, Entered(q))
  <1>1. Do("flag", 0) \in Step /\ Do("lock", 0) \in Step BY DEF Step, Steps, Do
  <1>2. q \in Stand /\ Entered(q) \in Stand BY Sanity DEF Sane
  <1>3. Allowed(Do("flag", 0), q, q)
    BY DEF Allowed, Guard, Level, Do, Tells, Sane
  <1>4. Allowed(Do("lock", 0), q, Entered(q))
    BY DEF Allowed, Guard, Level, Gains, Do, Tells, Sane, Entered
  <1> QED BY <1>1, <1>2, <1>3, <1>4, RunsTwo DEF Locking, Do, Lookups

\* A step at which nothing is gained and no lock changes hands.
LEMMA PlainStep ==
  ASSUME NEW q, Sane(q), NEW do \in {"flag", "boot", "parse", "load", "srvpgm"}, NEW n \in Nat
  PROVE  Do(do, n) \in Step /\ Do(do, n).do = do /\ do \in Lookups /\ Allowed(Do(do, n), q, q)
  BY DEF Allowed, Guard, Level, Gains, Do, Step, Steps, Tells, Sane, Lookups

LEMMA CcsidStep ==
  ASSUME NEW q, Sane(q), NEW n \in Nat
  PROVE  /\ Do("ccsid", n) \in Step
         /\ Allowed(Do("ccsid", n), q, Knowing(q, {"ccsid", "my"}))
  BY DEF Allowed, Guard, Level, Gains, Do, Step, Steps, Tells, Sane, Knowing

LEMMA CcsidRuns ==
  ASSUME NEW q, Sane(q), NEW n \in Nat
  PROVE  /\ Runs(Lookups, Ccsid(n), q, Knowing(q, {"ccsid", "my"}))
         /\ Sane(Knowing(q, {"ccsid", "my"}))
  <1>1. Sane(Knowing(q, {"ccsid", "my"})) BY Sanity DEF Facts
  <1>2. Do("ccsid", n).do = "ccsid" /\ "ccsid" \in Lookups BY DEF Do, Lookups
  <1> QED BY <1>1, <1>2, CcsidStep, RunsOne DEF Ccsid, Sane

LEMMA IntoDb2Runs ==
  ASSUME NEW q, Sane(q)
  PROVE  Runs(Lookups, IntoDb2, q, q)
  BY PlainStep, RunsOne DEF IntoDb2, Sane

\* init_CCSID400 of a thread that found no CCSID.
LEMMA CcsidPieceRuns ==
  ASSUME NEW q, Sane(q), NEW n \in Nat
  PROVE  Runs(Lookups, (Locking \o <<Do("choose", n), Do("parse", 0)>> \o Unlocking)
                         \o <<Do("myccsid", 0)>>, q, Knowing(q, {"ccsid", "my"}))
  <1> DEFINE e == Entered(q)
             k == Knowing(e, {"ccsid"})
             u == Knowing(q, {"ccsid"})
             m == Knowing(q, {"ccsid", "my"})
  <1>1. Sane(e) /\ Sane(k) /\ Sane(u) /\ Sane(m) BY Sanity DEF Facts
  <1>2. e \in Stand /\ k \in Stand /\ u \in Stand /\ m \in Stand BY <1>1 DEF Sane
  <1>3. Runs(Lookups, Locking, q, e) BY LockingRuns
  <1>4. Runs(Lookups, <<Do("choose", n), Do("parse", 0)>>, e, k)
    <2>1. Do("choose", n) \in Step /\ Do("parse", 0) \in Step BY DEF Do, Step, Steps
    <2>2. Allowed(Do("choose", n), e, k)
      BY <1>1 DEF Allowed, Guard, Level, Gains, Do, Tells, Sane, Knowing
    <2>3. Allowed(Do("parse", 0), k, k) BY <1>1, PlainStep
    <2>4. Do("choose", n).do \in Lookups /\ Do("parse", 0).do \in Lookups BY DEF Do, Lookups
    <2> HIDE DEF e, k
    <2> QED BY <1>2, <2>1, <2>2, <2>3, <2>4, RunsTwo
  <1>5. Runs(Lookups, Unlocking, k, u)
    <2>1. Do("unlock", 0) \in Step /\ Do("unlock", 0).do \in Lookups
      BY DEF Do, Step, Steps, Lookups
    <2>2. k.n = q.n + 1 /\ k.has = (e.has \cup {"ccsid"}) /\ k.owes = q.owes /\ q.has \subseteq e.has
      BY DEF Knowing, Entered
    <2>3. q.n \in Nat BY Sanity
    <2>4. Allowed(Do("unlock", 0), k, u)
      BY <2>2, <2>3 DEF Allowed, Guard, Level, Gains, Do, Tells, Knowing
    <2> HIDE DEF k, u
    <2> QED BY <1>2, <2>1, <2>4, RunsOne DEF Unlocking
  <1>6. Runs(Lookups, <<Do("myccsid", 0)>>, u, m)
    <2>1. Do("myccsid", 0) \in Step /\ Do("myccsid", 0).do \in Lookups
      BY DEF Do, Step, Steps, Lookups
    <2>2. Allowed(Do("myccsid", 0), u, m)
      BY DEF Allowed, Guard, Level, Gains, Do, Tells, Knowing, Sane
    <2> HIDE DEF m, u
    <2> QED BY <1>2, <2>1, <2>2, RunsOne
  <1> HIDE DEF e, k, u, m
  <1>7. Runs(Lookups, Locking \o <<Do("choose", n), Do("parse", 0)>>, q, k)
    BY <1>3, <1>4, RunsConcat
  <1>8. Runs(Lookups, (Locking \o <<Do("choose", n), Do("parse", 0)>>) \o Unlocking, q, u)
    BY <1>5, <1>7, RunsConcat
  <1>9. Runs(Lookups, ((Locking \o <<Do("choose", n), Do("parse", 0)>>) \o Unlocking)
                        \o <<Do("myccsid", 0)>>, q, m)
    BY <1>6, <1>8, RunsConcat
  <1> QED BY <1>9 DEF m

\* init_cli_srvpgm of a thread that did not find the mark.
LEMMA SrvpgmPieceRuns ==
  ASSUME NEW q, Sane(q)
  PROVE  Runs(Lookups, (Locking \o <<Do("load", 0)>>) \o Unlocking, q, q)
  <1> DEFINE e == Entered(q)
  <1>1. Sane(e) /\ e \in Stand /\ q \in Stand BY Sanity DEF Sane
  <1>2. Runs(Lookups, Locking, q, e) BY LockingRuns
  <1>3. Runs(Lookups, <<Do("load", 0)>>, e, e) BY <1>1, PlainStep, RunsOne
  <1>4. Runs(Lookups, Unlocking, e, q)
    <2>1. Do("unlock", 0) \in Step /\ Do("unlock", 0).do \in Lookups
      BY DEF Do, Step, Steps, Lookups
    <2>2. q.n \in Nat BY Sanity
    <2>3. Allowed(Do("unlock", 0), e, q)
      BY <2>2 DEF Allowed, Guard, Level, Gains, Do, Tells, Entered
    <2> HIDE DEF e
    <2> QED BY <1>1, <2>1, <2>3, RunsOne DEF Unlocking
  <1> HIDE DEF e
  <1>5. Runs(Lookups, Locking \o <<Do("load", 0)>>, q, e) BY <1>2, <1>3, RunsConcat
  <1> QED BY <1>4, <1>5, RunsConcat

LEMMA SetEnvAttrRuns ==
  ASSUME NEW D, Lookups \subseteq D, NEW attr \in D, NEW n \in Nat, Do(attr, n) \in Step,
         NEW q, Sane(q), NEW p \in Stand,
         Allowed(Do(attr, n), Knowing(q, {"ccsid", "my"}), p)
  PROVE  Runs(D, SetEnvAttr(attr, n), q, p)
  <1> DEFINE k == Knowing(q, {"ccsid", "my"})
  <1>1. Runs(D, Ccsid(0), q, k) /\ Sane(k) BY CcsidRuns, RunsWider
  <1>2. Runs(D, IntoDb2, k, k) BY <1>1, IntoDb2Runs, RunsWider
  <1>3. Do(attr, n).do = attr /\ k \in Stand BY <1>1 DEF Do, Sane
  <1>4. Runs(D, <<Do(attr, n)>>, k, p) BY <1>3, RunsOne
  <1> HIDE DEF k
  <1>5. Runs(D, Ccsid(0) \o IntoDb2, q, k) BY <1>1, <1>2, RunsConcat
  <1> QED BY <1>4, <1>5, RunsConcat DEF SetEnvAttr

LEMMA AllocHandleRuns ==
  ASSUME NEW kind \in {"env", "dbc"}, NEW n \in Nat, NEW q, Sane(q), NEW p \in Stand,
         Allowed(Do(kind, n), Entered(Knowing(q, {"ccsid", "my"})), p)
  PROVE  Runs(Others, AllocHandle(kind, n), q, p)
  <1> DEFINE k == Knowing(q, {"ccsid", "my"})
             e == Entered(k)
  <1>0. Lookups \subseteq Others BY DEF Lookups, Others, Steps
  <1>1. Runs(Others, Ccsid(0), q, k) /\ Sane(k) BY <1>0, CcsidRuns, RunsWider
  <1>2. Runs(Others, Locking, k, e) /\ Sane(e) BY <1>0, <1>1, LockingRuns, RunsWider, Sanity
  <1>3. Runs(Others, IntoDb2, e, e) BY <1>0, <1>2, IntoDb2Runs, RunsWider
  <1>4. Runs(Others, <<Do(kind, n)>>, e, p)
    <2>1. Do(kind, n) \in Step /\ Do(kind, n).do \in Others BY DEF Do, Step, Steps, Others
    <2>2. e \in Stand BY <1>2 DEF Sane
    <2> HIDE DEF e, k
    <2> QED BY <2>1, <2>2, RunsOne DEF e, k
  <1> HIDE DEF e, k
  <1>5. Runs(Others, Ccsid(0) \o Locking, q, e) BY <1>1, <1>2, RunsConcat
  <1>6. Runs(Others, (Ccsid(0) \o Locking) \o IntoDb2, q, e) BY <1>3, <1>5, RunsConcat
  <1> QED BY <1>4, <1>6, RunsConcat DEF AllocHandle

\* Out of the lock.
Out(q, X) == [n |-> q.n - 1, has |-> q.has \cup X, owes |-> q.owes]

LEMMA UnlockingRuns ==
  ASSUME NEW q, Sane(q), q.n > 0
  PROVE  Runs(Others, Unlocking, q, Out(q, {})) /\ Out(q, {}) \in Stand
  <1>1. Do("unlock", 0) \in Step /\ Do("unlock", 0).do \in Others
    BY DEF Do, Step, Steps, Others
  <1>2. Out(q, {}) \in Stand /\ q \in Stand BY DEF Sane, Stand, Out
  <1>3. Allowed(Do("unlock", 0), q, Out(q, {}))
    BY DEF Allowed, Guard, Level, Gains, Do, Tells, Sane, Stand, Out
  <1> QED BY <1>1, <1>2, <1>3, RunsOne DEF Unlocking

\* What follows DB2's answer to SQLAllocEnv.
LEMMA EnvAllocatedRuns ==
  ASSUME NEW q, Sane(q), q.n > 0, "own" \in q.has, NEW n \in Nat \ {0}
  PROVE  Runs(Others, EnvAllocated(n), q, Out(q, {"env", "told"}))
  <1> DEFINE k == Knowing(q, {"env", "told"})
  <1>1. Sane(k) /\ k \in Stand /\ q \in Stand /\ k.n > 0
    <2>1. Sane(k) BY Sanity DEF Facts
    <2> QED BY <2>1 DEF Sane, Knowing
  <1>2. Do("tell", n) \in Step /\ Do("tell", n).do \in Others BY DEF Do, Step, Steps, Others
  <1>3. Allowed(Do("tell", n), q, k)
    BY DEF Allowed, Guard, Level, Gains, Do, Tells, Sane, Knowing
  <1>4. Out(k, {}) = Out(q, {"env", "told"}) BY DEF Out, Knowing
  <1> HIDE DEF k
  <1>5. Runs(Others, <<Do("tell", n)>>, q, k) BY <1>1, <1>2, <1>3, RunsOne
  <1>6. Runs(Others, Unlocking, k, Out(q, {"env", "told"})) BY <1>1, <1>4, UnlockingRuns
  <1> QED BY <1>5, <1>6, RunsConcat DEF EnvAllocated

\* What a thread does that has found env_server_mode unset.
LEMMA ServerModeRuns ==
  ASSUME NEW q, Sane(q)
  PROVE  Runs(Others, ServerMode, q, Knowing(q, {"server"}))
  <1> DEFINE s == Knowing(q, {"server"})
             k == Knowing(q, {"ccsid", "my"})
  <1>1. Sane(s) /\ s \in Stand /\ Sane(k) /\ k \in Stand BY Sanity DEF Facts, Sane
  <1>2. /\ Do("server_attr", 0) \in Step /\ Do("server_flag", 0) \in Step
        /\ Do("server_flag", 0).do \in Others /\ "server_attr" \in Others
    BY DEF Do, Step, Steps, Others
  <1>3. Allowed(Do("server_attr", 0), k, s)
    BY <1>1 DEF Allowed, Guard, Level, Gains, Do, Tells, Sane, Knowing
  <1>4. Allowed(Do("server_flag", 0), s, s)
    BY <1>1 DEF Allowed, Guard, Level, Gains, Do, Tells, Sane, Knowing
  <1>5. Lookups \subseteq Others BY DEF Lookups, Others, Steps
  <1> HIDE DEF s
  <1>6. Runs(Others, SetEnvAttr("server_attr", 0), q, s)
    BY <1>1, <1>2, <1>3, <1>5, SetEnvAttrRuns
  <1>7. Runs(Others, <<Do("server_flag", 0)>>, s, s) BY <1>1, <1>2, <1>4, RunsOne
  <1>8. Runs(Others, ServerMode, q, s) BY <1>6, <1>7, RunsConcat DEF ServerMode
  <1> QED BY <1>8 DEF s

\* custom_SQLOverrideCCSID400 of a thread that found no environment.
LEMMA OverrideRuns ==
  ASSUME NEW q, Sane(q), NEW n \in Nat
  PROVE  Runs(Others, Ccsid(n) \o <<Do("override_env", 0)>>, q, Knowing(q, {"env"}))
  <1> DEFINE s == Knowing(q, {"env"})
             k == Knowing(q, {"ccsid", "my"})
  <1>1. Sane(s) /\ s \in Stand /\ Sane(k) /\ k \in Stand BY Sanity DEF Facts, Sane
  <1>2. Do("override_env", 0) \in Step /\ Do("override_env", 0).do \in Others
    BY DEF Do, Step, Steps, Others
  <1>3. Allowed(Do("override_env", 0), k, s)
    BY <1>1 DEF Allowed, Guard, Level, Gains, Do, Tells, Sane, Knowing
  <1>4. Lookups \subseteq Others BY DEF Lookups, Others, Steps
  <1>5. Runs(Others, Ccsid(n), q, k) BY <1>4, CcsidRuns, RunsWider
  <1> HIDE DEF s, k
  <1>6. Runs(Others, <<Do("override_env", 0)>>, k, s) BY <1>1, <1>2, <1>3, RunsOne
  <1>7. Runs(Others, Ccsid(n) \o <<Do("override_env", 0)>>, q, s) BY <1>5, <1>6, RunsConcat
  <1> QED BY <1>7 DEF s

LEMMA OverrideEnvRuns ==
  ASSUME NEW q, Sane(q), NEW n \in Nat \ {0}
  PROVE  Runs(Others, AllocHandle("env", 0) \o <<Do("tell", n)>>, q, Knowing(q, {"env"}))
  <1> DEFINE s == Knowing(q, {"env"})
             k == Knowing(q, {"ccsid", "my"})
             e == Entered(k)
  <1>1. Sane(s) /\ s \in Stand /\ Sane(k) /\ Sane(e) BY Sanity DEF Facts, Sane
  <1>2. Allowed(Do("env", 0), e, s)
    <2>1. q.n \in Nat BY Sanity
    <2>2. /\ e.n = q.n + 1 /\ e.owes = q.owes /\ q.has \subseteq e.has
          /\ "my" \in e.has
      BY DEF Entered, Knowing
    <2>3. s.n = q.n /\ s.has = q.has \cup {"env"} /\ s.owes = q.owes BY DEF Knowing
    <2> HIDE DEF e, s
    <2> QED BY <1>1, <2>1, <2>2, <2>3 DEF Allowed, Guard, Level, Gains, Do, Tells
  <1>3. Do("tell", n) \in Step /\ Do("tell", n).do \in Others BY DEF Do, Step, Steps, Others
  <1>4. Allowed(Do("tell", n), s, s)
    BY <1>1 DEF Allowed, Guard, Level, Gains, Do, Tells, Sane, Knowing
  <1> HIDE DEF s
  <1>5. Runs(Others, AllocHandle("env", 0), q, s) BY <1>1, <1>2, AllocHandleRuns
  <1>6. Runs(Others, <<Do("tell", n)>>, s, s) BY <1>1, <1>3, <1>4, RunsOne
  <1>7. Runs(Others, AllocHandle("env", 0) \o <<Do("tell", n)>>, q, s) BY <1>5, <1>6, RunsConcat
  <1> QED BY <1>7 DEF s

\* custom_SQLSetEnvCCSID of a thread inside the lock that found no environment and
\* has just set it: until it is told, the thread owes it the CCSID.
LEMMA TellRuns ==
  ASSUME NEW q \in Stand, q.n > 0, "env" \in q.has, NEW n \in Nat \ {0}, NEW p \in Stand,
         p.n = q.n, p.has \subseteq q.has \cup {"told"}
  PROVE  Runs(Steps, SetEnvAttr("tell_attr", n), [n |-> q.n, has |-> q.has, owes |-> TRUE], p)
  <1> DEFINE o == [n |-> q.n, has |-> q.has, owes |-> TRUE]
             k == Knowing(o, {"ccsid", "my"})
  <1>1. Sane(o) BY DEF Sane, Stand
  <1>2. Do("tell_attr", n) \in Step /\ "tell_attr" \in Steps BY DEF Do, Step, Steps
  <1>3. Lookups \subseteq Steps BY DEF Lookups, Steps
  <1>4. Allowed(Do("tell_attr", n), k, p)
    BY DEF Allowed, Guard, Level, Gains, Do, Tells, Knowing
  <1> HIDE DEF o
  <1>5. Runs(Steps, SetEnvAttr("tell_attr", n), o, p)
    BY <1>1, <1>2, <1>3, <1>4, SetEnvAttrRuns
  <1> QED BY <1>5 DEF o

\* Whatever a client calls, it ends outside the lock.
LEMMA EnterRuns ==
  ASSUME NEW call \in ClientCalls, NEW H \in SUBSET Facts,
         call.do = "SQLAllocConnect" => "env" \in H
  PROVE  \E r \in Stand : /\ Runs(Others, Enter(call), [n |-> 0, has |-> H, owes |-> FALSE], r)
                          /\ r.n = 0 /\ H \subseteq r.has
  <1> DEFINE q == [n |-> 0, has |-> H, owes |-> FALSE]
             k == Knowing(q, {"ccsid", "my"})
             Ends == \E r \in Stand : Runs(Others, Enter(call), q, r) /\ r.n = 0 /\ H \subseteq r.has
  <1> SUFFICES Ends OBVIOUS
  <1>1. Sane(q) /\ q \in Stand /\ q.n = 0 /\ q.has = H /\ q.owes = FALSE BY DEF Sane, Stand
  <1>2. Lookups \subseteq Others BY DEF Lookups, Others, Steps
  <1>3. ASSUME NEW r \in Stand, Runs(Others, Enter(call), q, r), r.n = 0, H \subseteq r.has
        PROVE  Ends
    BY <1>3
  <1> HIDE DEF q, Ends
  <1>4. /\ Sane(k) /\ k \in Stand /\ k.n = 0 /\ k.owes = FALSE
        /\ k.has = H \cup {"ccsid", "my"}
    <2>1. Sane(k) BY <1>1, Sanity DEF Facts
    <2> QED BY <1>1, <2>1 DEF Knowing, Sane
  <1> HIDE DEF k
  <1>5. CASE call.do = "SQLOverrideCCSID400"
    <2> DEFINE r == Knowing(q, {"env"})
               x == Do("override", call.n)
    <2>1. call.n \in Nat BY DEF ClientCalls, Do
    <2>2. x \in Step /\ x.do \in Others BY <2>1 DEF Do, Step, Steps, Others
    <2>3. r \in Stand /\ r.n = 0 /\ H \subseteq r.has
      <3>1. Sane(r) BY <1>1, Sanity DEF Facts
      <3> QED BY <1>1, <3>1 DEF Sane, Knowing
    <2>4. Allowed(x, q, r)
      BY <1>1 DEF Allowed, Guard, Level, Gains, Do, Tells, Knowing
    <2>5. Enter(call) = <<x>> BY <1>5 DEF Enter
    <2> HIDE DEF r, x
    <2>6. Runs(Others, <<x>>, q, r) BY <1>1, <2>2, <2>3, <2>4, RunsOne
    <2> QED BY <1>3, <2>3, <2>5, <2>6
  <1>6. CASE call.do = "call"
    <2>1. Runs(Others, Ccsid(0), q, k)
      <3>1. Runs(Lookups, Ccsid(0), q, k) BY <1>1, CcsidRuns DEF k
      <3> QED BY <1>2, <3>1, RunsWider
    <2>2. Runs(Others, IntoDb2, k, k) BY <1>2, <1>4, IntoDb2Runs, RunsWider
    <2>3. Runs(Others, Ccsid(0) \o IntoDb2, q, k) BY <2>1, <2>2, RunsConcat
    <2>4. Enter(call) = Ccsid(0) \o IntoDb2 BY <1>6 DEF Enter
    <2> QED BY <1>3, <1>4, <2>3, <2>4
  <1>7. CASE call.do \in {"SQLAllocEnv", "SQLAllocConnect"}
    <2> DEFINE kind == IF call.do = "SQLAllocEnv" THEN "env" ELSE "dbc"
               e == Entered(k)
    <2>1. Enter(call) = AllocHandle(kind, 0) BY <1>7 DEF Enter
    <2>2. /\ e.n = 1 /\ e.owes = FALSE /\ H \cup {"my"} \subseteq e.has
          /\ "env" \in H => "told" \in e.has
      BY <1>4 DEF Entered
    <2> HIDE DEF e
    <2>3. kind \in {"env", "dbc"} OBVIOUS
    <2>4. Allowed(Do(kind, 0), e, q)
      <3>1. e.owes = q.owes BY <1>1, <2>2
      <3> QED BY <1>1, <1>7, <2>2, <3>1 DEF Allowed, Guard, Level, Gains, Do, Tells
    <2> HIDE DEF kind
    <2>5. Runs(Others, AllocHandle(kind, 0), q, q)
      BY <1>1, <2>3, <2>4, AllocHandleRuns DEF e, k
    <2> QED BY <1>1, <1>3, <2>1, <2>5
  <1>8. CASE call.do \notin {"SQLOverrideCCSID400", "call", "SQLAllocEnv", "SQLAllocConnect"}
    <2> DEFINE asks == <<Do("override", 0), Do("server", 0)>>
               a == Knowing(k, {"env"})
               b == Knowing(k, {"env", "server"})
               c == Knowing(b, {"ccsid", "my"})
               e == Entered(c)
    <2>1. Sane(a) /\ Sane(b) /\ Sane(c) BY <1>4, Sanity DEF Facts
    <2>2. a \in Stand /\ b \in Stand BY <2>1 DEF Sane
    <2>3. Runs(Others, Ccsid(0), q, k)
      <3>1. Runs(Lookups, Ccsid(0), q, k) BY <1>1, CcsidRuns DEF k
      <3> QED BY <1>2, <3>1, RunsWider
    <2>4. Runs(Others, asks, k, b)
      <3>1. Allowed(Do("override", 0), k, a)
        BY <1>4 DEF Allowed, Guard, Level, Gains, Do, Tells, Knowing
      <3>2. Allowed(Do("server", 0), a, b)
        BY <1>4 DEF Allowed, Guard, Level, Gains, Do, Tells, Knowing
      <3>3. /\ Do("override", 0) \in Step /\ Do("override", 0).do \in Others
            /\ Do("server", 0) \in Step /\ Do("server", 0).do \in Others
        BY DEF Do, Step, Steps, Others
      <3> HIDE DEF a, b
      <3> QED BY <1>4, <2>2, <3>1, <3>2, <3>3, RunsTwo
    <2>5. Allowed(Do("dbc", 1), e, q)
      <3>1. e.n = 1 /\ e.owes = FALSE /\ H \cup {"env", "server", "told"} \subseteq e.has
        BY <1>4 DEF Entered, Knowing
      <3> HIDE DEF e
      <3>2. e.owes = q.owes BY <1>1, <3>1
      <3> QED BY <1>1, <3>1, <3>2 DEF Allowed, Guard, Level, Gains, Do, Tells
    <2>6. Runs(Others, AllocHandle("dbc", 1), b, q)
      <3> HIDE DEF b
      <3> QED BY <1>1, <2>1, <2>5, AllocHandleRuns
    <2> HIDE DEF b, asks
    <2>7. Runs(Others, Ccsid(0) \o asks, q, b) BY <2>3, <2>4, RunsConcat
    <2>8. Runs(Others, (Ccsid(0) \o asks) \o AllocHandle("dbc", 1), q, q)
      BY <2>6, <2>7, RunsConcat
    <2>9. Enter(call) = (Ccsid(0) \o asks) \o AllocHandle("dbc", 1) BY <1>8 DEF Enter, asks
    <2> QED BY <1>1, <1>3, <2>8, <2>9
  <1> QED BY <1>5, <1>6, <1>7, <1>8

-----------------------------------------------------------------------------
(* The invariant of the environment                                          *)

\* What is true now of what a thread may know.
Known(t) ==
  {x \in Facts : /\ x = "ccsid" => ccsid # 0
                 /\ x = "my" => local[t].myccsid # 0
                 /\ x = "own" => local[t].env = 1
                 /\ x = "env" => env_hndl # 0
                 /\ x = "told" => db2.told # 0
                 /\ x = "server" => db2.server}

Owes(s) == \E i \in 1 .. Len(s) : s[i].do = "tell_attr"

\* Who owes the environment its CCSID does nothing else first.
ToldNext(s) ==
  \A i, j \in 1 .. Len(s) : i < j /\ s[j].do = "tell_attr" => s[i].do \in Lookups

\* A thread in q that has the steps s left ends in r, outside the lock; a client
\* that was given the environment finds env_hndl set by then.
Stands(t, s, q, r) ==
  /\ Runs(Steps, s, q, r)
  /\ q.n = local[t].inside /\ q.has \subseteq Known(t)
  /\ Owes(s) => q.owes
  /\ r.n = 0
  /\ local[t].env # 0 => "env" \in r.has

Sound(t) == \E q, r \in Stand : Stands(t, todo[t], q, r)

\* An environment that is set and not told its CCSID is about to be told.
Untold == env_hndl # 0 /\ db2.told = 0 => \E u \in Threads : Owes(todo[u])

ModeSet == env_server_mode => db2.server

ConnsGood ==
  \A conn \in db2.conns : conn.told # 0 /\ (conn.by = "SQL400Connect" => conn.server)

Threaded == \A t \in Threads : Sound(t) /\ ToldNext(todo[t])

Calm == Threaded /\ Untold /\ ModeSet /\ ConnsGood

EInv == db2.refused \/ Calm

-----------------------------------------------------------------------------
(* Who owes what                                                             *)

LEMMA OwesConcat ==
  ASSUME NEW a \in Seq(Step), NEW b \in Seq(Step)
  PROVE  Owes(a \o b) <=> Owes(a) \/ Owes(b)
  <1> DEFINE s == a \o b
  <1>1. /\ Len(a) \in Nat /\ Len(b) \in Nat /\ Len(s) = Len(a) + Len(b)
        /\ \A i \in 1 .. Len(a) + Len(b) : s[i] = IF i <= Len(a) THEN a[i] ELSE b[i - Len(a)]
    BY ConcatProperties, LenProperties
  <1> HIDE DEF s
  <1>2. ASSUME NEW i \in 1 .. Len(a) PROVE i \in 1 .. Len(s) /\ s[i] = a[i] BY <1>1
  <1>3. ASSUME NEW i \in 1 .. Len(b) PROVE Len(a) + i \in 1 .. Len(s) /\ s[Len(a) + i] = b[i]
    BY <1>1
  <1>4. ASSUME NEW i \in 1 .. Len(s)
        PROVE  \/ i \in 1 .. Len(a) /\ s[i] = a[i]
               \/ i - Len(a) \in 1 .. Len(b) /\ s[i] = b[i - Len(a)]
    <2>1. s[i] = IF i <= Len(a) THEN a[i] ELSE b[i - Len(a)] BY <1>1
    <2>2. CASE i <= Len(a) BY <1>1, <2>1, <2>2
    <2>3. CASE ~(i <= Len(a))
      <3>1. i - Len(a) \in 1 .. Len(b) BY <1>1, <2>3
      <3> QED BY <2>1, <2>3, <3>1
    <2> QED BY <2>2, <2>3
  <1>5. Owes(s) => Owes(a) \/ Owes(b)
    <2> SUFFICES ASSUME NEW i \in 1 .. Len(s), s[i].do = "tell_attr" PROVE Owes(a) \/ Owes(b)
      BY DEF Owes
    <2> QED BY <1>4 DEF Owes
  <1>6. Owes(a) => Owes(s) BY <1>2 DEF Owes
  <1>7. Owes(b) => Owes(s) BY <1>3 DEF Owes
  <1> QED BY <1>5, <1>6, <1>7 DEF s

LEMMA OwesTail ==
  ASSUME NEW s \in Seq(Step), s # <<>>
  PROVE  Owes(s) <=> Head(s).do = "tell_attr" \/ Owes(Tail(s))
  <1>1. /\ Len(s) \in Nat \ {0} /\ Len(Tail(s)) = Len(s) - 1 /\ Head(s) = s[1]
        /\ \A i \in 1 .. Len(Tail(s)) : Tail(s)[i] = s[i + 1]
    BY HeadTailProperties, EmptySeq
  <1>2. ASSUME NEW i \in 1 .. Len(Tail(s)) PROVE i + 1 \in 1 .. Len(s) /\ s[i + 1] = Tail(s)[i]
    BY <1>1
  <1>3. ASSUME NEW i \in 1 .. Len(s)
        PROVE  i = 1 \/ (i - 1 \in 1 .. Len(Tail(s)) /\ s[i] = Tail(s)[i - 1])
    BY <1>1
  <1> QED BY SMTT(30), <1>1, <1>2, <1>3 DEF Owes

LEMMA ToldNextTail ==
  ASSUME NEW s \in Seq(Step), s # <<>>, ToldNext(s)
  PROVE  /\ ToldNext(Tail(s))
         /\ Owes(Tail(s)) => Head(s).do \in Lookups
  <1>1. /\ Len(s) \in Nat \ {0} /\ Len(Tail(s)) = Len(s) - 1 /\ Head(s) = s[1]
        /\ \A i \in 1 .. Len(Tail(s)) : Tail(s)[i] = s[i + 1]
    BY HeadTailProperties, EmptySeq
  <1>2. ASSUME NEW i \in 1 .. Len(Tail(s))
        PROVE  i + 1 \in 1 .. Len(s) /\ s[i + 1] = Tail(s)[i] /\ 1 < i + 1 /\ 1 \in 1 .. Len(s)
    BY <1>1
  <1>3. \A i, j \in 1 .. Len(Tail(s)) : i < j => i + 1 < j + 1 BY <1>1
  <1> QED BY <1>1, <1>2, <1>3 DEF ToldNext, Owes

LEMMA ToldNextConcat ==
  ASSUME NEW a \in Seq(Step), NEW b \in Seq(Step), ToldNext(a), ToldNext(b),
         Owes(b) => \A i \in 1 .. Len(a) : a[i].do \in Lookups
  PROVE  ToldNext(a \o b)
  <1> DEFINE s == a \o b
  <1>1. /\ Len(a) \in Nat /\ Len(b) \in Nat /\ Len(s) = Len(a) + Len(b)
        /\ \A i \in 1 .. Len(a) + Len(b) : s[i] = IF i <= Len(a) THEN a[i] ELSE b[i - Len(a)]
    BY ConcatProperties, LenProperties
  <1> HIDE DEF s
  <1>2. ASSUME NEW i \in 1 .. Len(s), NEW j \in 1 .. Len(s), i < j, s[j].do = "tell_attr"
        PROVE  s[i].do \in Lookups
    <2>1. CASE j <= Len(a)
      <3>1. i \in 1 .. Len(a) /\ j \in 1 .. Len(a) /\ s[i] = a[i] /\ s[j] = a[j]
        BY <1>1, <1>2, <2>1
      <3> QED BY <1>2, <3>1 DEF ToldNext
    <2>2. CASE ~(j <= Len(a))
      <3>1. j - Len(a) \in 1 .. Len(b) /\ s[j] = b[j - Len(a)] BY <1>1, <2>2
      <3>2. Owes(b) BY <1>2, <3>1 DEF Owes
      <3>3. CASE i <= Len(a)
        <4>1. i \in 1 .. Len(a) /\ s[i] = a[i] BY <1>1, <3>3
        <4> QED BY <3>2, <4>1
      <3>4. CASE ~(i <= Len(a))
        <4>1. i - Len(a) \in 1 .. Len(b) /\ s[i] = b[i - Len(a)] /\ i - Len(a) < j - Len(a)
          BY <1>1, <1>2, <3>4
        <4> QED BY <1>2, <3>1, <4>1 DEF ToldNext
      <3> QED BY <3>3, <3>4
    <2> QED BY <2>1, <2>2
  <1>3. ToldNext(s) BY <1>2 DEF ToldNext
  <1> QED BY <1>3 DEF s

LEMMA RunsOwes ==
  ASSUME NEW s, NEW q, NEW r
  PROVE  /\ Runs(Others, s, q, r) => ~Owes(s) /\ ToldNext(s)
         /\ Runs(Lookups, s, q, r) => \A i \in 1 .. Len(s) : s[i].do \in Lookups
  BY DEF Runs, Owes, ToldNext, Others

-----------------------------------------------------------------------------
(* A thread goes on                                                          *)

\* Nothing known is lost by a step of t, and what the others have is theirs.
Grows(t) ==
  /\ ccsid # 0 => ccsid' # 0
  /\ env_hndl # 0 => env_hndl' # 0
  /\ db2.told # 0 => db2'.told # 0
  /\ db2.server => db2'.server
  /\ \A u \in Threads : u # t => local'[u] = local[u]

LEMMA OthersStand ==
  ASSUME NEW t \in Threads, Grows(t), NEW u \in Threads, u # t, todo'[u] = todo[u], Sound(u)
  PROVE  Sound(u)'
  <1>1. PICK q \in Stand, r \in Stand : Stands(u, todo[u], q, r) BY DEF Sound
  <1>2. Known(u) \subseteq Known(u)' BY DEF Known, Grows
  <1>3. Stands(u, todo[u], q, r)' BY <1>1, <1>2 DEF Stands, Grows
  <1> QED BY <1>3 DEF Sound

\* A thread may know all that is true: what the first step finds, and what it leaves
\* to the others.
LEMMA Obtain ==
  ASSUME NEW t \in Threads, Sound(t), todo[t] # <<>>
  PROVE  \E q, p, r \in Stand :
           /\ Stands(t, todo[t], q, r) /\ Sane(q) /\ q.has = Known(t)
           /\ Allowed(Head(todo[t]), q, p) /\ Runs(Steps, Tail(todo[t]), p, r)
           /\ todo[t] \in Seq(Step) /\ Head(todo[t]) \in Step
  <1>1. PICK q \in Stand, r \in Stand : Stands(t, todo[t], q, r) /\ q.has = Known(t)
    <2>1. PICK o \in Stand, e \in Stand : Stands(t, todo[t], o, e) BY DEF Sound
    <2> DEFINE q == [n |-> o.n, has |-> Known(t), owes |-> o.owes]
    <2>2. q \in Stand BY DEF Stand, Known
    <2>3. q.n = o.n /\ q.owes = o.owes /\ q.has = Known(t) OBVIOUS
    <2> HIDE DEF q
    <2>4. Runs(Steps, todo[t], o, e) /\ o.has \subseteq q.has BY <2>1, <2>3 DEF Stands
    <2>5. PICK r \in Stand : Runs(Steps, todo[t], q, r) /\ r.n = e.n /\ e.has \subseteq r.has
      BY <2>2, <2>3, <2>4, RunsLift
    <2>6. Stands(t, todo[t], q, r) BY <2>1, <2>3, <2>5 DEF Stands
    <2> QED BY <2>2, <2>3, <2>6
  <1>2. Runs(Steps, todo[t], q, r) BY <1>1 DEF Stands
  <1>3. PICK p \in Stand : Allowed(Head(todo[t]), q, p) /\ Runs(Steps, Tail(todo[t]), p, r)
    BY <1>2, RunsTail
  <1>4. Head(todo[t]) \in Step /\ todo[t] \in Seq(Step) BY <1>2, RunsTail, RunsStands
  <1>5. Sane(q) BY <1>3 DEF Sane, Allowed, Guard
  <1> QED BY <1>1, <1>3, <1>4, <1>5

\* A thread that owes the environment its CCSID is inside the lock.
LEMMA OwingInside ==
  ASSUME NEW t \in Threads, Sound(t), todo[t] \in Seq(Step), Owes(todo[t])
  PROVE  local[t].inside > 0
  <1>1. todo[t] # <<>> BY EmptySeq DEF Owes
  <1>2. PICK q, p, r \in Stand : Stands(t, todo[t], q, r) /\ Sane(q) BY <1>1, Obtain
  <1> QED BY <1>2 DEF Stands, Sane

\* What is known behind a step, all of it.
Behind(x, q, p) == [n |-> p.n, has |-> q.has \cup Gains(x.do, q), owes |-> p.owes]

LEMMA BehindStand ==
  ASSUME NEW x, NEW q \in Stand, NEW p \in Stand
  PROVE  Behind(x, q, p) \in Stand
  <1>1. Gains(x.do, q) \subseteq Facts BY DEF Gains, Facts
  <1> QED BY <1>1 DEF Behind, Stand

\* The step of t is over: what takes its place runs from where t is now, z, to where
\* the step would have left it.
Goes(t, more, q, p, z) ==
  /\ Runs(Steps, more, z, Behind(Head(todo[t]), q, p))
  /\ z.n = local'[t].inside /\ z.has \subseteq Known(t)'
  /\ Owes(more) => z.owes
  /\ q.owes => z.owes \/ Head(todo[t]).do = "tell_attr"
  /\ local'[t].env # 0 => local[t].env # 0 \/ "env" \in Gains(Head(todo[t]).do, q)
  /\ ToldNext(more)
  /\ \/ \A i \in 1 .. Len(more) : more[i].do \in Lookups
     \/ Head(todo[t]).do \notin Lookups

LEMMA GoesOn ==
  ASSUME NEW t \in Threads, todo \in [Threads -> Seq(Step)], todo[t] # <<>>,
         ToldNext(todo[t]), NEW more, Then(t, more),
         NEW q \in Stand, NEW p \in Stand, NEW r \in Stand, NEW z \in Stand,
         Stands(t, todo[t], q, r), Allowed(Head(todo[t]), q, p), Runs(Steps, Tail(todo[t]), p, r),
         Goes(t, more, q, p, z)
  PROVE  Sound(t)' /\ ToldNext(todo'[t])
  <1> DEFINE b == Behind(Head(todo[t]), q, p)
             rest == Tail(todo[t])
  <1>1. b \in Stand /\ b.n = p.n /\ b.owes = p.owes BY BehindStand DEF Behind
  <1>2. b.has = q.has \cup Gains(Head(todo[t]).do, q) /\ p.has \subseteq b.has
    BY DEF Behind, Allowed
  <1>3. Runs(Steps, more, z, b) BY DEF Goes
  <1> HIDE DEF b
  <1>4. PICK w \in Stand : Runs(Steps, rest, b, w) /\ w.n = r.n /\ r.has \subseteq w.has /\ b.has \subseteq w.has
    BY <1>1, <1>2, RunsLift
  <1>5. Runs(Steps, more \o rest, z, w) BY <1>3, <1>4, RunsConcat
  <1>6. more \in Seq(Step) /\ rest \in Seq(Step) BY <1>3, <1>4, RunsStands
  <1>7. todo'[t] = more \o rest BY DEF Then
  <1>8. ToldNext(rest) /\ (Owes(rest) => Head(todo[t]).do \in Lookups) BY ToldNextTail
  <1>9. ToldNext(more \o rest) BY <1>6, <1>8, ToldNextConcat DEF Goes
  <1>10. Owes(more \o rest) => z.owes
    <2>1. Owes(more \o rest) <=> Owes(more) \/ Owes(rest) BY <1>6, OwesConcat
    <2>2. Owes(rest) => Owes(todo[t]) BY OwesTail
    <2>3. Owes(rest) => Head(todo[t]).do # "tell_attr" BY <1>8 DEF Lookups
    <2> QED BY <2>1, <2>2, <2>3 DEF Goes, Stands
  <1>11. local'[t].env # 0 => "env" \in w.has BY <1>2, <1>4 DEF Goes, Stands
  <1>12. w.n = 0 /\ z.n = local'[t].inside /\ z.has \subseteq Known(t)' BY <1>4 DEF Goes, Stands
  <1>13. Stands(t, todo[t], z, w)'
    <2> HIDE DEF rest
    <2> QED BY <1>5, <1>7, <1>10, <1>11, <1>12 DEF Stands
  <1> QED BY <1>7, <1>9, <1>13 DEF Sound

LEMMA GoesThreaded ==
  ASSUME IInv, Threaded, NEW t \in Threads, todo[t] # <<>>, NEW more, Then(t, more), Grows(t),
         NEW q \in Stand, NEW p \in Stand, NEW r \in Stand, NEW z \in Stand,
         Stands(t, todo[t], q, r), Allowed(Head(todo[t]), q, p), Runs(Steps, Tail(todo[t]), p, r),
         Goes(t, more, q, p, z)
  PROVE  Threaded'
  <1>1. todo \in [Threads -> Seq(Step)] BY DEF IInv, Types
  <1>2. ToldNext(todo[t]) BY DEF Threaded
  <1>3. Sound(t)' /\ ToldNext(todo'[t]) BY <1>1, <1>2, GoesOn
  <1>4. ASSUME NEW u \in Threads, u # t PROVE Sound(u)' /\ ToldNext(todo'[u])
    <2>1. todo'[u] = todo[u] BY <1>1, <1>4 DEF Then
    <2>2. Sound(u) /\ ToldNext(todo[u]) BY DEF Threaded
    <2>3. Sound(u)' BY <1>4, <2>1, <2>2, OthersStand
    <2> QED BY <2>1, <2>2, <2>3
  <1>5. ASSUME NEW u \in Threads PROVE Sound(u)' /\ ToldNext(todo'[u])
    <2>1. CASE u = t BY <1>3, <2>1
    <2>2. CASE u # t BY <1>4, <2>2
    <2> QED BY <2>1, <2>2
  <1> QED BY <1>5 DEF Threaded

\* Whoever owes the environment its CCSID still does, unless it has just told it.
LEMMA OwesStay ==
  ASSUME IInv, NEW t \in Threads, todo[t] # <<>>, NEW more \in Seq(Step), Then(t, more),
         Head(todo[t]).do # "tell_attr", NEW u \in Threads, Owes(todo[u])
  PROVE  Owes(todo'[u])
  <1>1. todo \in [Threads -> Seq(Step)] BY DEF IInv, Types
  <1>2. CASE u # t
    <2>1. todo'[u] = todo[u] BY <1>1, <1>2 DEF Then
    <2> QED BY <2>1
  <1>3. CASE u = t
    <2>1. Owes(Tail(todo[t])) BY <1>1, <1>3, OwesTail
    <2>2. Tail(todo[t]) \in Seq(Step) BY <1>1, HeadTailProperties
    <2>3. Owes(more \o Tail(todo[t])) BY <2>1, <2>2, OwesConcat
    <2>4. todo'[t] = more \o Tail(todo[t]) BY <1>1 DEF Then
    <2> QED BY <1>3, <2>3, <2>4
  <1> QED BY <1>2, <1>3

\* A step that does not touch the environment.
LEMMA SameEnvironment ==
  ASSUME IInv, Calm, NEW t \in Threads, todo[t] # <<>>, NEW more \in Seq(Step), Then(t, more),
         Head(todo[t]).do # "tell_attr", UNCHANGED <<env_hndl, env_server_mode, db2>>
  PROVE  Untold' /\ ModeSet' /\ ConnsGood'
  <1>1. \A u \in Threads : Owes(todo[u]) => Owes(todo'[u]) BY OwesStay
  <1>2. Untold' BY <1>1 DEF Calm, Untold
  <1> QED BY <1>2 DEF Calm, ModeSet, ConnsGood

-----------------------------------------------------------------------------
(* Steps that change nothing but what is left to do                          *)

LEMMA KnowingLess ==
  ASSUME NEW q \in Stand, NEW X, X \subseteq q.has
  PROVE  Knowing(q, X) = q
  <1>1. q.has \cup X = q.has OBVIOUS
  <1> QED BY <1>1 DEF Knowing, Stand

Places == {"flag", "boot", "ccsid", "parse", "srvpgm", "load", "tell", "override", "override_env", "server"}

\* Who is at a place of these, where it is allowed.
Stays(t, q) ==
  /\ q \in Stand /\ Sane(q) /\ Guard(Head(todo[t]), q)
  /\ q.n = local[t].inside /\ q.has = Known(t)

LEMMA TestCalm ==
  ASSUME IInv, Calm, NEW t \in Threads, todo[t] # <<>>, NEW more, Then(t, more),
         UNCHANGED <<ccsid, env_hndl, env_server_mode, db2, local>>,
         Head(todo[t]).do \in Places,
         NEW D \in {Lookups, Others}, Head(todo[t]).do \in Lookups => D = Lookups,
         ASSUME NEW q, Stays(t, q)
         PROVE  Runs(D, more, q, Knowing(q, Gains(Head(todo[t]).do, q)))
  PROVE  Calm'
  <1>1. Sound(t) BY DEF Calm, Threaded
  <1>2. PICK q, p, r \in Stand :
           /\ Stands(t, todo[t], q, r) /\ Sane(q) /\ q.has = Known(t)
           /\ Allowed(Head(todo[t]), q, p) /\ Runs(Steps, Tail(todo[t]), p, r)
    BY <1>1, Obtain
  <1>3. Stays(t, q) BY <1>2 DEF Stays, Stands, Allowed
  <1>4. Runs(D, more, q, Knowing(q, Gains(Head(todo[t]).do, q))) BY <1>3
  <1>5. Level(Head(todo[t]).do, q.n) = q.n BY DEF Level, Places
  <1>6. p.n = q.n /\ p.owes = q.owes
    BY <1>2, <1>5 DEF Allowed, Places
  <1>7. Behind(Head(todo[t]), q, p) = Knowing(q, Gains(Head(todo[t]).do, q))
    BY <1>6 DEF Behind, Knowing
  <1>8. Lookups \subseteq Others /\ Others \subseteq Steps /\ Lookups \subseteq Steps
    BY DEF Lookups, Others, Steps
  <1>9. Runs(Steps, more, q, Behind(Head(todo[t]), q, p))
    BY <1>4, <1>7, <1>8, RunsWider
  <1>10. ~Owes(more) /\ ToldNext(more)
    <2>1. Runs(Others, more, q, Knowing(q, Gains(Head(todo[t]).do, q)))
      BY <1>4, <1>8, RunsWider
    <2> QED BY <2>1, RunsOwes
  <1>11. \/ \A i \in 1 .. Len(more) : more[i].do \in Lookups
         \/ Head(todo[t]).do \notin Lookups
    BY <1>4, RunsOwes
  <1>12. Known(t)' = Known(t) /\ local' = local BY DEF Known
  <1>13. Goes(t, more, q, p, q)
    BY <1>3, <1>9, <1>10, <1>11, <1>12 DEF Goes, Stays
  <1>14. Grows(t) BY DEF Grows
  <1>15. Threaded' BY <1>2, <1>13, <1>14, GoesThreaded DEF Calm
  <1>16. Head(todo[t]).do # "tell_attr" BY DEF Places
  <1>17. more \in Seq(Step) BY <1>9, RunsStands
  <1>18. Untold' /\ ModeSet' /\ ConnsGood' BY <1>16, <1>17, SameEnvironment
  <1> QED BY <1>15, <1>18 DEF Calm

\* The flag, the boot, the parse and the load know nothing new.
LEMMA PlainCalm ==
  ASSUME IInv, Calm, NEW t \in Threads,
         Flag(t) \/ Boot(t) \/ TraceParse(t) \/ SrvpgmLoad(t)
  PROVE  Calm'
  <1> DEFINE more == IF Flag(t) /\ ~boot THEN <<Do("boot", 0)>> ELSE <<>>
  <1>1. /\ todo[t] # <<>> /\ Then(t, more) /\ Head(todo[t]).do \in {"flag", "boot", "parse", "load"}
        /\ UNCHANGED <<ccsid, env_hndl, env_server_mode, db2, local>>
    <2>1. CASE Flag(t) BY <2>1 DEF Flag, At
    <2>2. CASE Boot(t)
      <3>1. ~Flag(t) BY <2>2 DEF Flag, Boot, At
      <3> QED BY <2>2, <3>1 DEF Boot, At
    <2>3. CASE TraceParse(t)
      <3>1. ~Flag(t) BY <2>3 DEF Flag, TraceParse, At
      <3> QED BY <2>3, <3>1 DEF TraceParse, At
    <2>4. CASE SrvpgmLoad(t)
      <3>1. ~Flag(t) BY <2>4 DEF Flag, SrvpgmLoad, At
      <3> QED BY <2>4, <3>1 DEF SrvpgmLoad, At
    <2> QED BY <2>1, <2>2, <2>3, <2>4
  <1>2. ASSUME NEW q, Stays(t, q)
        PROVE  Runs(Lookups, more, q, Knowing(q, Gains(Head(todo[t]).do, q)))
    <2>1. q \in Stand /\ Sane(q) BY <1>2 DEF Stays
    <2>2. Gains(Head(todo[t]).do, q) = {} BY <1>1 DEF Gains
    <2>3. Knowing(q, Gains(Head(todo[t]).do, q)) = q BY <2>1, <2>2, KnowingLess
    <2>4. Runs(Lookups, <<>>, q, q) BY <2>1, RunsEmpty
    <2>5. Runs(Lookups, <<Do("boot", 0)>>, q, q) BY <2>1, PlainStep, RunsOne
    <2> QED BY <2>3, <2>4, <2>5
  <1> HIDE DEF more
  <1>3. Head(todo[t]).do \in Places BY <1>1 DEF Places
  <1> QED BY <1>1, <1>2, <1>3, TestCalm

\* The tests outside the lock: of the CCSID and of the service program.
LEMMA CcsidTestCalm ==
  ASSUME IInv, Calm, NEW t \in Threads, CcsidTest(t)
  PROVE  Calm'
  <1> DEFINE whole == Locking \o <<Do("choose", N(t)), Do("parse", 0)>> \o Unlocking
             last == <<Do("myccsid", 0)>>
             more == (IF ccsid = 0 THEN whole ELSE <<>>) \o last
  <1>1. /\ todo[t] # <<>> /\ Then(t, more) /\ Head(todo[t]).do = "ccsid"
        /\ UNCHANGED <<ccsid, env_hndl, env_server_mode, db2, local>>
    BY DEF CcsidTest, At
  <1>2. N(t) \in Nat BY <1>1, HeadStep DEF IInv
  <1>3. ASSUME NEW q, Stays(t, q)
        PROVE  Runs(Lookups, more, q, Knowing(q, Gains(Head(todo[t]).do, q)))
    <2> DEFINE m == Knowing(q, {"ccsid", "my"})
    <2>1. q \in Stand /\ Sane(q) /\ m \in Stand
      BY <1>3, Sanity DEF Stays, Facts, Sane
    <2>2. Gains(Head(todo[t]).do, q) = {"ccsid", "my"} BY <1>1 DEF Gains
    <2>3. CASE ccsid = 0
      <3>1. Runs(Lookups, whole \o last, q, m) BY <1>2, <2>1, CcsidPieceRuns
      <3> QED BY <2>2, <2>3, <3>1
    <2>4. CASE ccsid # 0
      <3>1. "ccsid" \in q.has BY <1>3, <2>4 DEF Stays, Known, Facts
      <3>2. Do("myccsid", 0) \in Step /\ Do("myccsid", 0).do \in Lookups
        BY DEF Do, Step, Steps, Lookups
      <3>3. Allowed(Do("myccsid", 0), q, m)
        BY <2>1, <3>1 DEF Allowed, Guard, Level, Gains, Do, Tells, Knowing, Sane
      <3> HIDE DEF m
      <3>4. Runs(Lookups, last, q, m) BY <2>1, <3>2, <3>3, RunsOne
      <3>5. <<>> \o last = last
        <4>1. last \in Seq(Step) BY <3>2
        <4> QED BY <4>1, ConcatEmptySeq
      <3> HIDE DEF last
      <3>6. Runs(Lookups, more, q, m) BY <2>4, <3>4, <3>5
      <3> QED BY <2>2, <3>6 DEF m
    <2> QED BY <2>3, <2>4
  <1> HIDE DEF more
  <1>4. Head(todo[t]).do \in Places BY <1>1 DEF Places
  <1> QED BY <1>1, <1>3, <1>4, TestCalm

LEMMA SrvpgmTestCalm ==
  ASSUME IInv, Calm, NEW t \in Threads, SrvpgmTest(t)
  PROVE  Calm'
  <1> DEFINE whole == Locking \o <<Do("load", 0)>> \o Unlocking
             more == IF loaded THEN <<>> ELSE whole
  <1>1. /\ todo[t] # <<>> /\ Then(t, more) /\ Head(todo[t]).do = "srvpgm"
        /\ UNCHANGED <<ccsid, env_hndl, env_server_mode, db2, local>>
    BY DEF SrvpgmTest, At
  <1>2. ASSUME NEW q, Stays(t, q)
        PROVE  Runs(Lookups, more, q, Knowing(q, Gains(Head(todo[t]).do, q)))
    <2>1. q \in Stand /\ Sane(q) BY <1>2 DEF Stays
    <2>2. Gains(Head(todo[t]).do, q) = {} BY <1>1 DEF Gains
    <2>3. Knowing(q, Gains(Head(todo[t]).do, q)) = q BY <2>1, <2>2, KnowingLess
    <2>4. Runs(Lookups, <<>>, q, q) BY <2>1, RunsEmpty
    <2>5. Runs(Lookups, whole, q, q) BY <2>1, SrvpgmPieceRuns
    <2> QED BY <2>3, <2>4, <2>5
  <1> HIDE DEF more
  <1>3. Head(todo[t]).do \in Places BY <1>1 DEF Places
  <1> QED BY <1>1, <1>2, <1>3, TestCalm

\* Nobody inside the lock finds env_hndl set and the environment untold: whoever owes
\* it the CCSID would be inside as well.
LEMMA ToldInside ==
  ASSUME IInv, Calm, NEW t \in Threads, ~Owes(todo[t]), env_hndl # 0,
         local[t].inside > 0 \/ MayEnter(t)
  PROVE  db2.told # 0
  <1> SUFFICES ASSUME db2.told = 0 PROVE FALSE OBVIOUS
  <1>1. PICK u \in Threads : Owes(todo[u]) BY DEF Calm, Untold
  <1>2. Sound(u) /\ todo[u] \in Seq(Step) BY DEF Calm, Threaded, IInv, Types
  <1>3. local[u].inside > 0 BY <1>1, <1>2, OwingInside
  <1>4. glock.owner = u BY <1>3 DEF IInv, LockHeld
  <1>5. CASE local[t].inside > 0
    <2>1. glock.owner = t BY <1>5 DEF IInv, LockHeld
    <2> QED BY <1>1, <1>4, <2>1
  <1>6. CASE MayEnter(t)
    <2>1. glock.owner \in {NoThread, t} BY <1>6 DEF MayEnter, MayLock
    <2> QED BY <1>1, <1>4, <2>1, TableAssumption
  <1> QED BY <1>5, <1>6

\* The test of env_hndl in custom_SQLSetEnvCCSID.
LEMMA TellTestCalm ==
  ASSUME IInv, Calm, NEW t \in Threads, TellTest(t)
  PROVE  Calm'
  <1> DEFINE tells == <<Do("tell_set", N(t))>>
             more == IF env_hndl = 0 THEN tells ELSE <<>>
  <1>1. /\ todo[t] # <<>> /\ Then(t, more) /\ Head(todo[t]).do = "tell"
        /\ UNCHANGED <<ccsid, env_hndl, env_server_mode, db2, local>>
    BY DEF TellTest, At
  <1>2. N(t) \in Nat BY <1>1, HeadStep DEF IInv
  <1>3. ~Owes(todo[t])
    <2>1. todo[t] \in Seq(Step) /\ ToldNext(todo[t]) BY DEF IInv, Types, Calm, Threaded
    <2>2. ~Owes(Tail(todo[t])) BY <1>1, <2>1, ToldNextTail DEF Lookups
    <2> QED BY <1>1, <2>1, <2>2, OwesTail
  <1>4. ASSUME NEW q, Stays(t, q)
        PROVE  Runs(Others, more, q, Knowing(q, Gains(Head(todo[t]).do, q)))
    <2> DEFINE k == Knowing(q, Gains("tell", q))
    <2>1. q \in Stand /\ Sane(q) /\ Guard(Head(todo[t]), q) /\ q.n = local[t].inside
          /\ q.has = Known(t)
      BY <1>4 DEF Stays
    <2>2. Gains("tell", q) = IF q.n > 0 THEN {"env", "told"} ELSE {"env"} BY DEF Gains
    <2>3. k \in Stand BY <2>1, <2>2, Sanity DEF Facts, Sane
    <2>4. CASE env_hndl = 0
      <3>1. "env" \notin q.has BY <2>1, <2>4 DEF Known, Facts
      <3>2. "own" \in q.has /\ q.n > 0 BY <1>1, <2>1, <3>1 DEF Guard
      <3>3. N(t) # 0 BY <1>1, <2>1 DEF Guard, N, Tells
      <3>4. Do("tell_set", N(t)) \in Step /\ Do("tell_set", N(t)).do \in Others
        BY <1>2 DEF Do, Step, Steps, Others
      <3>5. k.n = q.n /\ k.owes = q.owes /\ k.has = q.has \cup {"env", "told"}
        BY <2>2, <3>2 DEF Knowing
      <3> HIDE DEF k
      <3>6. Allowed(Do("tell_set", N(t)), q, k)
        BY <2>1, <3>2, <3>3, <3>5 DEF Allowed, Guard, Level, Gains, Do, Tells, Sane
      <3>7. Runs(Others, tells, q, k) BY <2>1, <2>3, <3>4, <3>6, RunsOne
      <3> QED BY <1>1, <2>4, <3>7 DEF k
    <2>5. CASE env_hndl # 0
      <3>1. "env" \in q.has BY <2>1, <2>5 DEF Known, Facts
      <3>2. q.n > 0 => "told" \in q.has
        BY <1>3, <2>1, <2>5, ToldInside DEF Known, Facts
      <3>3. Gains("tell", q) \subseteq q.has BY <2>2, <3>1, <3>2
      <3>4. k = q BY <2>1, <3>3, KnowingLess
      <3>5. Runs(Others, <<>>, q, q) BY <2>1, RunsEmpty
      <3> HIDE DEF k
      <3> QED BY <1>1, <2>5, <3>4, <3>5 DEF k
    <2> QED BY <2>4, <2>5
  <1> HIDE DEF more
  <1>5. Head(todo[t]).do \in Places /\ Head(todo[t]).do \notin Lookups
    BY <1>1 DEF Places, Lookups
  <1> QED BY <1>1, <1>4, <1>5, TestCalm

LEMMA OverrideTestCalm ==
  ASSUME IInv, Calm, NEW t \in Threads, OverrideTest(t)
  PROVE  Calm'
  <1> DEFINE whole == Ccsid(N(t)) \o <<Do("override_env", 0)>>
             more == IF env_hndl # 0 THEN <<>> ELSE whole
  <1>1. /\ todo[t] # <<>> /\ Then(t, more) /\ Head(todo[t]).do = "override"
        /\ UNCHANGED <<ccsid, env_hndl, env_server_mode, db2, local>>
    BY DEF OverrideTest, At
  <1>2. N(t) \in Nat BY <1>1, HeadStep DEF IInv
  <1>3. ASSUME NEW q, Stays(t, q)
        PROVE  Runs(Others, more, q, Knowing(q, Gains(Head(todo[t]).do, q)))
    <2>1. q \in Stand /\ Sane(q) /\ q.has = Known(t) BY <1>3 DEF Stays
    <2>2. Gains(Head(todo[t]).do, q) = {"env"} BY <1>1 DEF Gains
    <2>3. CASE env_hndl # 0
      <3>1. "env" \in q.has BY <2>1, <2>3 DEF Known, Facts
      <3>2. Knowing(q, {"env"}) = q BY <2>1, <3>1, KnowingLess
      <3>3. Runs(Others, <<>>, q, q) BY <2>1, RunsEmpty
      <3> QED BY <2>2, <2>3, <3>2, <3>3
    <2>4. CASE env_hndl = 0
      <3>1. Runs(Others, whole, q, Knowing(q, {"env"})) BY <1>2, <2>1, OverrideRuns
      <3> QED BY <2>2, <2>4, <3>1
    <2> QED BY <2>3, <2>4
  <1> HIDE DEF more
  <1>4. Head(todo[t]).do \in Places /\ Head(todo[t]).do \notin Lookups
    BY <1>1 DEF Places, Lookups
  <1> QED BY <1>1, <1>3, <1>4, TestCalm

LEMMA OverrideEnvCalm ==
  ASSUME IInv, Calm, NEW t \in Threads, OverrideEnv(t)
  PROVE  Calm'
  <1> DEFINE more == AllocHandle("env", 0) \o <<Do("tell", local[t].myccsid)>>
  <1>1. /\ todo[t] # <<>> /\ Then(t, more) /\ Head(todo[t]).do = "override_env"
        /\ UNCHANGED <<ccsid, env_hndl, env_server_mode, db2, local>>
    BY DEF OverrideEnv, At
  <1>2. local[t].myccsid \in Nat BY DEF IInv, Types, Local
  <1>3. ASSUME NEW q, Stays(t, q)
        PROVE  Runs(Others, more, q, Knowing(q, Gains(Head(todo[t]).do, q)))
    <2>1. q \in Stand /\ Sane(q) /\ q.has = Known(t) /\ Guard(Head(todo[t]), q) BY <1>3 DEF Stays
    <2>2. Gains(Head(todo[t]).do, q) = {"env"} BY <1>1 DEF Gains
    <2>3. "my" \in Known(t) BY <1>1, <2>1 DEF Guard
    <2>4. local[t].myccsid # 0 BY <2>3 DEF Known
    <2>5. Runs(Others, more, q, Knowing(q, {"env"})) BY <1>2, <2>1, <2>4, OverrideEnvRuns
    <2> QED BY <2>2, <2>5
  <1> HIDE DEF more
  <1>4. Head(todo[t]).do \in Places /\ Head(todo[t]).do \notin Lookups
    BY <1>1 DEF Places, Lookups
  <1> QED BY <1>1, <1>3, <1>4, TestCalm

LEMMA ServerTestCalm ==
  ASSUME IInv, Calm, NEW t \in Threads, ServerTest(t)
  PROVE  Calm'
  <1> DEFINE more == IF env_server_mode THEN <<>> ELSE ServerMode
  <1>1. /\ todo[t] # <<>> /\ Then(t, more) /\ Head(todo[t]).do = "server"
        /\ UNCHANGED <<ccsid, env_hndl, env_server_mode, db2, local>>
    BY DEF ServerTest, At
  <1>2. ASSUME NEW q, Stays(t, q)
        PROVE  Runs(Others, more, q, Knowing(q, Gains(Head(todo[t]).do, q)))
    <2>1. q \in Stand /\ Sane(q) /\ q.has = Known(t) BY <1>2 DEF Stays
    <2>2. Gains(Head(todo[t]).do, q) = {"server"} BY <1>1 DEF Gains
    <2>3. CASE env_server_mode
      <3>1. "server" \in q.has BY <2>1, <2>3 DEF Known, Facts, Calm, ModeSet
      <3>2. Knowing(q, {"server"}) = q BY <2>1, <3>1, KnowingLess
      <3>3. Runs(Others, <<>>, q, q) BY <2>1, RunsEmpty
      <3> QED BY <2>2, <2>3, <3>2, <3>3
    <2>4. CASE ~env_server_mode
      <3>1. Runs(Others, ServerMode, q, Knowing(q, {"server"})) BY <2>1, ServerModeRuns
      <3> QED BY <2>2, <2>4, <3>1
    <2> QED BY <2>3, <2>4
  <1> HIDE DEF more
  <1>3. Head(todo[t]).do \in Places /\ Head(todo[t]).do \notin Lookups
    BY <1>1 DEF Places, Lookups
  <1> QED BY <1>1, <1>2, <1>3, TestCalm

-----------------------------------------------------------------------------
(* Steps that nothing takes the place of                                     *)

LEMMA TakesThreaded ==
  ASSUME IInv, Calm, NEW t \in Threads, todo[t] # <<>>, Then(t, <<>>), Grows(t),
         local'[t].env = local[t].env, local[t].myccsid # 0 => local'[t].myccsid # 0,
         ASSUME NEW q, Stays(t, q)
         PROVE  /\ Level(Head(todo[t]).do, q.n) = local'[t].inside
                /\ Gains(Head(todo[t]).do, q) \subseteq Known(t)'
  PROVE  Threaded'
  <1>1. Sound(t) BY DEF Calm, Threaded
  <1>2. PICK q, p, r \in Stand :
           /\ Stands(t, todo[t], q, r) /\ Sane(q) /\ q.has = Known(t)
           /\ Allowed(Head(todo[t]), q, p) /\ Runs(Steps, Tail(todo[t]), p, r)
    BY <1>1, Obtain
  <1>3. Stays(t, q) BY <1>2 DEF Stays, Stands, Allowed
  <1> DEFINE z == Behind(Head(todo[t]), q, p)
  <1>4. z \in Stand BY BehindStand
  <1>5. Runs(Steps, <<>>, z, z) BY <1>4, RunsEmpty
  <1>6. z.n = p.n /\ z.has = q.has \cup Gains(Head(todo[t]).do, q) /\ z.owes = p.owes
    BY DEF Behind
  <1>7. /\ p.n = Level(Head(todo[t]).do, q.n)
        /\ p.owes = q.owes \/ Head(todo[t]).do = "tell_attr"
    BY <1>2 DEF Allowed
  <1>8. Known(t) \subseteq Known(t)' BY DEF Known, Grows
  <1>9. /\ Level(Head(todo[t]).do, q.n) = local'[t].inside
        /\ Gains(Head(todo[t]).do, q) \subseteq Known(t)'
    BY <1>3
  <1>10. ~Owes(<<>>) /\ ToldNext(<<>>) /\ \A i \in 1 .. Len(<<>>) : <<>>[i].do \in Lookups
    BY DEF Owes, ToldNext
  <1> HIDE DEF z
  <1>11. /\ z.n = local'[t].inside /\ z.has \subseteq Known(t)'
         /\ q.owes => z.owes \/ Head(todo[t]).do = "tell_attr"
    BY <1>2, <1>6, <1>7, <1>8, <1>9
  <1>12. Goes(t, <<>>, q, p, z) BY <1>5, <1>10, <1>11 DEF Goes, z
  <1> QED BY <1>2, <1>4, <1>12, GoesThreaded DEF Calm

\* Entering the lock, where whoever knows env_hndl is set finds it told.
LEMMA GlobalLockCalm ==
  ASSUME IInv, Calm, NEW t \in Threads, GlobalLock(t)
  PROVE  Calm'
  <1>1. /\ todo[t] # <<>> /\ Then(t, <<>>) /\ Head(todo[t]).do = "lock" /\ MayEnter(t)
        /\ UNCHANGED <<ccsid, env_hndl, env_server_mode, db2>>
        /\ local' = [local EXCEPT ![t].inside = @ + 1] /\ local \in [Threads -> Local]
    BY DEF GlobalLock, At, IInv, Types
  <1>2. /\ local'[t].inside = local[t].inside + 1 /\ local'[t].env = local[t].env
        /\ local'[t].myccsid = local[t].myccsid
        /\ \A u \in Threads : u # t => local'[u] = local[u]
    <2>1. local[t] \in Local BY <1>1
    <2> QED BY <1>1, <2>1 DEF Local
  <1>3. Grows(t) BY <1>1, <1>2 DEF Grows
  <1>4. ASSUME NEW q, Stays(t, q)
        PROVE  /\ Level(Head(todo[t]).do, q.n) = local'[t].inside
               /\ Gains(Head(todo[t]).do, q) \subseteq Known(t)'
    <2>1. q.n = local[t].inside /\ q.has = Known(t) BY <1>4 DEF Stays
    <2>2. Level(Head(todo[t]).do, q.n) = local'[t].inside BY <1>1, <1>2, <2>1 DEF Level
    <2>3. Gains(Head(todo[t]).do, q) = IF q.n = 0 /\ "env" \in q.has THEN {"told"} ELSE {}
      BY <1>1 DEF Gains
    <2>4. ASSUME q.n = 0, "env" \in q.has PROVE "told" \in Known(t)'
      <3>1. env_hndl # 0 BY <2>1, <2>4 DEF Known
      <3>2. ~Owes(todo[t])
        <4>1. Sound(t) /\ todo[t] \in Seq(Step) BY DEF Calm, Threaded, IInv, Types
        <4>2. Owes(todo[t]) => local[t].inside > 0 BY <4>1, OwingInside
        <4>3. local[t].inside = 0 BY <2>1, <2>4
        <4> QED BY <4>2, <4>3
      <3>3. db2.told # 0 BY <1>1, <3>1, <3>2, ToldInside
      <3> QED BY <1>1, <3>3 DEF Known, Facts
    <2> QED BY <2>2, <2>3, <2>4
  <1>5. Threaded' BY <1>1, <1>2, <1>3, <1>4, TakesThreaded
  <1>6. Untold' /\ ModeSet' /\ ConnsGood' BY <1>1, EmptySeq, SameEnvironment
  <1> QED BY <1>5, <1>6 DEF Calm

LEMMA GlobalUnlockCalm ==
  ASSUME IInv, Calm, NEW t \in Threads, GlobalUnlock(t)
  PROVE  Calm'
  <1>1. /\ todo[t] # <<>> /\ Then(t, <<>>) /\ Head(todo[t]).do = "unlock"
        /\ UNCHANGED <<ccsid, env_hndl, env_server_mode, db2>>
        /\ local' = [local EXCEPT ![t].inside = @ - 1] /\ local \in [Threads -> Local]
    BY DEF GlobalUnlock, At, IInv, Types
  <1>2. /\ local'[t].inside = local[t].inside - 1 /\ local'[t].env = local[t].env
        /\ local'[t].myccsid = local[t].myccsid
        /\ \A u \in Threads : u # t => local'[u] = local[u]
    <2>1. local[t] \in Local BY <1>1
    <2> QED BY <1>1, <2>1 DEF Local
  <1>3. Grows(t) BY <1>1, <1>2 DEF Grows
  <1>4. ASSUME NEW q, Stays(t, q)
        PROVE  /\ Level(Head(todo[t]).do, q.n) = local'[t].inside
               /\ Gains(Head(todo[t]).do, q) \subseteq Known(t)'
    BY <1>1, <1>2, <1>4 DEF Stays, Level, Gains
  <1>5. Threaded' BY <1>1, <1>2, <1>3, <1>4, TakesThreaded
  <1>6. Untold' /\ ModeSet' /\ ConnsGood' BY <1>1, EmptySeq, SameEnvironment
  <1> QED BY <1>5, <1>6 DEF Calm

\* The CCSID is chosen, and taken.
LEMMA CcsidChooseCalm ==
  ASSUME IInv, Calm, NEW t \in Threads, CcsidChoose(t)
  PROVE  Calm'
  <1>1. /\ todo[t] # <<>> /\ Then(t, <<>>) /\ Head(todo[t]).do = "choose"
        /\ ccsid' = IF ccsid # 0 THEN ccsid ELSE IF N(t) = 0 THEN PaseCcsid ELSE N(t)
        /\ UNCHANGED <<env_hndl, env_server_mode, db2, local>>
    BY DEF CcsidChoose, At, MayChoose
  <1>2. ccsid' # 0 BY <1>1, StartupAssumption
  <1>3. Grows(t) BY <1>1, <1>2 DEF Grows
  <1>4. ASSUME NEW q, Stays(t, q)
        PROVE  /\ Level(Head(todo[t]).do, q.n) = local'[t].inside
               /\ Gains(Head(todo[t]).do, q) \subseteq Known(t)'
    <2>1. Gains(Head(todo[t]).do, q) = {"ccsid"} BY <1>1 DEF Gains
    <2>2. "ccsid" \in Known(t)' BY <1>2 DEF Known, Facts
    <2> QED BY <1>1, <1>4, <2>1, <2>2 DEF Stays, Level
  <1>5. Threaded' BY <1>1, <1>3, <1>4, TakesThreaded
  <1>6. Untold' /\ ModeSet' /\ ConnsGood' BY <1>1, EmptySeq, SameEnvironment
  <1> QED BY <1>5, <1>6 DEF Calm

LEMMA CcsidReturnCalm ==
  ASSUME IInv, Calm, NEW t \in Threads, CcsidReturn(t)
  PROVE  Calm'
  <1>1. /\ todo[t] # <<>> /\ Then(t, <<>>) /\ Head(todo[t]).do = "myccsid"
        /\ local' = [local EXCEPT ![t].myccsid = ccsid] /\ local \in [Threads -> Local]
        /\ local[t].myccsid \in {0, ccsid}
        /\ UNCHANGED <<ccsid, env_hndl, env_server_mode, db2>>
    BY DEF CcsidReturn, At, IInv, Types, OneCcsid
  <1>2. /\ local'[t].inside = local[t].inside /\ local'[t].env = local[t].env
        /\ local'[t].myccsid = ccsid
        /\ \A u \in Threads : u # t => local'[u] = local[u]
    <2>1. local[t] \in Local BY <1>1
    <2> QED BY <1>1, <2>1 DEF Local
  <1>3. Grows(t) BY <1>1, <1>2 DEF Grows
  <1>4. ASSUME NEW q, Stays(t, q)
        PROVE  /\ Level(Head(todo[t]).do, q.n) = local'[t].inside
               /\ Gains(Head(todo[t]).do, q) \subseteq Known(t)'
    <2>1. Gains(Head(todo[t]).do, q) = {"my"} BY <1>1 DEF Gains
    <2>2. "ccsid" \in Known(t) BY <1>1, <1>4 DEF Stays, Guard
    <2>3. ccsid # 0 BY <2>2 DEF Known
    <2>4. "my" \in Known(t)' BY <1>2, <2>3 DEF Known, Facts
    <2> QED BY <1>1, <1>2, <1>4, <2>1, <2>4 DEF Stays, Level
  <1>5. Threaded' BY <1>1, <1>2, <1>3, <1>4, TakesThreaded
  <1>6. Untold' /\ ModeSet' /\ ConnsGood' BY <1>1, EmptySeq, SameEnvironment
  <1> QED BY <1>5, <1>6 DEF Calm

\* The environment is told its CCSID.
LEMMA TellAttrCalm ==
  ASSUME IInv, Calm, NEW t \in Threads, TellAttr(t)
  PROVE  Calm'
  <1>1. /\ todo[t] # <<>> /\ Then(t, <<>>) /\ Head(todo[t]).do = "tell_attr"
        /\ db2' = IF env_hndl = 0 THEN db2 ELSE [db2 EXCEPT !.told = N(t)]
        /\ UNCHANGED <<ccsid, env_hndl, env_server_mode, local>>
        /\ db2 \in [env : BOOLEAN, told : Nat, server : BOOLEAN, refused : BOOLEAN, conns : SUBSET Conn]
    BY DEF TellAttr, At, IInv, Types
  <1>2. Sound(t) BY DEF Calm, Threaded
  <1>3. PICK q, p, r \in Stand : Stays(t, q)
    <2>1. PICK q, p, r \in Stand :
           /\ Stands(t, todo[t], q, r) /\ Sane(q) /\ q.has = Known(t)
           /\ Allowed(Head(todo[t]), q, p) /\ Runs(Steps, Tail(todo[t]), p, r)
      BY <1>1, <1>2, Obtain
    <2> QED BY <2>1 DEF Stays, Stands, Allowed
  <1>4. N(t) # 0 /\ env_hndl # 0
    <2>1. Guard(Head(todo[t]), q) /\ q.has = Known(t) BY <1>3 DEF Stays
    <2>2. N(t) # 0 /\ "env" \in Known(t) BY <1>1, <2>1 DEF Guard, N, Tells
    <2> QED BY <2>2 DEF Known
  <1>5. /\ db2'.told = N(t) /\ db2'.server = db2.server /\ db2'.conns = db2.conns
    BY <1>1, <1>4
  <1>6. Grows(t) BY <1>1, <1>4, <1>5 DEF Grows
  <1>7. ASSUME NEW o, Stays(t, o)
        PROVE  /\ Level(Head(todo[t]).do, o.n) = local'[t].inside
               /\ Gains(Head(todo[t]).do, o) \subseteq Known(t)'
    <2>1. Gains(Head(todo[t]).do, o) = {"told"} BY <1>1 DEF Gains
    <2>2. "told" \in Known(t)' BY <1>4, <1>5 DEF Known, Facts
    <2> QED BY <1>1, <1>7, <2>1, <2>2 DEF Stays, Level
  <1>8. Threaded' BY <1>1, <1>6, <1>7, TakesThreaded
  <1>9. Untold' /\ ModeSet' /\ ConnsGood'
    BY <1>1, <1>4, <1>5 DEF Calm, Untold, ModeSet, ConnsGood
  <1> QED BY <1>8, <1>9 DEF Calm

\* Server mode, unless DB2 refuses it; the flag.
LEMMA ServerAttrCalm ==
  ASSUME IInv, Calm, NEW t \in Threads, ServerAttr(t), ~db2'.refused
  PROVE  Calm'
  <1>1. /\ todo[t] # <<>> /\ Then(t, <<>>) /\ Head(todo[t]).do = "server_attr"
        /\ UNCHANGED <<ccsid, env_hndl, env_server_mode, local>>
        /\ db2 \in [env : BOOLEAN, told : Nat, server : BOOLEAN, refused : BOOLEAN, conns : SUBSET Conn]
    BY DEF ServerAttr, At, IInv, Types
  <1>2. db2' = [db2 EXCEPT !.server = TRUE]
    <2>1. db2' # [db2 EXCEPT !.refused = TRUE] BY <1>1
    <2> QED BY <2>1 DEF ServerAttr
  <1>3. db2'.server /\ db2'.told = db2.told /\ db2'.conns = db2.conns BY <1>1, <1>2
  <1>4. Grows(t) BY <1>1, <1>3 DEF Grows
  <1>5. ASSUME NEW q, Stays(t, q)
        PROVE  /\ Level(Head(todo[t]).do, q.n) = local'[t].inside
               /\ Gains(Head(todo[t]).do, q) \subseteq Known(t)'
    <2>1. Gains(Head(todo[t]).do, q) = {"server"} BY <1>1 DEF Gains
    <2>2. "server" \in Known(t)' BY <1>3 DEF Known, Facts
    <2> QED BY <1>1, <1>5, <2>1, <2>2 DEF Stays, Level
  <1>6. Threaded' BY <1>1, <1>4, <1>5, TakesThreaded
  <1>7. \A u \in Threads : Owes(todo[u]) => Owes(todo'[u]) BY <1>1, EmptySeq, OwesStay
  <1>8. Untold' BY <1>1, <1>3, <1>7 DEF Calm, Untold
  <1>9. ModeSet' /\ ConnsGood' BY <1>1, <1>3 DEF Calm, ModeSet, ConnsGood
  <1> QED BY <1>6, <1>8, <1>9 DEF Calm

LEMMA ServerFlagCalm ==
  ASSUME IInv, Calm, NEW t \in Threads, ServerFlag(t)
  PROVE  Calm'
  <1>1. /\ todo[t] # <<>> /\ Then(t, <<>>) /\ Head(todo[t]).do = "server_flag"
        /\ UNCHANGED <<ccsid, env_hndl, db2, local>>
    BY DEF ServerFlag, At
  <1>2. Grows(t) BY <1>1 DEF Grows
  <1>3. ASSUME NEW q, Stays(t, q)
        PROVE  /\ Level(Head(todo[t]).do, q.n) = local'[t].inside
               /\ Gains(Head(todo[t]).do, q) \subseteq Known(t)'
    BY <1>1, <1>3 DEF Stays, Level, Gains
  <1>4. Threaded' BY <1>1, <1>2, <1>3, TakesThreaded
  <1>5. db2.server
    <2>1. Sound(t) BY DEF Calm, Threaded
    <2>2. PICK q, p, r \in Stand :
           /\ Stands(t, todo[t], q, r) /\ Sane(q) /\ q.has = Known(t)
           /\ Allowed(Head(todo[t]), q, p) /\ Runs(Steps, Tail(todo[t]), p, r)
      BY <1>1, <2>1, Obtain
    <2>3. "server" \in Known(t) BY <1>1, <2>2 DEF Allowed, Guard
    <2> QED BY <2>3 DEF Known
  <1>6. \A u \in Threads : Owes(todo[u]) => Owes(todo'[u]) BY <1>1, EmptySeq, OwesStay
  <1>7. Untold' BY <1>1, <1>6 DEF Calm, Untold
  <1>8. ModeSet' /\ ConnsGood' BY <1>1, <1>5 DEF Calm, ModeSet, ConnsGood
  <1> QED BY <1>4, <1>7, <1>8 DEF Calm

-----------------------------------------------------------------------------
(* The calls of DB2 that others follow                                       *)

\* SQLAllocEnv, when DB2 does not refuse.
LEMMA AllocEnvCalm ==
  ASSUME IInv, Calm, NEW t \in Threads, AllocEnv(t), ~db2'.refused
  PROVE  Calm'
  <1> DEFINE more == EnvAllocated(local[t].myccsid)
  <1>1. /\ todo[t] # <<>> /\ Head(todo[t]).do = "env" /\ local \in [Threads -> Local]
        /\ UNCHANGED <<ccsid, env_hndl, env_server_mode>>
        /\ db2 \in [env : BOOLEAN, told : Nat, server : BOOLEAN, refused : BOOLEAN, conns : SUBSET Conn]
    BY DEF AllocEnv, At, IInv, Types
  <1>2. /\ db2' = [db2 EXCEPT !.env = TRUE] /\ Then(t, more)
        /\ local' = [local EXCEPT ![t].env = 1]
    <2>1. db2' # [db2 EXCEPT !.refused = TRUE] BY <1>1
    <2> QED BY <2>1 DEF AllocEnv
  <1>3. db2'.server = db2.server /\ db2'.told = db2.told /\ db2'.conns = db2.conns
    BY <1>1, <1>2
  <1>4. /\ local'[t].inside = local[t].inside /\ local'[t].env = 1
        /\ local'[t].myccsid = local[t].myccsid /\ local[t].myccsid \in Nat
        /\ \A u \in Threads : u # t => local'[u] = local[u]
    <2>1. local[t] \in Local BY <1>1
    <2> QED BY <1>1, <1>2, <2>1 DEF Local
  <1>5. Grows(t) BY <1>1, <1>3, <1>4 DEF Grows
  <1>6. Sound(t) BY DEF Calm, Threaded
  <1>7. PICK q, p, r \in Stand :
           /\ Stands(t, todo[t], q, r) /\ Sane(q) /\ q.has = Known(t)
           /\ Allowed(Head(todo[t]), q, p) /\ Runs(Steps, Tail(todo[t]), p, r)
    BY <1>1, <1>6, Obtain
  <1> DEFINE z == Knowing(q, {"own"})
             b == Behind(Head(todo[t]), q, p)
  <1>8. Sane(z) /\ z \in Stand /\ z.n = q.n /\ z.has = q.has \cup {"own"} /\ z.owes = q.owes
    <2>1. Sane(z) BY <1>7, Sanity DEF Facts
    <2> QED BY <2>1 DEF Sane, Knowing
  <1>9. Guard(Head(todo[t]), q) /\ p.n = q.n - 1 /\ p.owes = q.owes
    BY <1>1, <1>7 DEF Allowed, Level
  <1>10. q.n > 0 /\ "my" \in Known(t) BY <1>1, <1>7, <1>9 DEF Guard
  <1>11. local[t].myccsid # 0 BY <1>10 DEF Known
  <1>12. Gains(Head(todo[t]).do, q) = {"own", "env", "told"} BY <1>1 DEF Gains
  <1>13. Out(z, {"env", "told"}) = b
    <2>1. z.has \cup {"env", "told"} = q.has \cup {"own", "env", "told"} BY <1>8
    <2> QED BY <1>8, <1>9, <1>12, <2>1 DEF Out, Behind
  <1> HIDE DEF z, b
  <1>14. Runs(Others, more, z, b)
    BY <1>4, <1>8, <1>10, <1>11, <1>13, EnvAllocatedRuns
  <1> HIDE DEF more
  <1>15. Runs(Steps, more, z, b)
    <2>1. Others \subseteq Steps BY DEF Others
    <2> QED BY <1>14, <2>1, RunsWider
  <1>16. ~Owes(more) /\ ToldNext(more) BY <1>14, RunsOwes
  <1>17. z.has \subseteq Known(t)'
    <2>1. Known(t) \subseteq Known(t)' BY <1>4, <1>5 DEF Known, Grows
    <2>2. "own" \in Known(t)' BY <1>4 DEF Known, Facts
    <2> QED BY <1>7, <1>8, <2>1, <2>2
  <1>18. Goes(t, more, q, p, z)
    <2>1. z.n = local'[t].inside BY <1>4, <1>7, <1>8 DEF Stands
    <2>2. Head(todo[t]).do \notin Lookups BY <1>1 DEF Lookups
    <2> QED BY <1>8, <1>12, <1>15, <1>16, <1>17, <2>1, <2>2 DEF Goes, b
  <1>19. Threaded' BY <1>1, <1>2, <1>5, <1>7, <1>8, <1>18, GoesThreaded DEF Calm
  <1>20. \A u \in Threads : Owes(todo[u]) => Owes(todo'[u])
    <2>1. more \in Seq(Step) BY <1>14, RunsStands
    <2> QED BY <1>1, <1>2, <2>1, OwesStay
  <1>21. Untold' BY <1>1, <1>3, <1>20 DEF Calm, Untold
  <1>22. ModeSet' /\ ConnsGood' BY <1>1, <1>3 DEF Calm, ModeSet, ConnsGood
  <1> QED BY <1>19, <1>21, <1>22 DEF Calm

\* custom_SQLSetEnvCCSID sets env_hndl, and owes the environment its CCSID from here on.
LEMMA TellSetCalm ==
  ASSUME IInv, Calm, NEW t \in Threads, TellSet(t)
  PROVE  Calm'
  <1> DEFINE more == SetEnvAttr("tell_attr", N(t))
  <1>1. /\ todo[t] # <<>> /\ Head(todo[t]).do = "tell_set" /\ Then(t, more)
        /\ env_hndl' = local[t].env
        /\ UNCHANGED <<ccsid, env_server_mode, db2, local>>
    BY DEF TellSet, At
  <1>2. N(t) \in Nat BY <1>1, HeadStep DEF IInv
  <1>3. Sound(t) BY DEF Calm, Threaded
  <1>4. PICK q, p, r \in Stand :
           /\ Stands(t, todo[t], q, r) /\ Sane(q) /\ q.has = Known(t)
           /\ Allowed(Head(todo[t]), q, p) /\ Runs(Steps, Tail(todo[t]), p, r)
    BY <1>1, <1>3, Obtain
  <1>5. Guard(Head(todo[t]), q) /\ p.n = q.n /\ p.owes = q.owes
    BY <1>1, <1>4 DEF Allowed, Level
  <1>6. q.n > 0 /\ N(t) # 0 /\ "own" \in Known(t)
    BY <1>1, <1>4, <1>5 DEF Guard, N, Tells
  <1>7. env_hndl' = 1 BY <1>1, <1>6 DEF Known
  <1>8. Grows(t) BY <1>1, <1>7 DEF Grows
  <1> DEFINE k == Knowing(q, {"env"})
             z == [n |-> k.n, has |-> k.has, owes |-> TRUE]
             b == Behind(Head(todo[t]), q, p)
  <1>9. k \in Stand /\ k.n = q.n /\ k.has = q.has \cup {"env"}
    BY <1>4, Sanity DEF Facts, Sane, Knowing
  <1>10. b \in Stand /\ b.n = q.n /\ b.has = q.has \cup {"env", "told"}
    <2>1. Gains(Head(todo[t]).do, q) = {"env", "told"} BY <1>1 DEF Gains
    <2>2. b \in Stand BY BehindStand
    <2> QED BY <1>5, <2>1, <2>2 DEF Behind
  <1> HIDE DEF k, b
  <1>11. b.has \subseteq k.has \cup {"told"} BY <1>9, <1>10
  <1>12. Runs(Steps, more, z, b) BY <1>2, <1>6, <1>9, <1>10, <1>11, TellRuns
  <1>13. z \in Stand /\ z.n = q.n /\ z.has = q.has \cup {"env"} /\ z.owes BY <1>9 DEF Stand
  <1>14. ToldNext(more)
    <2> DEFINE into == Ccsid(0) \o IntoDb2
               last == <<Do("tell_attr", N(t))>>
    <2>1. Runs(Lookups, into, q, Knowing(q, {"ccsid", "my"}))
      <3>1. Sane(Knowing(q, {"ccsid", "my"})) BY <1>4, Sanity DEF Facts
      <3>2. Runs(Lookups, Ccsid(0), q, Knowing(q, {"ccsid", "my"})) BY <1>4, CcsidRuns
      <3>3. Runs(Lookups, IntoDb2, Knowing(q, {"ccsid", "my"}), Knowing(q, {"ccsid", "my"}))
        BY <3>1, IntoDb2Runs
      <3> QED BY <3>2, <3>3, RunsConcat
    <2>2. into \in Seq(Step) /\ \A i \in 1 .. Len(into) : into[i].do \in Lookups
      BY <2>1, RunsStands, RunsOwes
    <2>3. ToldNext(into) BY <2>2 DEF ToldNext
    <2>4. last \in Seq(Step) /\ ToldNext(last)
      <3>1. Do("tell_attr", N(t)) \in Step BY <1>2 DEF Do, Step, Steps
      <3>2. last \in Seq(Step) /\ Len(last) = 1 BY <3>1
      <3> HIDE DEF last
      <3> QED BY <3>2 DEF ToldNext
    <2> HIDE DEF into, last
    <2>5. ToldNext(into \o last) BY <2>2, <2>3, <2>4, ToldNextConcat
    <2> QED BY <2>5 DEF SetEnvAttr, into, last
  <1> HIDE DEF z, more
  <1>15. z.has \subseteq Known(t)'
    <2>1. Known(t) \subseteq Known(t)' BY <1>1, <1>8 DEF Known, Grows
    <2>2. "env" \in Known(t)' BY <1>7 DEF Known, Facts
    <2> QED BY <1>4, <1>13, <2>1, <2>2
  <1>16. Goes(t, more, q, p, z)
    <2>1. z.n = local'[t].inside BY <1>1, <1>4, <1>13 DEF Stands
    <2>2. Head(todo[t]).do \notin Lookups BY <1>1 DEF Lookups
    <2> QED BY <1>1, <1>12, <1>13, <1>14, <1>15, <2>1, <2>2 DEF Goes, b
  <1>17. Threaded' BY <1>1, <1>4, <1>8, <1>13, <1>16, GoesThreaded DEF Calm
  <1>18. Owes(todo'[t])
    <2>1. Owes(more)
      <3> DEFINE into == Ccsid(0) \o IntoDb2
                 last == <<Do("tell_attr", N(t))>>
      <3>1. into \in Seq(Step)
        <4>1. Runs(Lookups, Ccsid(0), q, Knowing(q, {"ccsid", "my"})) BY <1>4, CcsidRuns
        <4>2. Runs(Lookups, IntoDb2, q, q) BY <1>4, IntoDb2Runs
        <4>3. Ccsid(0) \in Seq(Step) /\ IntoDb2 \in Seq(Step) BY <4>1, <4>2, RunsStands
        <4> QED BY <4>3, ConcatProperties
      <3>2. last \in Seq(Step) /\ Owes(last)
        <4>1. Do("tell_attr", N(t)) \in Step BY <1>2 DEF Do, Step, Steps
        <4>2. last \in Seq(Step) /\ Len(last) = 1 /\ last[1].do = "tell_attr" BY <4>1 DEF Do
        <4> HIDE DEF last
        <4> QED BY <4>2 DEF Owes
      <3> HIDE DEF into, last
      <3>3. Owes(into \o last) BY <3>1, <3>2, OwesConcat
      <3> QED BY <3>3 DEF SetEnvAttr, into, last, more
    <2>2. more \in Seq(Step) /\ Tail(todo[t]) \in Seq(Step) BY <1>4, <1>12, RunsStands
    <2>3. Owes(more \o Tail(todo[t])) BY <2>1, <2>2, OwesConcat
    <2>4. todo'[t] = more \o Tail(todo[t]) BY <1>1 DEF Then, IInv, Types
    <2> QED BY <2>3, <2>4
  <1>19. Untold' BY <1>18 DEF Untold
  <1>20. ModeSet' /\ ConnsGood' BY <1>1 DEF Calm, ModeSet, ConnsGood
  <1> QED BY <1>17, <1>19, <1>20 DEF Calm

\* A connection: in an environment that has been told, and for SQL400Connect in
\* server mode.
LEMMA AllocConnCalm ==
  ASSUME IInv, Calm, NEW t \in Threads, AllocConn(t)
  PROVE  Calm'
  <1> DEFINE conn == [by |-> IF N(t) = 1 THEN "SQL400Connect" ELSE "client",
                      told |-> db2.told, server |-> db2.server]
  <1>1. /\ todo[t] # <<>> /\ Head(todo[t]).do = "dbc" /\ Then(t, Unlocking)
        /\ db2' = db2 \/ db2' = [db2 EXCEPT !.conns = db2.conns \cup {conn}]
        /\ UNCHANGED <<ccsid, env_hndl, env_server_mode, local>>
        /\ db2 \in [env : BOOLEAN, told : Nat, server : BOOLEAN, refused : BOOLEAN, conns : SUBSET Conn]
    BY DEF AllocConn, At, IInv, Types
  <1>2. Sound(t) BY DEF Calm, Threaded
  <1>3. PICK q, p, r \in Stand :
           /\ Stands(t, todo[t], q, r) /\ Sane(q) /\ q.has = Known(t)
           /\ Allowed(Head(todo[t]), q, p) /\ Runs(Steps, Tail(todo[t]), p, r)
    BY <1>1, <1>2, Obtain
  <1>4. Guard(Head(todo[t]), q) /\ p.n = q.n - 1 /\ p.owes = q.owes
    BY <1>1, <1>3 DEF Allowed, Level
  <1>5. q.n > 0 /\ "told" \in Known(t) /\ (N(t) = 1 => "server" \in Known(t))
    BY <1>1, <1>3, <1>4 DEF Guard, N
  <1>6. db2.told # 0 /\ (N(t) = 1 => db2.server) BY <1>5 DEF Known
  <1>7. conn.told # 0 /\ (conn.by = "SQL400Connect" => conn.server) BY <1>6
  <1> HIDE DEF conn
  <1>8. db2'.told = db2.told /\ db2'.server = db2.server /\ db2'.conns \subseteq db2.conns \cup {conn}
    BY <1>1
  <1>9. Grows(t) BY <1>1, <1>8 DEF Grows
  <1> DEFINE b == Behind(Head(todo[t]), q, p)
  <1>10. Out(q, {}) = b
    <2>1. Gains(Head(todo[t]).do, q) = {} BY <1>1 DEF Gains
    <2> QED BY <1>4, <2>1 DEF Out, Behind
  <1> HIDE DEF b
  <1>11. Runs(Others, Unlocking, q, b) BY <1>3, <1>5, <1>10, UnlockingRuns
  <1>12. Runs(Steps, Unlocking, q, b)
    <2>1. Others \subseteq Steps BY DEF Others
    <2> QED BY <1>11, <2>1, RunsWider
  <1>13. ~Owes(Unlocking) /\ ToldNext(Unlocking) /\ Unlocking \in Seq(Step)
    BY <1>11, RunsOwes, RunsStands
  <1>14. Goes(t, Unlocking, q, p, q)
    <2>1. Known(t) \subseteq Known(t)' BY <1>1, <1>9 DEF Known, Grows
    <2>2. Head(todo[t]).do \notin Lookups BY <1>1 DEF Lookups
    <2>3. q.n = local'[t].inside BY <1>1, <1>3 DEF Stands
    <2> QED BY <1>1, <1>3, <1>12, <1>13, <2>1, <2>2, <2>3 DEF Goes, b
  <1>15. Threaded' BY <1>1, <1>3, <1>9, <1>14, GoesThreaded DEF Calm
  <1>16. \A u \in Threads : Owes(todo[u]) => Owes(todo'[u]) BY <1>1, <1>13, OwesStay
  <1>17. Untold' BY <1>1, <1>8, <1>16 DEF Calm, Untold
  <1>18. ModeSet' BY <1>1, <1>8 DEF Calm, ModeSet
  <1>19. ConnsGood' BY <1>7, <1>8 DEF Calm, ConnsGood
  <1> QED BY <1>15, <1>17, <1>18, <1>19 DEF Calm

-----------------------------------------------------------------------------
(* The invariant of the environment is preserved.                            *)

\* A client calls.  A thread outside the driver is outside the lock, and one that was
\* given the environment finds env_hndl set.
LEMMA CallCalm ==
  ASSUME IInv, Calm, NEW t \in Threads, Call(t)
  PROVE  Calm'
  <1> DEFINE call == Head(program[t])
             more == IF call.do = "SQLAllocConnect" /\ local[t].env = 0 THEN <<>> ELSE Enter(call)
  <1>1. /\ todo[t] = <<>> /\ program[t] # <<>> /\ todo \in [Threads -> Seq(Step)]
        /\ program \in [Threads -> Seq(ClientCalls)]
        /\ todo' = [todo EXCEPT ![t] = more]
        /\ UNCHANGED <<ccsid, env_hndl, env_server_mode, db2, local>>
    BY DEF Call, IInv, Types
  <1>2. call \in ClientCalls
    <2>1. program[t] \in Seq(ClientCalls) BY <1>1
    <2> QED BY <1>1, <2>1, HeadTailProperties
  <1>3. local[t].inside = 0 /\ (local[t].env # 0 => "env" \in Known(t))
    <2>1. PICK q \in Stand, r \in Stand : Stands(t, todo[t], q, r)
      <3>1. Sound(t) BY DEF Calm, Threaded
      <3> QED BY <3>1 DEF Sound
    <2>2. q = r
      <3>1. Runs(Steps, <<>>, q, r) BY <1>1, <2>1 DEF Stands
      <3>2. Len(<<>>) = 0 BY EmptySeq
      <3> QED BY <3>1, <3>2 DEF Runs
    <2> QED BY <2>1, <2>2 DEF Stands
  <1>4. Known(t) \in SUBSET Facts /\ [n |-> 0, has |-> Known(t), owes |-> FALSE] \in Stand
    BY DEF Known, Stand
  <1>0. PICK q \in Stand : q = [n |-> 0, has |-> Known(t), owes |-> FALSE] BY <1>4
  <1>5. PICK r \in Stand : Runs(Others, more, q, r) /\ r.n = 0 /\ Known(t) \subseteq r.has
    <2>1. CASE call.do = "SQLAllocConnect" /\ local[t].env = 0
      <3>1. Runs(Others, <<>>, q, q) BY RunsEmpty
      <3> QED BY <1>0, <2>1, <3>1
    <2>2. CASE ~(call.do = "SQLAllocConnect" /\ local[t].env = 0)
      <3>1. call.do = "SQLAllocConnect" => "env" \in Known(t) BY <1>3, <2>2
      <3>2. \E r \in Stand : Runs(Others, Enter(call), q, r) /\ r.n = 0 /\ Known(t) \subseteq r.has
        <4> HIDE DEF call
        <4> QED BY <1>0, <1>2, <1>4, <3>1, EnterRuns
      <3> QED BY <2>2, <3>2
    <2> QED BY <2>1, <2>2
  <1> HIDE DEF more
  <1>6. Runs(Steps, more, q, r)
    <2>1. Others \subseteq Steps BY DEF Others
    <2> QED BY <1>5, <2>1, RunsWider
  <1>7. ~Owes(more) /\ ToldNext(more) BY <1>5, RunsOwes
  <1>8. Known(t)' = Known(t) BY <1>1 DEF Known
  <1>9. q.n = local'[t].inside /\ q.has = Known(t)' BY <1>0, <1>1, <1>3, <1>8
  <1>10. Sound(t)'
    <2>1. todo'[t] = more BY <1>1
    <2>2. local'[t].env # 0 => "env" \in r.has BY <1>1, <1>3, <1>5
    <2>3. Stands(t, todo[t], q, r)' BY <1>5, <1>6, <1>7, <1>9, <2>1, <2>2 DEF Stands
    <2> QED BY <2>3 DEF Sound
  <1>11. Grows(t) BY <1>1 DEF Grows
  <1>12. ASSUME NEW u \in Threads PROVE Sound(u)' /\ ToldNext(todo'[u])
    <2>1. CASE u = t BY <1>1, <1>7, <1>10, <2>1
    <2>2. CASE u # t
      <3>1. todo'[u] = todo[u] BY <1>1, <2>2
      <3>2. Sound(u) /\ ToldNext(todo[u]) BY DEF Calm, Threaded
      <3> QED BY <1>11, <2>2, <3>1, <3>2, OthersStand
    <2> QED BY <2>1, <2>2
  <1>13. Threaded' BY <1>12 DEF Threaded
  <1>14. \A u \in Threads : Owes(todo[u]) => Owes(todo'[u])
    <2> SUFFICES ASSUME NEW u \in Threads, Owes(todo[u]) PROVE Owes(todo'[u]) OBVIOUS
    <2>1. ~Owes(<<>>) BY DEF Owes
    <2>2. u # t BY <1>1, <2>1
    <2>3. todo'[u] = todo[u] BY <1>1, <2>2
    <2> QED BY <2>3
  <1>15. Untold' BY <1>1, <1>14 DEF Calm, Untold
  <1>16. ModeSet' /\ ConnsGood' BY <1>1 DEF Calm, ModeSet, ConnsGood
  <1> QED BY <1>13, <1>15, <1>16 DEF Calm

\* A refusal is not taken back.
LEMMA RefusedStays ==
  ASSUME IInv, NEW t \in Threads, StartupStep(t), db2.refused
  PROVE  db2'.refused
  <1>1. db2 \in [env : BOOLEAN, told : Nat, server : BOOLEAN, refused : BOOLEAN, conns : SUBSET Conn]
    BY DEF IInv, Types
  <1>2. CASE AllocEnv(t) BY <1>1, <1>2 DEF AllocEnv
  <1>3. CASE TellAttr(t) BY <1>1, <1>3 DEF TellAttr
  <1>4. CASE ServerAttr(t) BY <1>1, <1>4 DEF ServerAttr
  <1>5. CASE AllocConn(t)
    <2> DEFINE conn == [by |-> IF N(t) = 1 THEN "SQL400Connect" ELSE "client",
                        told |-> db2.told, server |-> db2.server]
    <2>1. db2' = db2 \/ db2' = [db2 EXCEPT !.conns = db2.conns \cup {conn}] BY <1>5 DEF AllocConn
    <2> HIDE DEF conn
    <2> QED BY <1>1, <2>1
  <1>6. CASE UNCHANGED db2 BY <1>6
  <1> QED BY <1>2, <1>3, <1>4, <1>5, <1>6
      DEF StartupStep, Flag, Boot, GlobalLock, GlobalUnlock, CcsidTest, CcsidChoose, TraceParse,
          CcsidReturn, SrvpgmTest, SrvpgmLoad, TellTest, TellSet, OverrideTest, OverrideEnv,
          ServerTest, ServerFlag

LEMMA InitEInv == Init => EInv
  <1> SUFFICES ASSUME Init PROVE Calm BY DEF EInv
  <1>1. ASSUME NEW t \in Threads PROVE Sound(t) /\ ToldNext(todo[t])
    <2> DEFINE q == [n |-> 0, has |-> {}, owes |-> FALSE]
    <2>1. q \in Stand BY DEF Stand
    <2>2. q.n = 0 /\ q.has = {} OBVIOUS
    <2> HIDE DEF q
    <2>3. Runs(Steps, <<>>, q, q) BY <2>1, RunsEmpty
    <2>4. todo[t] = <<>> /\ local[t].inside = 0 /\ local[t].env = 0 BY DEF Init
    <2>5. ~Owes(<<>>) /\ ToldNext(<<>>) BY DEF Owes, ToldNext
    <2>6. Stands(t, todo[t], q, q) BY <2>2, <2>3, <2>4, <2>5 DEF Stands
    <2> QED BY <2>1, <2>4, <2>5, <2>6 DEF Sound
  <1>2. Threaded BY <1>1 DEF Threaded
  <1>3. Untold /\ ModeSet /\ ConnsGood BY DEF Init, Untold, ModeSet, ConnsGood
  <1> QED BY <1>2, <1>3 DEF Calm

LEMMA NextEInv == IInv /\ EInv /\ [Next]_vars => EInv'
  <1> SUFFICES ASSUME IInv, EInv, [Next]_vars PROVE EInv' OBVIOUS
  <1>1. CASE UNCHANGED vars
    <2>1. UNCHANGED <<ccsid, env_hndl, env_server_mode, db2, todo, local>> BY <1>1 DEF vars
    <2>2. Threaded => Threaded'
      <3> SUFFICES ASSUME Threaded, NEW t \in Threads PROVE Sound(t)' /\ ToldNext(todo'[t])
        BY DEF Threaded
      <3>1. Sound(t) /\ ToldNext(todo[t]) BY DEF Threaded
      <3>2. Sound(t)' BY <2>1, <3>1 DEF Sound, Stands, Known
      <3> QED BY <2>1, <3>1, <3>2
    <2>3. Untold => Untold' BY <2>1 DEF Untold
    <2> QED BY <2>1, <2>2, <2>3 DEF EInv, Calm, ModeSet, ConnsGood
  <1>2. ASSUME NEW t \in Threads, Call(t) PROVE EInv'
    <2>1. db2' = db2 BY <1>2 DEF Call
    <2> QED BY <1>2, <2>1, CallCalm DEF EInv
  <1>3. ASSUME NEW t \in Threads, StartupStep(t) PROVE EInv'
    <2> SUFFICES ASSUME ~db2'.refused PROVE Calm' BY DEF EInv
    <2>1. Calm BY <1>3, RefusedStays DEF EInv
    <2> QED BY <1>3, <2>1, PlainCalm, GlobalLockCalm, GlobalUnlockCalm, CcsidTestCalm,
               CcsidChooseCalm, CcsidReturnCalm, SrvpgmTestCalm, AllocEnvCalm, TellTestCalm,
               TellSetCalm, TellAttrCalm, OverrideTestCalm, OverrideEnvCalm, ServerTestCalm,
               ServerAttrCalm, ServerFlagCalm, AllocConnCalm
            DEF StartupStep
  <1> QED BY <1>1, <1>2, <1>3 DEF Next, Done

-----------------------------------------------------------------------------
(* The theorems                                                              *)

LEMMA InitIInv == Init => IInv
  <1> SUFFICES ASSUME Init PROVE IInv OBVIOUS
  <1>1. program \in [Threads -> Seq(ClientCalls)] BY StartupAssumption DEF Init
  <1>2. Types
    <2>1. <<>> \in Seq(Step) BY EmptySeq
    <2>2. todo \in [Threads -> Seq(Step)] BY <2>1 DEF Init
    <2>3. local \in [Threads -> Local] BY DEF Init, Local
    <2>4. glock \in Mutex BY DEF Init, Mutex
    <2>5. trace \in [listed : Nat, left : Nat, parses : Nat] BY StartupAssumption DEF Init
    <2>6. db2 \in [env : BOOLEAN, told : Nat, server : BOOLEAN, refused : BOOLEAN, conns : SUBSET Conn]
      BY DEF Init
    <2> QED BY <1>1, <2>2, <2>3, <2>4, <2>5, <2>6 DEF Init, Types
  <1>3. LockHeld BY TableAssumption DEF Init, LockHeld, FreeMutex
  <1>4. Ahead
    <2>1. Left(<<>>, FALSE, 0) BY EmptyStretch, StretchIsLeft
    <2> QED BY <2>1 DEF Init, Ahead
  <1>5. OneCcsid BY DEF Init, OneCcsid
  <1>6. Parsed BY DEF Init, Parsed
  <1> QED BY <1>2, <1>3, <1>4, <1>5, <1>6 DEF IInv

LEMMA NextIInv == IInv /\ [Next]_vars => IInv'
  <1> SUFFICES ASSUME IInv, [Next]_vars PROVE IInv' OBVIOUS
  <1>1. CASE UNCHANGED vars
    BY <1>1 DEF vars, IInv, Types, LockHeld, Ahead, OneCcsid, Parsed
  <1>2. ASSUME NEW t \in Threads, Call(t) PROVE IInv' BY <1>2, CallKeeps
  <1>3. ASSUME NEW t \in Threads, StartupStep(t) PROVE IInv'
    BY <1>3, FlagKeeps, BootKeeps, GlobalLockKeeps, GlobalUnlockKeeps, TestsKeep, CallsKeep,
       CcsidChooseKeeps, TraceParseKeeps DEF StartupStep
  <1> QED BY <1>1, <1>2, <1>3 DEF Next, Done

LEMMA IInvariant == Spec => []IInv
  BY InitIInv, NextIInv, PTL DEF Spec

\* The global lock keeps two threads apart however many threads make their first
\* call at once: whoever locks it has seen the flag set or has set it, and the
\* mutex is made only while nobody has used it (init_lock, PaseCliInit.c).
THEOREM LockExclusive == Spec => []GlobalLockExclusive
  <1>1. IInv => GlobalLockExclusive BY DEF IInv, LockHeld, GlobalLockExclusive
  <1> QED BY <1>1, IInvariant, PTL

\* Every thread dispatches on one CCSID and DB2 is told no other, in whatever order
\* init_CCSID400(0), SQLOverrideCCSID400 and SQLAllocHandle run on however many
\* threads, and although the CCSID is tested without the lock.
THEOREM CcsidAgreed == Spec => []OneCcsid
  <1>1. IInv => OneCcsid BY DEF IInv
  <1> QED BY <1>1, IInvariant, PTL

\* A process that parses the trace settings once has every source directory of
\* DBXSRC in its list (init_CCSID400, PaseCliInit.c).
THEOREM TraceListWhole == Spec => []DirectoriesListed
  <1>1. IInv => DirectoriesListed BY DEF IInv, Parsed, DirectoriesListed
  <1> QED BY <1>1, IInvariant, PTL

\* Unless DB2 refused something, every connection is made in an environment that has
\* been told its CCSID, and those of SQL400Connect in server mode, although env_hndl
\* and env_server_mode are tested under no lock (SQL400Connect.c):
\* whoever finds env_hndl set before DB2 has been told waits for the lock, which the
\* thread that is telling it holds.
THEOREM EnvironmentFirst == Spec => []ConnectionsAfterEnvironment
  <1>1. EInv => ConnectionsAfterEnvironment BY DEF EInv, Calm, ConnsGood, ConnectionsAfterEnvironment
  <1>2. Spec => []EInv BY IInvariant, InitEInv, NextEInv, PTL DEF Spec
  <1> QED BY <1>1, <1>2, PTL
=============================================================================
