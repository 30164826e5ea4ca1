--------------------------- MODULE PaseCliPath_proofs ---------------------------
(***************************************************************************)
(* Proofs about the calls of the exported functions and what they nest, for  *)
(* any number of threads, calls, kinds of calls and room for converters.     *)
(* About the converters: none is used by two threads at once, and there are  *)
(* never more of a pair than threads (CInv).  About the calls: only the      *)
(* functions known to take no lock overlap inside DB2 on a connection, a     *)
(* call that has returned leaves nothing behind, and the text DB2 is given   *)
(* is converted where the CCSIDs differ, iconv can convert it and there is    *)
(* room for converters (PInv).  PInv says of every mutex that the steps a thread    *)
(* has left take the number of times it holds it down to none, of every      *)
(* copy that one of these steps frees it, and of every copy whose text is    *)
(* not converted yet that its conversion is the very next.  What it needs to *)
(* know of the generated tables is proved here from the tables.              *)
(***************************************************************************)
EXTENDS PaseCliPath, FiniteSetTheorems, SequenceTheorems, WellFoundedInduction, TLAPS

\* What the CCSID of the process is converted to and from in a setting.
Pairs(conf) == {"1208", "1200", conf.job}

Converter(conf) == [pair : Pairs(conf) \cup {"none"}, in_progress : BOOLEAN, lock : Mutex]

\* Steps of exported functions one after another.
IsSteps(s) ==
  /\ \E S : s \in Seq(S)
  /\ \A i \in 1 .. Len(s) : s[i].fn \in DOMAIN Functions

\* The steps between the choice of a converter and its release.
Converting == {"convert", "iconv"}

\* None of the steps is about a converter that has been chosen.
Plain(s) == IsSteps(s) /\ \A i \in 1 .. Len(s) : s[i].do \notin Converting

\* At most the first one is.
Pending(s) == IsSteps(s) /\ \A i \in 1 .. Len(s) : i > 1 => s[i].do \notin Converting

-----------------------------------------------------------------------------
(* The inductive invariant                                                   *)

ConverterTypes ==
  /\ setting \in Settings
  /\ converter \in [1 .. setting.pool -> Converter(setting)]
  /\ todo = [t \in Threads |-> todo[t]]
  /\ \A t \in Threads : Pending(todo[t])

\* A thread that has chosen a converter has chosen one there is; inside iconv it
\* owns its mutex, and whatever is marked is marked by such a thread.
Chosen ==
  \A t \in Threads : At(t, "convert") \/ At(t, "iconv") => Head(todo[t]).i \in 1 .. setting.pool
Owned ==
  \A t \in Threads : At(t, "iconv") => converter[Head(todo[t]).i].lock.owner = t
MarkedByOwner ==
  \A i \in 1 .. setting.pool :
    converter[i].in_progress => \E t \in Threads : At(t, "iconv") /\ Head(todo[t]).i = i

CInv == ConverterTypes /\ Chosen /\ Owned /\ MarkedByOwner /\ ConvertersBounded

-----------------------------------------------------------------------------
(* Sequences of steps                                                        *)

LEMMA EmptyPlain == Plain(<<>>)
  <1>1. <<>> \in Seq({}) /\ Len(<<>>) = 0 BY EmptySeq
  <1> QED BY <1>1 DEF Plain, IsSteps

LEMMA Singleton ==
  ASSUME NEW x
  PROVE  /\ \E S : <<x>> \in Seq(S)
         /\ Len(<<x>>) = 1 /\ <<x>>[1] = x
  <1> DEFINE S == {x}
  <1>1. x \in S OBVIOUS
  <1> HIDE DEF S
  <1>2. <<x>> \in Seq(S) BY <1>1
  <1>3. Len(<<x>>) = 1 /\ <<x>>[1] = x OBVIOUS
  <1> QED BY <1>2, <1>3

\* One step of an exported function.
LEMMA OnePlain ==
  ASSUME NEW do, NEW fn \in DOMAIN Functions, NEW c, NEW p, NEW i, do \notin Converting
  PROVE  Plain(<<Step(do, fn, c, p, i)>>)
  <1> DEFINE x == Step(do, fn, c, p, i)
  <1>1. x.fn = fn /\ x.do = do BY DEF Step
  <1> HIDE DEF x
  <1>2. (\E S : <<x>> \in Seq(S)) /\ Len(<<x>>) = 1 /\ <<x>>[1] = x BY Singleton
  <1>3. Plain(<<x>>) BY <1>1, <1>2 DEF Plain, IsSteps
  <1> QED BY <1>3 DEF x

LEMMA OneDoPlain ==
  ASSUME NEW do, NEW fn \in DOMAIN Functions, NEW c, do \notin Converting
  PROVE  Plain(<<Do(do, fn, c)>>)
  BY OnePlain DEF Do

\* Two sequences of steps, one after the other.
LEMMA ConcatSteps ==
  ASSUME NEW a, NEW b, IsSteps(a), IsSteps(b)
  PROVE  /\ IsSteps(a \o b)
         /\ Len(a) \in Nat /\ Len(b) \in Nat /\ Len(a \o b) = Len(a) + Len(b)
         /\ \A i \in 1 .. Len(a \o b) : (a \o b)[i] = IF i <= Len(a) THEN a[i] ELSE b[i - Len(a)]
  <1>1. PICK S : a \in Seq(S) BY DEF IsSteps
  <1>2. PICK T : b \in Seq(T) BY DEF IsSteps
  <1> DEFINE U == S \cup T
             s == a \o b
  <1>3. a \in Seq(U) /\ b \in Seq(U)
    <2>1. S \subseteq U /\ T \subseteq U OBVIOUS
    <2> HIDE DEF U
    <2> QED BY <1>1, <1>2, <2>1, SeqMonotonic
  <1> HIDE DEF U
  <1>4. /\ s \in Seq(U) /\ Len(s) = Len(a) + Len(b)
        /\ \A i \in 1 .. Len(a) + Len(b) : s[i] = IF i <= Len(a) THEN a[i] ELSE b[i - Len(a)]
    BY <1>3, ConcatProperties
  <1>5. Len(a) \in Nat /\ Len(b) \in Nat BY <1>3, LenProperties
  <1>6. ASSUME NEW i \in 1 .. Len(s) PROVE s[i].fn \in DOMAIN Functions
    <2>1. CASE i <= Len(a)
      <3>1. i \in 1 .. Len(a) /\ s[i] = a[i] BY <1>4, <1>5, <2>1
      <3> QED BY <3>1 DEF IsSteps
    <2>2. CASE i > Len(a)
      <3>1. i - Len(a) \in 1 .. Len(b) /\ s[i] = b[i - Len(a)] BY <1>4, <1>5, <2>2
      <3> QED BY <3>1 DEF IsSteps
    <2> QED BY <1>4, <1>5, <2>1, <2>2
  <1>7. IsSteps(s) BY <1>4, <1>6 DEF IsSteps
  <1> QED BY <1>4, <1>5, <1>7

LEMMA ConcatPlain ==
  ASSUME NEW a, NEW b, Plain(a), Plain(b)
  PROVE  Plain(a \o b)
  <1> DEFINE s == a \o b
  <1>1. IsSteps(a) /\ IsSteps(b) BY DEF Plain
  <1>2. /\ IsSteps(s)
        /\ Len(a) \in Nat /\ Len(b) \in Nat /\ Len(s) = Len(a) + Len(b)
        /\ \A i \in 1 .. Len(s) : s[i] = IF i <= Len(a) THEN a[i] ELSE b[i - Len(a)]
    BY <1>1, ConcatSteps
  <1>3. ASSUME NEW i \in 1 .. Len(s) PROVE s[i].do \notin Converting
    <2>1. CASE i <= Len(a)
      <3>1. i \in 1 .. Len(a) /\ s[i] = a[i] BY <1>2, <2>1
      <3> QED BY <3>1 DEF Plain
    <2>2. CASE i > Len(a)
      <3>1. i - Len(a) \in 1 .. Len(b) /\ s[i] = b[i - Len(a)] BY <1>2, <2>2
      <3> QED BY <3>1 DEF Plain
    <2> QED BY <1>2, <2>1, <2>2
  <1> QED BY <1>2, <1>3 DEF Plain

\* One step for each copy of a table.
LEMMA EachPlain ==
  ASSUME NEW x, InOrder(x), NEW s, DOMAIN s = DOMAIN x, s = [i \in DOMAIN s |-> s[i]],
         \A i \in DOMAIN x : s[i].fn \in DOMAIN Functions /\ s[i].do \notin Converting
  PROVE  Plain(s)
  <1>1. Len(x) \in Nat /\ DOMAIN x = 1 .. Len(x) BY DEF InOrder
  <1> DEFINE S == {s[i] : i \in 1 .. Len(x)}
  <1>2. s \in [1 .. Len(x) -> S] BY <1>1
  <1>3. s \in Seq(S) BY <1>1, <1>2, SeqDef
  <1>4. DOMAIN s = 1 .. Len(s) BY <1>3, LenProperties
  <1>5. \A i \in 1 .. Len(s) : i \in DOMAIN x BY <1>4
  <1> HIDE DEF S
  <1> QED BY <1>3, <1>5 DEF Plain, IsSteps

\* Behind the first step of what a thread has left come plain ones.
LEMMA TailPlain ==
  ASSUME NEW s, Pending(s), s # <<>>
  PROVE  Plain(Tail(s)) /\ Head(s).fn \in DOMAIN Functions
  <1>1. PICK S : s \in Seq(S) BY DEF Pending, IsSteps
  <1> DEFINE r == Tail(s)
  <1>2. Len(s) \in Nat \ {0} /\ Head(s) = s[1] BY <1>1, EmptySeq
  <1>3. /\ r \in Seq(S) /\ Len(r) = Len(s) - 1
        /\ \A i \in 1 .. Len(r) : r[i] = s[i + 1]
    BY <1>1, HeadTailProperties
  <1>4. \A i \in 1 .. Len(r) : i + 1 \in 1 .. Len(s) /\ i + 1 > 1 BY <1>2, <1>3
  <1>5. Plain(r)
    <2> HIDE DEF r
    <2> QED BY <1>3, <1>4 DEF Plain, Pending, IsSteps
  <1>6. 1 \in 1 .. Len(s) BY <1>2
  <1> QED BY <1>2, <1>5, <1>6 DEF Pending, IsSteps

LEMMA PlainPending ==
  ASSUME NEW s, Plain(s)
  PROVE  Pending(s) /\ (s # <<>> => Head(s).do \notin Converting)
  <1>1. Pending(s) BY DEF Plain, Pending
  <1>2. PICK S : s \in Seq(S) BY DEF Plain, IsSteps
  <1>3. ASSUME s # <<>> PROVE Head(s).do \notin Converting
    <2>1. Len(s) \in Nat \ {0} /\ Head(s) = s[1] BY <1>2, <1>3, EmptySeq
    <2> QED BY <2>1 DEF Plain
  <1> QED BY <1>1, <1>3

\* A step in front of plain ones.
LEMMA StepThenPlain ==
  ASSUME NEW x, x.fn \in DOMAIN Functions, NEW r, Plain(r)
  PROVE  Pending(<<x>> \o r) /\ <<x>> \o r # <<>> /\ Head(<<x>> \o r) = x
  <1> DEFINE s == <<x>> \o r
  <1>1. (\E S : <<x>> \in Seq(S)) /\ Len(<<x>>) = 1 /\ <<x>>[1] = x BY Singleton
  <1>2. IsSteps(<<x>>) BY <1>1 DEF IsSteps
  <1>3. IsSteps(r) BY DEF Plain
  <1>4. /\ IsSteps(s) /\ Len(r) \in Nat /\ Len(s) = 1 + Len(r)
        /\ \A i \in 1 .. Len(s) : s[i] = IF i <= 1 THEN <<x>>[i] ELSE r[i - 1]
    BY <1>1, <1>2, <1>3, ConcatSteps
  <1>5. 1 \in 1 .. Len(s) BY <1>4
  <1>6. s[1] = x BY <1>1, <1>4, <1>5
  <1>7. ASSUME NEW i \in 1 .. Len(s), i > 1 PROVE s[i].do \notin Converting
    <2>1. i - 1 \in 1 .. Len(r) /\ s[i] = r[i - 1] BY <1>4, <1>7
    <2> QED BY <2>1 DEF Plain
  <1>8. Pending(s) BY <1>4, <1>7 DEF Pending
  <1>9. s # <<>> /\ Head(s) = s[1]
    <2>1. PICK S : s \in Seq(S) BY <1>4 DEF IsSteps
    <2>2. s # <<>> BY <1>4, <2>1, EmptySeq
    <2> HIDE DEF s
    <2> QED BY <2>1, <2>2
  <1> QED BY <1>6, <1>8, <1>9

-----------------------------------------------------------------------------
(* What the driver puts in front is plain.                                   *)

LEMMA TracePlain ==
  ASSUME NEW fn \in DOMAIN Functions, NEW c, NEW ok \in BOOLEAN
  PROVE  Plain(Trace(fn, c, ok))
  <1> DEFINE asks == IF ok \/ Dumps[fn].type = "none" THEN <<>>
                     ELSE <<Do("diag", fn, DiagSlot(fn, c))>>
  <1>1. Plain(<<Do("dump", fn, c)>>) BY OneDoPlain DEF Converting
  <1>2. Plain(<<Do("diag", fn, DiagSlot(fn, c))>>) BY OneDoPlain DEF Converting
  <1>3. Plain(asks) BY <1>2, EmptyPlain
  <1>4. Plain(<<Do("dump", fn, c)>> \o asks) BY <1>1, <1>3, ConcatPlain
  <1> QED BY <1>4, EmptyPlain DEF Trace

LEMMA LeavePlain ==
  ASSUME NEW fn \in DOMAIN Functions, NEW c, NEW ok \in BOOLEAN
  PROVE  Plain(Leave(fn, c, ok))
  <1>1. Plain(Trace(fn, c, ok)) BY TracePlain
  <1>2. Plain(<<Do("unlock", fn, c)>>) /\ Plain(<<Do("init_unlock", fn, c)>>)
    BY OneDoPlain DEF Converting
  <1>3. Plain(Trace(fn, c, ok) \o <<Do("unlock", fn, c)>>) BY <1>1, <1>2, ConcatPlain
  <1>4. Plain(<<Do("init_unlock", fn, c)>> \o Trace(fn, c, ok)) BY <1>1, <1>2, ConcatPlain
  <1>5. CASE Lock(fn) = "none" BY <1>1, <1>5 DEF Leave
  <1>6. CASE Lock(fn) = "lock" BY <1>3, <1>6 DEF Leave
  <1>7. CASE Lock(fn) \notin {"none", "lock"}
    <2>1. Leave(fn, c, ok) = <<Do("init_unlock", fn, c)>> \o Trace(fn, c, ok) BY <1>7 DEF Leave
    <2> QED BY <1>4, <2>1
  <1> QED BY <1>5, <1>6, <1>7

LEMMA WorkPlain ==
  ASSUME NEW fn \in DOMAIN Functions, NEW c, NEW p
  PROVE  Plain(Work(fn, c, p))
  <1> DEFINE x == Conversions[fn].in
             in == [i \in DOMAIN x |-> Step("copyin", fn, SlotOf(x[i], c), x[i].param, 0)]
             text == IF Uses400(fn) THEN in ELSE <<>>
  <1>1. Plain(<<Step("open", fn, c, p, 0)>>) BY OnePlain DEF Converting
  <1>2. Plain(<<Do("db2", fn, c)>>) BY OneDoPlain DEF Converting
  <1>3. ASSUME Uses400(fn) PROVE Plain(in)
    <2>1. InOrder(x) BY <1>3, TablesAssumption DEF Uses400
    <2>2. /\ DOMAIN in = DOMAIN x /\ in = [i \in DOMAIN in |-> in[i]]
          /\ \A i \in DOMAIN x : in[i].fn \in DOMAIN Functions /\ in[i].do \notin Converting
      <3> HIDE DEF x
      <3> QED BY DEF Step, Converting
    <2> HIDE DEF x, in
    <2> QED BY <2>1, <2>2, EachPlain
  <1>4. Plain(text) BY <1>3, EmptyPlain
  <1>5. Plain(text \o <<Do("db2", fn, c)>>) BY <1>2, <1>4, ConcatPlain
  <1> QED BY <1>1, <1>5 DEF Work

\* The call of an exported function.
LEMMA EnterPlain ==
  ASSUME NEW fn \in DOMAIN Functions, NEW c, NEW p
  PROVE  Plain(Enter(fn, c, p))
  <1> DEFINE lock == IF Lock(fn) = "none" THEN <<>> ELSE <<Do(Lock(fn), fn, c)>>
  <1>1. Lock(fn) \notin Converting BY DEF Lock, Converting
  <1>2. Plain(<<Do(Lock(fn), fn, c)>>) BY <1>1, OneDoPlain
  <1>3. Plain(lock) BY <1>2, EmptyPlain
  <1>4. Plain(lock \o Work(fn, c, p)) BY <1>3, WorkPlain, ConcatPlain
  <1> QED BY <1>4 DEF Enter

\* What follows DB2's answer.
LEMMA AfterPlain ==
  ASSUME NEW fn \in DOMAIN Functions, NEW c, NEW ok \in BOOLEAN, NEW told \in BOOLEAN
  PROVE  Plain(After(fn, c, ok, told))
  <1> DEFINE x == Conversions[fn].out
             out == [i \in DOMAIN x |-> Step("copyout", fn, SlotOf(x[i], c), x[i].param, 0)]
             back == IF ok THEN out ELSE <<>>
             free == IF Conversions[fn].freed = <<>> THEN <<>> ELSE <<Do("free", fn, c)>>
             text == IF Uses400(fn) THEN free \o back ELSE <<>>
             env == IF fn \in {"SQLAllocEnv", "SQLAllocHandle"} /\ ok THEN <<Do("env", fn, 0)>> ELSE <<>>
  <1>1. Plain(<<Do("free", fn, c)>>) /\ Plain(<<Do("env", fn, 0)>>) BY OneDoPlain DEF Converting
  <1>2. ASSUME Uses400(fn) PROVE Plain(out)
    <2>1. InOrder(x) BY <1>2, TablesAssumption DEF Uses400
    <2>2. /\ DOMAIN out = DOMAIN x /\ out = [i \in DOMAIN out |-> out[i]]
          /\ \A i \in DOMAIN x : out[i].fn \in DOMAIN Functions /\ out[i].do \notin Converting
      <3> HIDE DEF x
      <3> QED BY DEF Do, Step, Converting
    <2> HIDE DEF x, out
    <2> QED BY <2>1, <2>2, EachPlain
  <1>3. ASSUME Uses400(fn) PROVE Plain(free \o back)
    <2>1. Plain(back) BY <1>2, <1>3, EmptyPlain
    <2>2. Plain(free) BY <1>1, EmptyPlain
    <2> QED BY <2>1, <2>2, ConcatPlain
  <1>4. Plain(text) BY <1>3, EmptyPlain
  <1>5. Plain(env) BY <1>1, EmptyPlain
  <1>6. Plain(Leave(fn, c, told)) BY LeavePlain
  <1>7. Plain(text \o env) BY <1>4, <1>5, ConcatPlain
  <1>8. Plain((text \o env) \o Leave(fn, c, told)) BY <1>6, <1>7, ConcatPlain
  <1>9. After(fn, c, ok, told) = (text \o env) \o Leave(fn, c, told) BY DEF After
  <1> QED BY <1>8, <1>9

-----------------------------------------------------------------------------
(* Steps that leave the converters alone                                     *)

\* A thread that is not inside iconv puts plain steps in front of what it had left
\* behind the step it takes.
LEMMA QuietStep ==
  ASSUME CInv, NEW t \in Threads, UNCHANGED <<setting, converter>>,
         NEW more, Plain(more), todo' = [todo EXCEPT ![t] = more],
         ~At(t, "iconv")
  PROVE  CInv'
  <1> USE DEF CInv
  <1>1. todo = [u \in Threads |-> todo[u]] BY DEF ConverterTypes
  <1>2. /\ todo'[t] = more /\ todo' = [u \in Threads |-> todo'[u]]
        /\ \A u \in Threads : u # t => todo'[u] = todo[u]
    BY <1>1
  <1>3. Pending(more) /\ (more # <<>> => Head(more).do \notin Converting) BY PlainPending
  <1>4. ConverterTypes' BY <1>2, <1>3 DEF ConverterTypes
  <1>5. ~At(t, "convert")' /\ ~At(t, "iconv")' BY <1>2, <1>3 DEF At, Converting
  <1>6. \A u \in Threads : u # t =>
          /\ At(u, "convert")' <=> At(u, "convert")
          /\ At(u, "iconv")' <=> At(u, "iconv")
    BY <1>2 DEF At
  <1>7. Chosen' BY <1>2, <1>5, <1>6 DEF Chosen
  <1>8. Owned' BY <1>2, <1>5, <1>6 DEF Owned
  <1>9. MarkedByOwner'
    <2> SUFFICES ASSUME NEW i \in 1 .. setting.pool, converter[i].in_progress
                 PROVE  \E u \in Threads : At(u, "iconv")' /\ Head(todo'[u]).i = i
      BY DEF MarkedByOwner
    <2>1. PICK u \in Threads : At(u, "iconv") /\ Head(todo[u]).i = i BY DEF MarkedByOwner
    <2>2. u # t BY <2>1
    <2> QED BY <1>2, <1>6, <2>1, <2>2
  <1>10. ConvertersBounded' BY DEF ConvertersBounded
  <1> QED BY <1>4, <1>7, <1>8, <1>9, <1>10

LEMMA QuietThen ==
  ASSUME CInv, NEW t \in Threads, UNCHANGED <<setting, converter>>,
         todo[t] # <<>>, Head(todo[t]).do \notin Converting,
         NEW more, Plain(more), Then(t, more)
  PROVE  CInv'
  <1>1. Pending(todo[t]) BY DEF CInv, ConverterTypes
  <1>2. Plain(more \o Tail(todo[t])) BY <1>1, TailPlain, ConcatPlain
  <1>3. todo' = [todo EXCEPT ![t] = more \o Tail(todo[t])] BY DEF Then
  <1>4. ~At(t, "iconv") BY DEF At, Converting
  <1> QED BY <1>2, <1>3, <1>4, QuietStep

\* Calls, locks, DB2, the trace and the copies.
LEMMA QuietActions ==
  ASSUME CInv, NEW t \in Threads,
         \/ TableLock(t) \/ TableUnlock(t) \/ InitLock(t) \/ InitUnlock(t)
         \/ Db2Answers(t) \/ SetEnvCCSID(t) \/ Dump(t) \/ Diag(t)
         \/ CopyIn(t) \/ CopyOut(t) \/ CopyFree(t) \/ Refuse(t)
  PROVE  CInv'
  <1> DEFINE s == Head(todo[t])
  <1>1. todo[t] # <<>> /\ s.do \notin Converting /\ UNCHANGED <<setting, converter>>
    BY DEF TableLock, TableUnlock, InitLock, InitUnlock, Db2Answers, SetEnvCCSID, Dump, Diag,
           CopyIn, CopyOut, CopyFree, Refuse, At, Converting
  <1>2. Pending(todo[t]) BY DEF CInv, ConverterTypes
  <1>3. s.fn \in DOMAIN Functions BY <1>1, <1>2, TailPlain
  <1>4. PICK more : Plain(more) /\ Then(t, more)
    <2>1. CASE \/ TableLock(t) \/ TableUnlock(t) \/ InitLock(t) \/ InitUnlock(t)
               \/ Dump(t) \/ CopyFree(t)
      <3>1. Then(t, <<>>) BY <2>1 DEF TableLock, TableUnlock, InitLock, InitUnlock, Dump, CopyFree
      <3> QED BY <3>1, EmptyPlain
    <2>2. CASE Db2Answers(t)
      <3>1. PICK ok \in BOOLEAN : \E told \in BOOLEAN : Then(t, After(s.fn, s.c, ok, told))
        BY <2>2 DEF Db2Answers, Told
      <3> QED BY <1>3, <3>1, AfterPlain
    <2>3. CASE SetEnvCCSID(t)
      <3>1. "SQLSetEnvAttr" \in DOMAIN Functions BY TablesAssumption
      <3>2. Plain(<<Do("db2", "SQLSetEnvAttr", 0)>>) BY <3>1, OneDoPlain DEF Converting
      <3>3. Then(t, <<Do("db2", "SQLSetEnvAttr", 0)>>) BY <2>3 DEF SetEnvCCSID
      <3> QED BY <3>2, <3>3
    <2>4. CASE Diag(t)
      <3>1. "SQLGetDiagRec" \in DOMAIN Functions BY TablesAssumption
      <3>2. Then(t, Enter("SQLGetDiagRec", s.c, "")) BY <2>4 DEF Diag
      <3> QED BY <3>1, <3>2, EnterPlain
    <2>5. CASE CopyIn(t)
      <3>1. "SQL400IgnoreNullAnyToAny" \in DOMAIN Functions BY TablesAssumption
      <3>2. Then(t, Enter("SQL400IgnoreNullAnyToAny", s.c, s.p)) \/ Then(t, <<>>)
        BY <2>5 DEF CopyIn
      <3> QED BY <3>1, <3>2, EnterPlain, EmptyPlain
    <2>6. CASE CopyOut(t)
      <3>1. "SQL400IgnoreNullAnyFromAny" \in DOMAIN Functions BY TablesAssumption
      <3>2. Then(t, Enter("SQL400IgnoreNullAnyFromAny", s.c, s.p)) \/ Then(t, <<>>)
        BY <2>6 DEF CopyOut
      <3> QED BY <3>1, <3>2, EnterPlain, EmptyPlain
    <2>7. CASE Refuse(t)
      <3>1. Then(t, Leave(s.fn, s.c, FALSE)) BY <2>7 DEF Refuse
      <3> QED BY <1>3, <3>1, LeavePlain
    <2> QED BY <2>1, <2>2, <2>3, <2>4, <2>5, <2>6, <2>7
  <1> QED BY <1>1, <1>4, QuietThen

\* A client's call is one of its menu.
LEMMA CallKeeps == ASSUME CInv, NEW t \in Threads, Call(t) PROVE CInv'
  <1>1. setting \in Settings /\ todo = [u \in Threads |-> todo[u]]
    BY DEF CInv, ConverterTypes
  <1>2. PICK call \in setting.menu[t] : todo' = [todo EXCEPT ![t] = Enter(call[1], call[2], "")]
    BY DEF Call
  <1>3. call[1] \in DOMAIN Functions BY <1>1, <1>2, PathAssumption
  <1>4. Plain(Enter(call[1], call[2], "")) BY <1>3, EnterPlain
  <1>5. ~At(t, "iconv") BY DEF Call, At
  <1>6. UNCHANGED <<setting, converter>> BY DEF Call
  <1> QED BY <1>2, <1>4, <1>5, <1>6, QuietStep

-----------------------------------------------------------------------------
(* The converters                                                            *)

\* The converters of a pair in a table of converters.
OfPair(conv, pair) == {i \in DOMAIN conv : conv[i].pair = pair}

LEMMA LowestIn ==
  ASSUME NEW S, S \subseteq Nat, S # {}
  PROVE  Lowest(S) \in S
  <1>1. PICK i \in S : \A j \in S : ~(<<j, i>> \in OpToRel(<, Nat))
    BY NatLessThanWellFounded, WFMin
  <1>2. \A j \in S : i <= j
    <2> SUFFICES ASSUME NEW j \in S PROVE i <= j OBVIOUS
    <2>1. i \in Nat /\ j \in Nat OBVIOUS
    <2>2. ~(j < i) BY <1>1, <2>1 DEF OpToRel
    <2> QED BY <2>1, <2>2
  <1> QED BY <1>1, <1>2 DEF Lowest

\* Where every converter of a pair is marked, each is by a thread of its own inside
\* iconv: a thread that is not leaves room for one more.
LEMMA RoomForOneMore ==
  ASSUME CInv, NEW t \in Threads, ~At(t, "iconv"), NEW pair,
         \A i \in OfPair(converter, pair) : converter[i].in_progress
  PROVE  IsFiniteSet(OfPair(converter, pair)) /\ Cardinality(OfPair(converter, pair)) + 1 <= Cardinality(Threads)
  <1> DEFINE S == OfPair(converter, pair)
             T == Threads \ {t}
             f == [i \in S |-> CHOOSE u \in Threads : At(u, "iconv") /\ Head(todo[u]).i = i]
  <1>1. \A i \in S : f[i] \in Threads /\ At(f[i], "iconv") /\ Head(todo[f[i]]).i = i
    <2> SUFFICES ASSUME NEW i \in S
                 PROVE  f[i] \in Threads /\ At(f[i], "iconv") /\ Head(todo[f[i]]).i = i
      OBVIOUS
    <2>1. \E u \in Threads : At(u, "iconv") /\ Head(todo[u]).i = i
      BY DEF OfPair, CInv, ConverterTypes, MarkedByOwner
    <2>2. f[i] = CHOOSE u \in Threads : At(u, "iconv") /\ Head(todo[u]).i = i OBVIOUS
    <2> HIDE DEF f
    <2> QED BY <2>1, <2>2
  <1>2. f \in [S -> T]
    <2>1. \A i \in S : f[i] \in T BY <1>1
    <2>2. f = [i \in S |-> f[i]] OBVIOUS
    <2> HIDE DEF f, S, T
    <2> QED BY <2>1, <2>2
  <1>3. \A i, j \in S : f[i] = f[j] => i = j BY <1>1
  <1>4. f \in Injection(S, T)
    <2> HIDE DEF f, S, T
    <2> QED BY <1>2, <1>3 DEF Injection, IsInjective
  <1>5. IsFiniteSet(Threads) BY PathAssumption
  <1>6. IsFiniteSet(T) /\ Cardinality(T) = Cardinality(Threads) - 1 BY <1>5, FS_RemoveElement
  <1>7. IsFiniteSet(S) /\ Cardinality(S) <= Cardinality(T)
    <2> HIDE DEF f, S, T
    <2> QED BY <1>4, <1>6, FS_Injection
  <1>8. Cardinality(S) \in Nat /\ Cardinality(Threads) \in Nat BY <1>5, <1>7, FS_CardinalityType
  <1> QED BY <1>6, <1>7, <1>8

\* What ConvertersBounded says of a table of converters, pair by pair.
LEMMA BoundedByPair ==
  ASSUME NEW conf \in Settings, NEW D, NEW conv \in [D -> Converter(conf)]
  PROVE  (\A i \in DOMAIN conv :
            Cardinality({j \in DOMAIN conv : conv[j].pair = conv[i].pair /\
                                             conv[j].pair # "none"}) <= Cardinality(Threads))
         <=> \A pair \in Pairs(conf) : OfPair(conv, pair) # {} =>
               Cardinality(OfPair(conv, pair)) <= Cardinality(Threads)
  <1> DEFINE Alike(i) == {j \in DOMAIN conv : conv[j].pair = conv[i].pair /\
                                              conv[j].pair # "none"}
             Small(S) == Cardinality(S) <= Cardinality(Threads)
  <1>0. "none" \notin Pairs(conf) BY PathAssumption DEF Pairs
  <1>1. ASSUME NEW pair \in Pairs(conf), NEW i \in OfPair(conv, pair) PROVE Alike(i) = OfPair(conv, pair)
    BY <1>0, <1>1 DEF OfPair
  <1>2. ASSUME NEW i \in DOMAIN conv, conv[i].pair = "none" PROVE Alike(i) = {}
    BY <1>2
  <1>3. Small({}) BY FS_EmptySet, PathAssumption, FS_CardinalityType
  <1>4. \A i \in DOMAIN conv : conv[i].pair \in Pairs(conf) \cup {"none"} BY DEF Converter
  <1>5. ASSUME NEW i \in DOMAIN conv, conv[i].pair # "none"
        PROVE  conv[i].pair \in Pairs(conf) /\ i \in OfPair(conv, conv[i].pair)
    BY <1>4, <1>5 DEF OfPair
  <1>6. \A pair : \A i \in OfPair(conv, pair) : i \in DOMAIN conv BY DEF OfPair
  <1> HIDE DEF Alike, Small
  <1>7. (\A i \in DOMAIN conv : Small(Alike(i)))
        <=> \A pair \in Pairs(conf) : OfPair(conv, pair) # {} => Small(OfPair(conv, pair))
    <2>1. ASSUME \A i \in DOMAIN conv : Small(Alike(i)), NEW pair \in Pairs(conf), OfPair(conv, pair) # {}
          PROVE  Small(OfPair(conv, pair))
      <3>1. PICK i : i \in OfPair(conv, pair) BY <2>1
      <3>2. Small(Alike(i)) BY <1>6, <2>1, <3>1
      <3> QED BY <1>1, <3>1, <3>2
    <2>2. ASSUME \A pair \in Pairs(conf) : OfPair(conv, pair) # {} => Small(OfPair(conv, pair)),
                 NEW i \in DOMAIN conv
          PROVE  Small(Alike(i))
      <3>1. CASE conv[i].pair = "none" BY <1>2, <1>3, <3>1
      <3>2. CASE conv[i].pair # "none"
        <4>1. Small(OfPair(conv, conv[i].pair)) BY <1>5, <2>2, <3>2
        <4> QED BY <1>1, <1>5, <3>2, <4>1
      <3> QED BY <3>1, <3>2
    <2> QED BY <2>1, <2>2
  <1> QED BY <1>7 DEF Alike, Small

\* The mutex operators return mutexes.
LEMMA MutexLocked ==
  ASSUME NEW mx \in Mutex, NEW t \in Threads
  PROVE  Locked(mx, t) \in Mutex /\ Locked(mx, t).owner = t
  <1>1. mx.count \in Nat BY DEF Mutex, FreeMutex
  <1> QED BY <1>1 DEF Mutex, Locked

LEMMA MutexUnlocked ==
  ASSUME NEW mx \in Mutex, NEW t \in Threads
  PROVE  Unlocked(mx, t) \in Mutex
  <1>1. mx.count \in Nat BY DEF Mutex, FreeMutex
  <1> QED BY <1>1 DEF Mutex, Unlocked

\* A step that changes the pair of no converter keeps their number.
LEMMA SamePairsBounded ==
  ASSUME CInv, converter' \in [1 .. setting.pool -> Converter(setting)],
         \A i \in 1 .. setting.pool : converter'[i].pair = converter[i].pair
  PROVE  ConvertersBounded'
  <1>0. converter \in [1 .. setting.pool -> Converter(setting)] /\ setting \in Settings
    BY DEF CInv, ConverterTypes
  <1>1. \A pair : OfPair(converter', pair) = OfPair(converter, pair) BY <1>0 DEF OfPair
  <1>2. \A pair \in Pairs(setting) : OfPair(converter, pair) # {} =>
          Cardinality(OfPair(converter, pair)) <= Cardinality(Threads)
    BY <1>0, BoundedByPair DEF CInv, ConvertersBounded
  <1>3. \A pair \in Pairs(setting) : OfPair(converter', pair) # {} =>
          Cardinality(OfPair(converter', pair)) <= Cardinality(Threads)
    BY <1>1, <1>2
  <1> QED BY <1>0, <1>3, BoundedByPair DEF ConvertersBounded

\* A converter is chosen: one of the pair nobody has marked, or a new one when
\* every other of the pair is marked.
LEMMA OpenKeeps == ASSUME CInv, NEW t \in Threads, OpenConverter(t) PROVE CInv'
  <1> USE DEF CInv
  <1> DEFINE s == Head(todo[t])
             pair == Pair(s.fn)
             S == IF Idle(pair) # {} THEN Idle(pair) ELSE Unopened
             i == Lowest(S)
             x == Step("convert", s.fn, s.c, s.p, i)
  <1>0. /\ todo[t] # <<>> /\ s.do = "open" /\ setting' = setting /\ setting \in Settings
        /\ converter \in [1 .. setting.pool -> Converter(setting)]
        /\ todo = [u \in Threads |-> todo[u]] /\ Pending(todo[t])
        /\ ~At(t, "iconv") /\ ~At(t, "convert")
    BY DEF OpenConverter, At, ConverterTypes
  <1>1. s.fn \in DOMAIN Functions /\ Plain(Tail(todo[t])) BY <1>0, TailPlain
  <1>2. CASE S = {}
    <2>1. Then(t, Leave(s.fn, s.c, FALSE)) /\ UNCHANGED <<setting, converter>>
      BY <1>2 DEF OpenConverter
    <2>2. Plain(Leave(s.fn, s.c, FALSE)) BY <1>1, LeavePlain
    <2> QED BY <1>0, <2>1, <2>2, QuietThen DEF Converting
  <1>3. CASE S # {}
    <2>1. /\ converter' = [converter EXCEPT ![i].pair = pair]
          /\ todo' = [todo EXCEPT ![t] = <<x>> \o Tail(todo[t])]
      BY <1>3 DEF OpenConverter, Then
    <2>2. setting.pool \in Nat BY <1>0, PathAssumption
    <2>3. S \subseteq 1 .. setting.pool BY <1>0 DEF Idle, Unopened
    <2>4. i \in 1 .. setting.pool /\ i \in S
      <3>1. S \subseteq Nat BY <2>2, <2>3
      <3> HIDE DEF S
      <3> QED BY <1>3, <2>3, <3>1, LowestIn
    <2>5. pair \in Pairs(setting) BY DEF Pair, Pairs
    <2>6. x.fn = s.fn /\ x.do = "convert" /\ x.i = i BY DEF Step
    <2> HIDE DEF x, i, pair, S
    <2>7. /\ converter' \in [1 .. setting.pool -> Converter(setting)]
          /\ \A j \in 1 .. setting.pool :
               /\ converter'[j].in_progress = converter[j].in_progress
               /\ converter'[j].lock = converter[j].lock
               /\ converter'[j].pair = IF j = i THEN pair ELSE converter[j].pair
      BY <1>0, <2>1, <2>4, <2>5 DEF Converter
    <2>8. /\ Pending(<<x>> \o Tail(todo[t])) /\ <<x>> \o Tail(todo[t]) # <<>>
          /\ Head(<<x>> \o Tail(todo[t])) = x
      BY <1>1, <2>6, StepThenPlain
    <2>9. /\ todo'[t] = <<x>> \o Tail(todo[t]) /\ todo' = [u \in Threads |-> todo'[u]]
          /\ \A u \in Threads : u # t => todo'[u] = todo[u]
      BY <1>0, <2>1
    <2>10. ConverterTypes' BY <1>0, <2>7, <2>8, <2>9 DEF ConverterTypes
    <2>11. ~At(t, "iconv")' /\ Head(todo'[t]).i = i BY <2>6, <2>8, <2>9 DEF At
    <2>12. \A u \in Threads : u # t =>
             /\ At(u, "convert")' <=> At(u, "convert")
             /\ At(u, "iconv")' <=> At(u, "iconv")
      BY <2>9 DEF At
    <2>13. Chosen' BY <1>0, <2>4, <2>9, <2>11, <2>12 DEF Chosen
    <2>14. Owned' BY <2>7, <2>9, <2>11, <2>12 DEF Owned, Chosen
    <2>15. MarkedByOwner'
      <3> SUFFICES ASSUME NEW j \in 1 .. setting.pool, converter'[j].in_progress
                   PROVE  \E u \in Threads : At(u, "iconv")' /\ Head(todo'[u]).i = j
        BY <1>0 DEF MarkedByOwner
      <3>1. PICK u \in Threads : At(u, "iconv") /\ Head(todo[u]).i = j BY <2>7 DEF MarkedByOwner
      <3>2. u # t BY <1>0, <3>1
      <3> QED BY <2>9, <2>12, <3>1, <3>2
    <2>16. ConvertersBounded'
      <3> DEFINE O(q) == OfPair(converter, q)
      <3>1. \A q \in Pairs(setting) : O(q) # {} => Cardinality(O(q)) <= Cardinality(Threads)
        BY <1>0, BoundedByPair DEF ConvertersBounded
      <3>2. CASE converter[i].pair = pair
        <4>1. \A j \in 1 .. setting.pool : converter'[j].pair = converter[j].pair BY <2>7, <3>2
        <4> QED BY <2>7, <4>1, SamePairsBounded
      <3>3. CASE converter[i].pair # pair
        <4>1. Idle(pair) = {} /\ converter[i].pair = "none"
          BY <2>4, <3>3 DEF S, Idle, Unopened
        <4>2. \A j \in O(pair) : converter[j].in_progress
          BY <1>0, <4>1 DEF Idle, OfPair, Converter
        <4>3. IsFiniteSet(O(pair)) /\ Cardinality(O(pair)) + 1 <= Cardinality(Threads)
          BY <1>0, <4>2, RoomForOneMore
        <4>4. i \notin O(pair) BY <3>3 DEF OfPair
        <4>5. OfPair(converter', pair) = O(pair) \cup {i}
          BY <1>0, <2>4, <2>7 DEF OfPair
        <4>6. Cardinality(OfPair(converter', pair)) = Cardinality(O(pair)) + 1
          BY <4>3, <4>4, <4>5, FS_AddElement
        <4>7. \A q \in Pairs(setting) : q # pair => OfPair(converter', q) = O(q)
          <5>1. "none" \notin Pairs(setting) BY <1>0, PathAssumption DEF Pairs
          <5> QED BY <1>0, <2>4, <2>7, <4>1, <5>1 DEF OfPair
        <4> HIDE DEF O
        <4>8. \A q \in Pairs(setting) : OfPair(converter', q) # {} =>
                Cardinality(OfPair(converter', q)) <= Cardinality(Threads)
          BY <3>1, <4>3, <4>6, <4>7
        <4> QED BY <1>0, <2>7, <4>8, BoundedByPair DEF ConvertersBounded
      <3> QED BY <3>2, <3>3
    <2> QED BY <2>10, <2>13, <2>14, <2>15, <2>16
  <1> QED BY <1>2, <1>3

\* The mutex of the converter keeps a second thread out of iconv.
LEMMA ConvertKeeps == ASSUME CInv, NEW t \in Threads, Convert(t) PROVE CInv'
  <1> USE DEF CInv
  <1> DEFINE s == Head(todo[t])
             i == s.i
             x == Step("iconv", s.fn, s.c, s.p, s.i)
  <1>0. /\ todo[t] # <<>> /\ At(t, "convert") /\ setting' = setting /\ setting \in Settings
        /\ converter \in [1 .. setting.pool -> Converter(setting)]
        /\ todo = [u \in Threads |-> todo[u]] /\ Pending(todo[t])
        /\ ~At(t, "iconv")
        /\ MayLock(converter[i].lock, t)
        /\ converter' = [converter EXCEPT ![i].lock = Locked(@, t), ![i].in_progress = TRUE]
        /\ todo' = [todo EXCEPT ![t] = <<x>> \o Tail(todo[t])]
    BY DEF Convert, At, ConverterTypes, MayConvert, Then
  <1>1. s.fn \in DOMAIN Functions /\ Plain(Tail(todo[t])) BY <1>0, TailPlain
  <1>2. i \in 1 .. setting.pool BY <1>0 DEF Chosen
  <1>3. x.fn = s.fn /\ x.do = "iconv" /\ x.i = i BY DEF Step
  <1>4. converter[i].lock \in Mutex BY <1>0, <1>2 DEF Converter
  <1>5. Locked(converter[i].lock, t) \in Mutex /\ Locked(converter[i].lock, t).owner = t
    BY <1>4, MutexLocked
  <1> HIDE DEF x, i, s
  <1>6. /\ converter' \in [1 .. setting.pool -> Converter(setting)]
        /\ converter'[i].lock.owner = t
        /\ \A j \in 1 .. setting.pool : /\ converter'[j].pair = converter[j].pair
                                        /\ j # i => converter'[j] = converter[j]
    BY <1>0, <1>2, <1>5 DEF Converter
  <1>7. /\ Pending(<<x>> \o Tail(todo[t])) /\ <<x>> \o Tail(todo[t]) # <<>>
        /\ Head(<<x>> \o Tail(todo[t])) = x
    BY <1>1, <1>3, StepThenPlain
  <1>8. /\ todo'[t] = <<x>> \o Tail(todo[t]) /\ todo' = [u \in Threads |-> todo'[u]]
        /\ \A u \in Threads : u # t => todo'[u] = todo[u]
    BY <1>0
  <1>9. ConverterTypes' BY <1>0, <1>6, <1>7, <1>8 DEF ConverterTypes
  <1>10. At(t, "iconv")' /\ Head(todo'[t]).i = i BY <1>3, <1>7, <1>8 DEF At
  <1>11. \A u \in Threads : u # t =>
           /\ At(u, "convert")' <=> At(u, "convert")
           /\ At(u, "iconv")' <=> At(u, "iconv")
    BY <1>8 DEF At
  <1>12. Chosen' BY <1>0, <1>2, <1>8, <1>10, <1>11 DEF Chosen
  <1>13. Owned'
    <2> SUFFICES ASSUME NEW u \in Threads, At(u, "iconv")'
                 PROVE  converter'[Head(todo'[u]).i].lock.owner = u
      BY DEF Owned
    <2>1. CASE u = t BY <1>6, <1>10, <2>1
    <2>2. CASE u # t
      <3> DEFINE j == Head(todo[u]).i
      <3>1. At(u, "iconv") /\ todo'[u] = todo[u] BY <1>8, <1>11, <2>2
      <3>2. converter[j].lock.owner = u /\ j \in 1 .. setting.pool BY <3>1 DEF Owned, Chosen
      <3>3. j # i BY <1>0, <2>2, <3>2, TableAssumption DEF MayLock
      <3> QED BY <1>6, <3>1, <3>2, <3>3
    <2> QED BY <2>1, <2>2
  <1>14. MarkedByOwner'
    <2> SUFFICES ASSUME NEW j \in 1 .. setting.pool, converter'[j].in_progress
                 PROVE  \E u \in Threads : At(u, "iconv")' /\ Head(todo'[u]).i = j
      BY <1>0 DEF MarkedByOwner
    <2>1. CASE j = i BY <1>10, <2>1
    <2>2. CASE j # i
      <3>1. PICK u \in Threads : At(u, "iconv") /\ Head(todo[u]).i = j BY <1>6, <2>2 DEF MarkedByOwner
      <3>2. u # t BY <1>0, <3>1
      <3> QED BY <1>8, <1>11, <3>1, <3>2
    <2> QED BY <2>1, <2>2
  <1>15. ConvertersBounded' BY <1>6, SamePairsBounded
  <1> QED BY <1>9, <1>12, <1>13, <1>14, <1>15

\* The mark goes before the mutex: nobody else is inside iconv with the converter.
LEMMA IconvKeeps == ASSUME CInv, NEW t \in Threads, IconvReturns(t) PROVE CInv'
  <1> USE DEF CInv
  <1> DEFINE s == Head(todo[t])
             i == s.i
  <1>0. /\ todo[t] # <<>> /\ At(t, "iconv") /\ setting' = setting /\ setting \in Settings
        /\ converter \in [1 .. setting.pool -> Converter(setting)]
        /\ todo = [u \in Threads |-> todo[u]] /\ Pending(todo[t])
        /\ converter' = [converter EXCEPT ![i] = Released(converter[i], t)]
    BY DEF IconvReturns, At, ConverterTypes
  <1>16. PICK ok \in BOOLEAN : Then(t, Leave(s.fn, s.c, ok))
    BY <1>0, PathAssumption DEF IconvReturns
  <1> DEFINE more == Leave(s.fn, s.c, ok) \o Tail(todo[t])
  <1>17. todo' = [todo EXCEPT ![t] = more] BY <1>16 DEF Then
  <1>1. Plain(more) BY <1>0, TailPlain, LeavePlain, ConcatPlain
  <1>2. Pending(more) /\ (more # <<>> => Head(more).do \notin Converting) BY <1>1, PlainPending
  <1>3. i \in 1 .. setting.pool BY <1>0 DEF Chosen
  <1>4. converter[i].lock \in Mutex BY <1>0, <1>3 DEF Converter
  <1>5. Unlocked(converter[i].lock, t) \in Mutex BY <1>4, MutexUnlocked
  <1> HIDE DEF more, i, s
  <1>6. /\ converter' \in [1 .. setting.pool -> Converter(setting)]
        /\ converter'[i].in_progress = FALSE
        /\ \A j \in 1 .. setting.pool : /\ converter'[j].pair = converter[j].pair
                                        /\ j # i => converter'[j] = converter[j]
    BY <1>0, <1>3, <1>5 DEF Converter, Released
  <1>7. /\ todo'[t] = more /\ todo' = [u \in Threads |-> todo'[u]]
        /\ \A u \in Threads : u # t => todo'[u] = todo[u]
    BY <1>0, <1>17
  <1>8. ConverterTypes' BY <1>0, <1>2, <1>6, <1>7 DEF ConverterTypes
  <1>9. ~At(t, "convert")' /\ ~At(t, "iconv")' BY <1>2, <1>7 DEF At, Converting
  <1>10. \A u \in Threads : u # t =>
           /\ At(u, "convert")' <=> At(u, "convert")
           /\ At(u, "iconv")' <=> At(u, "iconv")
    BY <1>7 DEF At
  <1>11. Chosen' BY <1>0, <1>7, <1>9, <1>10 DEF Chosen
  <1>12. converter[i].lock.owner = t /\ Head(todo[t]).i = i BY <1>0 DEF Owned, i, s
  <1>13. Owned'
    <2> SUFFICES ASSUME NEW u \in Threads, At(u, "iconv")'
                 PROVE  converter'[Head(todo'[u]).i].lock.owner = u
      BY DEF Owned
    <2> DEFINE j == Head(todo[u]).i
    <2>1. u # t /\ At(u, "iconv") /\ todo'[u] = todo[u] BY <1>7, <1>9, <1>10
    <2>2. converter[j].lock.owner = u /\ j \in 1 .. setting.pool BY <2>1 DEF Owned, Chosen
    <2>3. j # i BY <1>12, <2>1, <2>2
    <2> QED BY <1>6, <2>1, <2>2, <2>3
  <1>14. MarkedByOwner'
    <2> SUFFICES ASSUME NEW j \in 1 .. setting.pool, converter'[j].in_progress
                 PROVE  \E u \in Threads : At(u, "iconv")' /\ Head(todo'[u]).i = j
      BY <1>0 DEF MarkedByOwner
    <2>1. j # i BY <1>6
    <2>2. PICK u \in Threads : At(u, "iconv") /\ Head(todo[u]).i = j BY <1>6, <2>1 DEF MarkedByOwner
    <2>3. u # t BY <1>12, <2>1, <2>2
    <2> QED BY <1>7, <1>10, <2>2, <2>3
  <1>15. ConvertersBounded' BY <1>6, SamePairsBounded
  <1> QED BY <1>8, <1>11, <1>13, <1>14, <1>15
-----------------------------------------------------------------------------
(* The generated tables                                                      *)

\* Every function that is not known to do without takes the lock of its connection.
Serialised ==
  {SQLBindCol, SQLBindFileToCol, SQLBindFileToParam, SQLBindParam, SQLBindParameter,
   SQLCancel, SQLCloseCursor, SQLColAttribute, SQLColAttributes, SQLColumnPrivileges,
   SQLColumnPrivilegesW, SQLColumns, SQLColumnsW, SQLConnect, SQLCopyDesc, SQLDescribeCol,
   SQLDescribeColW, SQLDescribeParam, SQLDisconnect, SQLDriverConnect, SQLDriverConnectW,
   SQLExecDirect, SQLExecute, SQLExtendedFetch, SQLFetch, SQLFetchScroll, SQLForeignKeys,
   SQLForeignKeysW, SQLGetCol, SQLGetConnectAttr, SQLGetConnectOption, SQLGetCursorName,
   SQLGetData, SQLGetDescField, SQLGetDescRec, SQLGetDescRecW, SQLGetFunctions, SQLGetInfo,
   SQLGetLength, SQLGetPosition, SQLGetPositionW, SQLGetStmtAttr, SQLGetStmtOption,
   SQLGetSubString, SQLGetSubStringW, SQLGetTypeInfo, SQLLanguages, SQLMoreResults,
   SQLNativeSql, SQLNextResult, SQLNumParams, SQLNumResultCols, SQLParamData,
   SQLParamOptions, SQLPrepare, SQLPrimaryKeys, SQLProcedureColumns, SQLProcedureColumnsW,
   SQLProcedures, SQLPutData, SQLRowCount, SQLSetConnectAttr, SQLSetConnectOption,
   SQLSetCursorName, SQLSetDescField, SQLSetDescRec, SQLSetParam, SQLSetStmtAttr,
   SQLSetStmtOption, SQLSpecialColumns, SQLSpecialColumnsW, SQLStatistics, SQLStatisticsW,
   SQLTablePrivileges, SQLTables, SQLTablesW, SQL400Stmt2Hdbc, SQL400Close, SQL400pClose,
   SQL400CloseAllStmts, SQL400Cmd, SQL400ChgLibl, SQL400ChgCurLib, SQL400ToUtf8,
   SQL400FromUtf8, SQL400ToUtf16, SQL400FromUtf16, SQL400IgnoreNullToUtf8,
   SQL400IgnoreNullFromUtf8, SQL400IgnoreNullToUtf16, SQL400IgnoreNullFromUtf16,
   SQL400AnyToAny, SQL400AnyFromAny, SQL400IgnoreNullAnyToAny, SQL400IgnoreNullAnyFromAny,
   SQL400Json}

LEMMA SerialisedLock ==
  ASSUME NEW fn \in DOMAIN Functions, fn \notin Unserialised
  PROVE  Lock(fn) = "lock"
  <1>1. \A f \in Serialised : f.locks \in {"stmt", "conn"}
    BY DEF Serialised, Exported, OnStmt, OnConn, OnConnUnlessPersistent, CustomOnStmt, CustomOnConn,
           SQLBindCol, SQLBindFileToCol, SQLBindFileToParam, SQLBindParam, SQLBindParameter,
           SQLCancel, SQLCloseCursor, SQLColAttribute, SQLColAttributes,
           SQLColumnPrivileges, SQLColumnPrivilegesW, SQLColumns, SQLColumnsW, SQLConnect,
           SQLCopyDesc, SQLDescribeCol, SQLDescribeColW, SQLDescribeParam, SQLDisconnect,
           SQLDriverConnect, SQLDriverConnectW, SQLExecDirect, SQLExecute, SQLExtendedFetch,
           SQLFetch, SQLFetchScroll, SQLForeignKeys, SQLForeignKeysW, SQLGetCol,
           SQLGetConnectAttr, SQLGetConnectOption, SQLGetCursorName, SQLGetData,
           SQLGetDescField, SQLGetDescRec, SQLGetDescRecW, SQLGetFunctions, SQLGetInfo,
           SQLGetLength, SQLGetPosition, SQLGetPositionW, SQLGetStmtAttr, SQLGetStmtOption,
           SQLGetSubString, SQLGetSubStringW, SQLGetTypeInfo, SQLLanguages, SQLMoreResults,
           SQLNativeSql, SQLNextResult, SQLNumParams, SQLNumResultCols, SQLParamData,
           SQLParamOptions, SQLPrepare, SQLPrimaryKeys, SQLProcedureColumns,
           SQLProcedureColumnsW, SQLProcedures, SQLPutData, SQLRowCount, SQLSetConnectAttr,
           SQLSetConnectOption, SQLSetCursorName, SQLSetDescField, SQLSetDescRec,
           SQLSetParam, SQLSetStmtAttr, SQLSetStmtOption, SQLSpecialColumns,
           SQLSpecialColumnsW, SQLStatistics, SQLStatisticsW, SQLTablePrivileges, SQLTables,
           SQLTablesW, SQL400Stmt2Hdbc, SQL400Close, SQL400pClose, SQL400CloseAllStmts,
           SQL400Cmd, SQL400ChgLibl, SQL400ChgCurLib, SQL400ToUtf8, SQL400FromUtf8,
           SQL400ToUtf16, SQL400FromUtf16, SQL400IgnoreNullToUtf8, SQL400IgnoreNullFromUtf8,
           SQL400IgnoreNullToUtf16, SQL400IgnoreNullFromUtf16, SQL400AnyToAny,
           SQL400AnyFromAny, SQL400IgnoreNullAnyToAny, SQL400IgnoreNullAnyFromAny,
           SQL400Json
  <1>2. Functions[fn] \in Serialised BY DEF Functions, Unserialised, Serialised
  <1> QED BY <1>1, <1>2 DEF Lock

\* The text parameters by name.
TextParams ==
  {"szTableQualifier", "szTableOwner", "szTableName", "szColumnName", "szDSN", "szUID",
   "szAuthStr", "szConnStrIn", "szConnStrOut", "szSqlStr", "szPkTableQualifier",
   "szPkTableOwner", "szPkTableName", "szFkTableQualifier", "szFkTableOwner",
   "szFkTableName", "srchLiteral", "szSqlStrIn", "szProcQualifier", "szProcOwner",
   "szProcName", "vParam", "szCursor", "pParam", "szTableQual", "szTableType"}

LEMMA ParamNamed == \A param \in TextParams : param # ""
  BY Zenon DEF TextParams

\* What a function converts before the call it frees after it.
Frees(x, param) == \E j \in DOMAIN x.freed : x.freed[j] = param
AllFreed(x) ==
  \A i \in DOMAIN x.in : x.in[i].param \in TextParams /\ Frees(x, x.in[i].param)

Converting400 ==
  {libdb400_SQLColumnPrivileges, libdb400_SQLColumns, libdb400_SQLConnect,
   libdb400_SQLDriverConnect, libdb400_SQLExecDirect, libdb400_SQLForeignKeys,
   libdb400_SQLGetPosition, libdb400_SQLNativeSql, libdb400_SQLPrepare,
   libdb400_SQLPrimaryKeys, libdb400_SQLProcedureColumns, libdb400_SQLProcedures,
   libdb400_SQLSetConnectAttr, libdb400_SQLSetConnectOption, libdb400_SQLSetCursorName,
   libdb400_SQLSetEnvAttr, libdb400_SQLSpecialColumns, libdb400_SQLStatistics,
   libdb400_SQLTablePrivileges, libdb400_SQLTables}

Forwarding400 ==
  {libdb400_SQLColAttributes, libdb400_SQLDataSources, libdb400_SQLDescribeCol,
   libdb400_SQLError, libdb400_SQLGetConnectAttr, libdb400_SQLGetConnectOption,
   libdb400_SQLGetCursorName, libdb400_SQLGetDescField, libdb400_SQLGetDescRec,
   libdb400_SQLGetDiagField, libdb400_SQLGetDiagRec, libdb400_SQLGetEnvAttr,
   libdb400_SQLGetInfo, libdb400_SQLAllocConnect, libdb400_SQLAllocEnv,
   libdb400_SQLAllocHandle, libdb400_SQLAllocStmt, libdb400_SQLBindCol,
   libdb400_SQLBindFileToCol, libdb400_SQLBindFileToParam, libdb400_SQLBindParam,
   libdb400_SQLBindParameter, libdb400_SQLCancel, libdb400_SQLCloseCursor,
   libdb400_SQLColAttribute, libdb400_SQLColAttributesW, libdb400_SQLColumnPrivilegesW,
   libdb400_SQLColumnsW, libdb400_SQLConnectW, libdb400_SQLCopyDesc,
   libdb400_SQLDataSourcesW, libdb400_SQLDescribeColW, libdb400_SQLDescribeParam,
   libdb400_SQLDisconnect, libdb400_SQLDriverConnectW, libdb400_SQLEndTran,
   libdb400_SQLErrorW, libdb400_SQLExecDirectW, libdb400_SQLExecute,
   libdb400_SQLExtendedFetch, libdb400_SQLFetch, libdb400_SQLFetchScroll,
   libdb400_SQLForeignKeysW, libdb400_SQLFreeConnect, libdb400_SQLFreeEnv,
   libdb400_SQLFreeStmt, libdb400_SQLFreeHandle, libdb400_SQLGetCol,
   libdb400_SQLGetConnectAttrW, libdb400_SQLGetConnectOptionW, libdb400_SQLGetCursorNameW,
   libdb400_SQLGetData, libdb400_SQLGetDescFieldW, libdb400_SQLGetDescRecW,
   libdb400_SQLGetDiagFieldW, libdb400_SQLGetDiagRecW, libdb400_SQLGetFunctions,
   libdb400_SQLGetInfoW, libdb400_SQLGetLength, libdb400_SQLGetPositionW,
   libdb400_SQLGetStmtAttr, libdb400_SQLGetStmtOption, libdb400_SQLGetSubString,
   libdb400_SQLGetTypeInfo, libdb400_SQLLanguages, libdb400_SQLMoreResults,
   libdb400_SQLNativeSqlW, libdb400_SQLNextResult, libdb400_SQLNumParams,
   libdb400_SQLNumResultCols, libdb400_SQLParamData, libdb400_SQLParamOptions,
   libdb400_SQLPrepareW, libdb400_SQLPrimaryKeysW, libdb400_SQLProcedureColumnsW,
   libdb400_SQLProceduresW, libdb400_SQLPutData, libdb400_SQLReleaseEnv,
   libdb400_SQLRowCount, libdb400_SQLSetConnectAttrW, libdb400_SQLSetConnectOptionW,
   libdb400_SQLSetCursorNameW, libdb400_SQLSetDescField, libdb400_SQLSetDescRec,
   libdb400_SQLSetParam, libdb400_SQLSetStmtAttr, libdb400_SQLSetStmtOption,
   libdb400_SQLSpecialColumnsW, libdb400_SQLStartTran, libdb400_SQLStatisticsW,
   libdb400_SQLTablePrivilegesW, libdb400_SQLTablesW, libdb400_SQLTransact}

\* The functions that convert nothing in the driver itself.
NotByCcsid ==
  {SQLAllocConnect, SQLAllocEnv, SQLAllocHandle, SQLAllocStmt, SQLFreeConnect, SQLFreeEnv,
   SQLFreeStmt, SQLFreeHandle, SQL400Version, SQLOverrideCCSID400, SQL400Stmt2Hdbc,
   SQL400Connect, SQL400pConnect, SQL400ConnectUtf8, SQL400pConnectUtf8, SQL400ConnectUtf16,
   SQL400pConnectUtf16, SQL400Close, SQL400pClose, SQL400CloseAllStmts, SQL400Cmd,
   SQL400ChgLibl, SQL400ChgCurLib, SQL400ToUtf8, SQL400FromUtf8, SQL400ToUtf16,
   SQL400FromUtf16, SQL400IgnoreNullToUtf8, SQL400IgnoreNullFromUtf8,
   SQL400IgnoreNullToUtf16, SQL400IgnoreNullFromUtf16, SQL400AnyToAny, SQL400AnyFromAny,
   SQL400IgnoreNullAnyToAny, SQL400IgnoreNullAnyFromAny, SQL400Json}

LEMMA FreedAll == \A x \in Converting400 : AllFreed(x)
  <1> USE DEF Frees, TextParams, Converts, Copy
  <1>1. AllFreed(libdb400_SQLColumnPrivileges) BY DEF AllFreed, libdb400_SQLColumnPrivileges
  <1>2. AllFreed(libdb400_SQLColumns) BY DEF AllFreed, libdb400_SQLColumns
  <1>3. AllFreed(libdb400_SQLConnect) BY DEF AllFreed, libdb400_SQLConnect
  <1>4. AllFreed(libdb400_SQLDriverConnect) BY DEF AllFreed, libdb400_SQLDriverConnect
  <1>5. AllFreed(libdb400_SQLExecDirect) BY DEF AllFreed, libdb400_SQLExecDirect
  <1>6. AllFreed(libdb400_SQLForeignKeys) BY DEF AllFreed, libdb400_SQLForeignKeys
  <1>7. AllFreed(libdb400_SQLGetPosition) BY DEF AllFreed, libdb400_SQLGetPosition
  <1>8. AllFreed(libdb400_SQLNativeSql) BY DEF AllFreed, libdb400_SQLNativeSql
  <1>9. AllFreed(libdb400_SQLPrepare) BY DEF AllFreed, libdb400_SQLPrepare
  <1>10. AllFreed(libdb400_SQLPrimaryKeys) BY DEF AllFreed, libdb400_SQLPrimaryKeys
  <1>11. AllFreed(libdb400_SQLProcedureColumns) BY DEF AllFreed, libdb400_SQLProcedureColumns
  <1>12. AllFreed(libdb400_SQLProcedures) BY DEF AllFreed, libdb400_SQLProcedures
  <1>13. AllFreed(libdb400_SQLSetConnectAttr) BY DEF AllFreed, libdb400_SQLSetConnectAttr
  <1>14. AllFreed(libdb400_SQLSetConnectOption) BY DEF AllFreed, libdb400_SQLSetConnectOption
  <1>15. AllFreed(libdb400_SQLSetCursorName) BY DEF AllFreed, libdb400_SQLSetCursorName
  <1>16. AllFreed(libdb400_SQLSetEnvAttr) BY DEF AllFreed, libdb400_SQLSetEnvAttr
  <1>17. AllFreed(libdb400_SQLSpecialColumns) BY DEF AllFreed, libdb400_SQLSpecialColumns
  <1>18. AllFreed(libdb400_SQLStatistics) BY DEF AllFreed, libdb400_SQLStatistics
  <1>19. AllFreed(libdb400_SQLTablePrivileges) BY DEF AllFreed, libdb400_SQLTablePrivileges
  <1>20. AllFreed(libdb400_SQLTables) BY DEF AllFreed, libdb400_SQLTables
  <1> QED
    BY <1>1, <1>2, <1>3, <1>4, <1>5, <1>6, <1>7, <1>8, <1>9, <1>10, <1>11, <1>12, <1>13,
       <1>14, <1>15, <1>16, <1>17, <1>18, <1>19, <1>20 DEF Converting400

LEMMA NothingToFree == \A x \in Forwarding400 : x.in = <<>>
  BY DEF Forwarding400, Converts, Forwards,
         libdb400_SQLColAttributes, libdb400_SQLDataSources, libdb400_SQLDescribeCol,
         libdb400_SQLError, libdb400_SQLGetConnectAttr, libdb400_SQLGetConnectOption,
         libdb400_SQLGetCursorName, libdb400_SQLGetDescField, libdb400_SQLGetDescRec,
         libdb400_SQLGetDiagField, libdb400_SQLGetDiagRec, libdb400_SQLGetEnvAttr,
         libdb400_SQLGetInfo, libdb400_SQLAllocConnect, libdb400_SQLAllocEnv,
         libdb400_SQLAllocHandle, libdb400_SQLAllocStmt, libdb400_SQLBindCol,
         libdb400_SQLBindFileToCol, libdb400_SQLBindFileToParam, libdb400_SQLBindParam,
         libdb400_SQLBindParameter, libdb400_SQLCancel, libdb400_SQLCloseCursor,
         libdb400_SQLColAttribute, libdb400_SQLColAttributesW,
         libdb400_SQLColumnPrivilegesW, libdb400_SQLColumnsW, libdb400_SQLConnectW,
         libdb400_SQLCopyDesc, libdb400_SQLDataSourcesW, libdb400_SQLDescribeColW,
         libdb400_SQLDescribeParam, libdb400_SQLDisconnect, libdb400_SQLDriverConnectW,
         libdb400_SQLEndTran, libdb400_SQLErrorW, libdb400_SQLExecDirectW,
         libdb400_SQLExecute, libdb400_SQLExtendedFetch, libdb400_SQLFetch,
         libdb400_SQLFetchScroll, libdb400_SQLForeignKeysW, libdb400_SQLFreeConnect,
         libdb400_SQLFreeEnv, libdb400_SQLFreeStmt, libdb400_SQLFreeHandle,
         libdb400_SQLGetCol, libdb400_SQLGetConnectAttrW, libdb400_SQLGetConnectOptionW,
         libdb400_SQLGetCursorNameW, libdb400_SQLGetData, libdb400_SQLGetDescFieldW,
         libdb400_SQLGetDescRecW, libdb400_SQLGetDiagFieldW, libdb400_SQLGetDiagRecW,
         libdb400_SQLGetFunctions, libdb400_SQLGetInfoW, libdb400_SQLGetLength,
         libdb400_SQLGetPositionW, libdb400_SQLGetStmtAttr, libdb400_SQLGetStmtOption,
         libdb400_SQLGetSubString, libdb400_SQLGetTypeInfo, libdb400_SQLLanguages,
         libdb400_SQLMoreResults, libdb400_SQLNativeSqlW, libdb400_SQLNextResult,
         libdb400_SQLNumParams, libdb400_SQLNumResultCols, libdb400_SQLParamData,
         libdb400_SQLParamOptions, libdb400_SQLPrepareW, libdb400_SQLPrimaryKeysW,
         libdb400_SQLProcedureColumnsW, libdb400_SQLProceduresW, libdb400_SQLPutData,
         libdb400_SQLReleaseEnv, libdb400_SQLRowCount, libdb400_SQLSetConnectAttrW,
         libdb400_SQLSetConnectOptionW, libdb400_SQLSetCursorNameW,
         libdb400_SQLSetDescField, libdb400_SQLSetDescRec, libdb400_SQLSetParam,
         libdb400_SQLSetStmtAttr, libdb400_SQLSetStmtOption, libdb400_SQLSpecialColumnsW,
         libdb400_SQLStartTran, libdb400_SQLStatisticsW, libdb400_SQLTablePrivilegesW,
         libdb400_SQLTablesW, libdb400_SQLTransact

LEMMA CopiesFreed ==
  ASSUME NEW fn \in DOMAIN Functions, Functions[fn].works = "ccsid"
  PROVE  AllFreed(Conversions[fn])
  <1>1. \A f \in NotByCcsid : f.works # "ccsid"
    BY DEF NotByCcsid, Exported, UnderGlobalLock, CustomOnStmt, CustomOnConn, CustomBare, CustomOnce,
           SQLAllocConnect, SQLAllocEnv, SQLAllocHandle, SQLAllocStmt, SQLFreeConnect,
           SQLFreeEnv, SQLFreeStmt, SQLFreeHandle, SQL400Version, SQLOverrideCCSID400,
           SQL400Stmt2Hdbc, SQL400Connect, SQL400pConnect, SQL400ConnectUtf8,
           SQL400pConnectUtf8, SQL400ConnectUtf16, SQL400pConnectUtf16, SQL400Close,
           SQL400pClose, SQL400CloseAllStmts, SQL400Cmd, SQL400ChgLibl, SQL400ChgCurLib,
           SQL400ToUtf8, SQL400FromUtf8, SQL400ToUtf16, SQL400FromUtf16,
           SQL400IgnoreNullToUtf8, SQL400IgnoreNullFromUtf8, SQL400IgnoreNullToUtf16,
           SQL400IgnoreNullFromUtf16, SQL400AnyToAny, SQL400AnyFromAny,
           SQL400IgnoreNullAnyToAny, SQL400IgnoreNullAnyFromAny, SQL400Json
  <1>2. fn \notin DOMAIN Conversions => Functions[fn] \in NotByCcsid
    BY SMTT(30) DEF Functions, Conversions, NotByCcsid
  <1>3. fn \in DOMAIN Conversions BY <1>1, <1>2
  <1>4. Conversions[fn] \in Converting400 \cup Forwarding400
    BY <1>3 DEF Conversions, Converting400, Forwarding400
  <1>5. ASSUME NEW x, x.in = <<>> PROVE AllFreed(x)
    <2>1. DOMAIN <<>> = {} BY EmptySeq, LenProperties
    <2> QED BY <1>5, <2>1 DEF AllFreed
  <1> QED BY <1>4, <1>5, FreedAll, NothingToFree

LEMMA EnvAttrBare == "SQLSetEnvAttr" \in DOMAIN Functions /\ Lock("SQLSetEnvAttr") = "none"
  <1>1. Functions["SQLSetEnvAttr"] = SQLSetEnvAttr BY DEF Functions
  <1>2. SQLSetEnvAttr.locks = "none" BY DEF SQLSetEnvAttr, Bare, Exported
  <1> QED BY <1>1, <1>2, TablesAssumption DEF Lock
-----------------------------------------------------------------------------
(* Locks along the steps a thread has left                                   *)

\* The process's global lock, beside the slots.
Process == -1
Resources == Slots \cup {Process}

\* How often t holds a mutex, and the mutex of a resource.
Held(mx, t) == IF mx.owner = t THEN mx.count ELSE 0
HeldOf(r, t, mut, gl) == IF r = Process THEN Held(gl, t) ELSE Held(mut[r], t)

\* The mutex of slot 0 may be one that cannot be locked.
Works(r, conf) == r # 0 \/ conf.slot0

\* The resource a call of fn on c locks.
Takes(fn, c, r) == \/ Lock(fn) = "lock" /\ r = c
                   \/ Lock(fn) = "init_lock" /\ r = Process

\* The steps that lead to the unlocking, and the unlocking itself.
Last == {"unlock", "init_unlock", "db2", "open", "convert", "iconv"}
Enters(x, r) == x.do \in {"lock", "init_lock"} /\ Takes(x.fn, x.c, r)
Leaves(x, r) == x.do \in Last /\ Takes(x.fn, x.c, r)

\* With what comes of it, x takes the number of times its thread holds r from n to m.
Goes(x, r, n, m) ==
  /\ Enters(x, r) => m = n + 1
  /\ Leaves(x, r) => n = m + 1
  /\ ~Enters(x, r) /\ ~Leaves(x, r) => m = n

\* So do the steps of s one after another.
Levels(s, r, n, m) ==
  /\ IsSteps(s)
  /\ \E f \in [1 .. Len(s) + 1 -> Nat] :
       /\ f[1] = n /\ f[Len(s) + 1] = m
       /\ \A i \in 1 .. Len(s) : Goes(s[i], r, f[i], f[i + 1])

LEMMA LevelsEmpty == ASSUME NEW r, NEW n \in Nat PROVE Levels(<<>>, r, n, n)
  <1> DEFINE f == [i \in 1 .. 1 |-> n]
  <1>1. IsSteps(<<>>) BY EmptyPlain DEF Plain
  <1>2. Len(<<>>) = 0 BY EmptySeq
  <1>3. f \in [1 .. Len(<<>>) + 1 -> Nat] /\ f[1] = n /\ f[Len(<<>>) + 1] = n BY <1>2
  <1>4. \A i \in 1 .. Len(<<>>) : Goes(<<>>[i], r, f[i], f[i + 1]) BY <1>2
  <1> HIDE DEF f
  <1> QED BY <1>1, <1>3, <1>4 DEF Levels

LEMMA LevelsOfEmpty ==
  ASSUME NEW r, NEW n, NEW m, Levels(<<>>, r, n, m)
  PROVE  n = m
  <1>1. Len(<<>>) = 0 BY EmptySeq
  <1> QED BY <1>1 DEF Levels

LEMMA LevelsOne ==
  ASSUME NEW x, x.fn \in DOMAIN Functions, NEW r, NEW n \in Nat, NEW m \in Nat, Goes(x, r, n, m)
  PROVE  Levels(<<x>>, r, n, m)
  <1> DEFINE f == [i \in 1 .. 2 |-> IF i = 1 THEN n ELSE m]
             s == <<x>>
  <1>1. (\E S : s \in Seq(S)) /\ Len(s) = 1 /\ s[1] = x BY Singleton
  <1>2. IsSteps(s) BY <1>1 DEF IsSteps
  <1>3. f \in [1 .. Len(s) + 1 -> Nat] /\ f[1] = n /\ f[Len(s) + 1] = m /\ f[1 + 1] = m BY <1>1
  <1>4. \A i \in 1 .. Len(s) : Goes(s[i], r, f[i], f[i + 1])
    <2> HIDE DEF s, f
    <2> SUFFICES ASSUME NEW i \in 1 .. Len(s) PROVE Goes(s[i], r, f[i], f[i + 1]) OBVIOUS
    <2>1. i = 1 BY <1>1
    <2> QED BY <1>1, <1>3, <2>1
  <1> HIDE DEF s, f
  <1>5. Levels(s, r, n, m) BY <1>2, <1>3, <1>4 DEF Levels
  <1> QED BY <1>5 DEF s

LEMMA LevelsConcat ==
  ASSUME NEW a, NEW b, NEW r, NEW n, NEW k, NEW m, Levels(a, r, n, k), Levels(b, r, k, m)
  PROVE  Levels(a \o b, r, n, m)
  <1>1. PICK f \in [1 .. Len(a) + 1 -> Nat] :
             /\ f[1] = n /\ f[Len(a) + 1] = k
             /\ \A i \in 1 .. Len(a) : Goes(a[i], r, f[i], f[i + 1])
    BY DEF Levels
  <1>2. PICK g \in [1 .. Len(b) + 1 -> Nat] :
             /\ g[1] = k /\ g[Len(b) + 1] = m
             /\ \A i \in 1 .. Len(b) : Goes(b[i], r, g[i], g[i + 1])
    BY DEF Levels
  <1> DEFINE s == a \o b
             h == [i \in 1 .. Len(s) + 1 |-> IF i <= Len(a) THEN f[i] ELSE g[i - Len(a)]]
  <1>3. IsSteps(a) /\ IsSteps(b) BY DEF Levels
  <1>4. /\ IsSteps(s) /\ Len(a) \in Nat /\ Len(b) \in Nat /\ Len(s) = Len(a) + Len(b)
        /\ \A i \in 1 .. Len(s) : s[i] = IF i <= Len(a) THEN a[i] ELSE b[i - Len(a)]
    BY <1>3, ConcatSteps
  <1> HIDE DEF s
  <1>5. \A i \in 1 .. Len(s) + 1 : h[i] \in Nat
    <2> SUFFICES ASSUME NEW i \in 1 .. Len(s) + 1 PROVE h[i] \in Nat OBVIOUS
    <2>1. CASE i <= Len(a)
      <3>1. i \in 1 .. Len(a) + 1 /\ h[i] = f[i] BY <1>4, <2>1
      <3> QED BY <3>1
    <2>2. CASE ~(i <= Len(a))
      <3>1. i - Len(a) \in 1 .. Len(b) + 1 /\ h[i] = g[i - Len(a)] BY <1>4, <2>2
      <3> QED BY <3>1
    <2> QED BY <2>1, <2>2
  <1>6. h \in [1 .. Len(s) + 1 -> Nat] BY <1>5
  <1>7. \A i \in 1 .. Len(a) : h[i] = f[i] /\ h[i + 1] = f[i + 1]
    <2> SUFFICES ASSUME NEW i \in 1 .. Len(a) PROVE h[i] = f[i] /\ h[i + 1] = f[i + 1] OBVIOUS
    <2>1. h[i] = f[i] BY <1>4
    <2>2. CASE i < Len(a) BY <1>4, <2>2, <2>1
    <2>3. CASE i = Len(a)
      <3>1. i + 1 \in 1 .. Len(s) + 1 /\ ~(i + 1 <= Len(a)) /\ i + 1 - Len(a) = 1
        BY <1>4, <2>3
      <3>2. h[i + 1] = g[1] BY <3>1
      <3> QED BY <1>1, <1>2, <2>1, <2>3, <3>2
    <2> QED BY <1>4, <2>2, <2>3
  <1>8. \A i \in 1 .. Len(b) : h[Len(a) + i] = g[i] /\ h[Len(a) + i + 1] = g[i + 1] BY <1>4
  <1>9. h[1] = n /\ h[Len(s) + 1] = m
    <2>1. h[Len(s) + 1] = g[Len(b) + 1] BY <1>4
    <2>2. CASE Len(a) = 0 BY <1>1, <1>2, <1>4, <2>2
    <2>3. CASE Len(a) > 0
      <3>1. 1 \in 1 .. Len(s) + 1 /\ 1 <= Len(a) BY <1>4, <2>3
      <3>2. h[1] = f[1] BY <3>1
      <3> QED BY <1>1, <1>2, <2>1, <3>2
    <2> QED BY <1>2, <1>4, <2>1, <2>2, <2>3
  <1> HIDE DEF h
  <1>10. \A i \in 1 .. Len(s) : Goes(s[i], r, h[i], h[i + 1])
    <2> SUFFICES ASSUME NEW i \in 1 .. Len(s) PROVE Goes(s[i], r, h[i], h[i + 1]) OBVIOUS
    <2>1. CASE i <= Len(a)
      <3>1. i \in 1 .. Len(a) /\ s[i] = a[i] BY <1>4, <2>1
      <3>2. Goes(a[i], r, f[i], f[i + 1]) BY <1>1, <3>1
      <3>3. h[i] = f[i] /\ h[i + 1] = f[i + 1] BY <1>7, <3>1
      <3> QED BY <3>1, <3>2, <3>3
    <2>2. CASE i > Len(a)
      <3> DEFINE j == i - Len(a)
      <3>1. j \in 1 .. Len(b) /\ s[i] = b[j] /\ i = Len(a) + j BY <1>4, <2>2
      <3>2. Goes(b[j], r, g[j], g[j + 1]) BY <1>2, <3>1
      <3>3. h[i] = g[j] /\ h[i + 1] = g[j + 1] BY SMTT(30), <1>8, <3>1
      <3> HIDE DEF j
      <3> QED BY <3>1, <3>2, <3>3
    <2> QED BY <1>4, <2>1, <2>2
  <1>11. Levels(s, r, n, m) BY <1>4, <1>6, <1>9, <1>10 DEF Levels
  <1> QED BY <1>11 DEF s

\* Without the first step.
LEMMA LevelsTail ==
  ASSUME NEW s, NEW r, NEW n, NEW m, Levels(s, r, n, m), s # <<>>
  PROVE  \E k \in Nat : n \in Nat /\ Goes(Head(s), r, n, k) /\ Levels(Tail(s), r, k, m)
  <1>1. PICK f \in [1 .. Len(s) + 1 -> Nat] :
             /\ f[1] = n /\ f[Len(s) + 1] = m
             /\ \A i \in 1 .. Len(s) : Goes(s[i], r, f[i], f[i + 1])
    BY DEF Levels
  <1>2. PICK S : s \in Seq(S) BY DEF Levels, IsSteps
  <1>3. Len(s) \in Nat \ {0} /\ Head(s) = s[1] BY <1>2, EmptySeq
  <1> DEFINE b == Tail(s)
             g == [i \in 1 .. Len(b) + 1 |-> f[i + 1]]
  <1>4. /\ b \in Seq(S) /\ Len(b) = Len(s) - 1 /\ \A i \in 1 .. Len(b) : b[i] = s[i + 1]
    BY <1>2, HeadTailProperties
  <1> HIDE DEF b
  <1>5. \A i \in 1 .. Len(b) + 1 : i + 1 \in 1 .. Len(s) + 1 /\ g[i] = f[i + 1] BY <1>3, <1>4
  <1>6. g \in [1 .. Len(b) + 1 -> Nat] BY <1>5
  <1>7. g[1] = f[2] /\ g[Len(b) + 1] = m BY <1>1, <1>3, <1>4, <1>5
  <1>8. \A i \in 1 .. Len(b) : b[i].fn \in DOMAIN Functions /\ Goes(b[i], r, g[i], g[i + 1])
    <2> SUFFICES ASSUME NEW i \in 1 .. Len(b)
                 PROVE  b[i].fn \in DOMAIN Functions /\ Goes(b[i], r, g[i], g[i + 1])
      OBVIOUS
    <2>1. i + 1 \in 1 .. Len(s) /\ i \in 1 .. Len(b) + 1 /\ i + 1 \in 1 .. Len(b) + 1
      BY <1>3, <1>4
    <2>2. g[i] = f[i + 1] /\ g[i + 1] = f[(i + 1) + 1] /\ b[i] = s[i + 1] BY <1>4, <1>5, <2>1
    <2>3. s[i + 1].fn \in DOMAIN Functions /\ Goes(s[i + 1], r, f[i + 1], f[(i + 1) + 1])
      BY <1>1, <2>1 DEF Levels, IsSteps
    <2> HIDE DEF g
    <2> QED BY <2>2, <2>3
  <1>9. f[2] \in Nat /\ f[1] \in Nat /\ Goes(Head(s), r, n, f[2])
    <2>1. 1 \in 1 .. Len(s) /\ 1 \in 1 .. Len(s) + 1 /\ 2 \in 1 .. Len(s) + 1 /\ 1 + 1 = 2 BY <1>3
    <2>2. Goes(s[1], r, f[1], f[1 + 1]) BY <1>1, <2>1
    <2> QED BY <1>1, <1>3, <2>1, <2>2
  <1> HIDE DEF g
  <1>10. Levels(b, r, f[2], m) BY <1>4, <1>6, <1>7, <1>8 DEF Levels, IsSteps
  <1> QED BY <1>1, <1>9, <1>10 DEF b

\* Steps that neither enter nor leave.
LEMMA LevelsNeutral ==
  ASSUME NEW s, IsSteps(s), NEW r, NEW n \in Nat,
         \A i \in 1 .. Len(s) : ~Enters(s[i], r) /\ ~Leaves(s[i], r)
  PROVE  Levels(s, r, n, n)
  <1> DEFINE f == [i \in 1 .. Len(s) + 1 |-> n]
  <1>1. Len(s) \in Nat
    <2>1. PICK S : s \in Seq(S) BY DEF IsSteps
    <2> QED BY <2>1, LenProperties
  <1>2. f \in [1 .. Len(s) + 1 -> Nat] /\ f[1] = n /\ f[Len(s) + 1] = n BY <1>1
  <1>3. \A i \in 1 .. Len(s) : Goes(s[i], r, f[i], f[i + 1]) BY <1>1 DEF Goes
  <1> HIDE DEF f
  <1> QED BY <1>2, <1>3 DEF Levels
-----------------------------------------------------------------------------
(* The pieces of a call give back what they take.                            *)

LEMMA StepFields ==
  ASSUME NEW do, NEW fn, NEW c, NEW p, NEW i
  PROVE  /\ Step(do, fn, c, p, i).do = do /\ Step(do, fn, c, p, i).fn = fn
         /\ Step(do, fn, c, p, i).c = c /\ Step(do, fn, c, p, i).p = p
         /\ Step(do, fn, c, p, i).i = i
         /\ Do(do, fn, c).do = do /\ Do(do, fn, c).fn = fn /\ Do(do, fn, c).c = c
  BY DEF Do, Step

\* A call of fn on c, behind its lock, gives r back, if that is what it holds.
Drops(fn, c, r, n, m) == IF Takes(fn, c, r) THEN n = m + 1 ELSE n = m

LEMMA LastGoes ==
  ASSUME NEW x, x.do \in Last, NEW r, NEW n \in Nat, NEW m \in Nat
  PROVE  Goes(x, r, n, m) <=> Drops(x.fn, x.c, r, n, m)
  BY DEF Goes, Drops, Enters, Leaves, Last

LEMMA LastLevels ==
  ASSUME NEW x, x.fn \in DOMAIN Functions, x.do \in Last, NEW r, NEW n \in Nat, NEW m \in Nat,
         Drops(x.fn, x.c, r, n, m)
  PROVE  Levels(<<x>>, r, n, m)
  BY LastGoes, LevelsOne

Neutral(x) == x.do \notin Last \cup {"lock", "init_lock"}

LEMMA NeutralLevels ==
  ASSUME NEW x, x.fn \in DOMAIN Functions, Neutral(x), NEW r, NEW n \in Nat
  PROVE  Levels(<<x>>, r, n, n)
  <1>1. Goes(x, r, n, n) BY DEF Neutral, Goes, Enters, Leaves
  <1> QED BY <1>1, LevelsOne

LEMMA TraceLevels ==
  ASSUME NEW fn \in DOMAIN Functions, NEW c, NEW ok \in BOOLEAN, NEW r, NEW n \in Nat
  PROVE  Levels(Trace(fn, c, ok), r, n, n)
  <1> DEFINE dump == Do("dump", fn, c)
             diag == Do("diag", fn, DiagSlot(fn, c))
             asks == IF ok \/ Dumps[fn].type = "none" THEN <<>> ELSE <<diag>>
  <1>1. Levels(<<dump>>, r, n, n)
    <2>1. dump.fn = fn /\ Neutral(dump) BY DEF Do, Step, Neutral, Last
    <2> HIDE DEF dump
    <2> QED BY <2>1, NeutralLevels
  <1>2. Levels(<<diag>>, r, n, n)
    <2>1. diag.fn = fn /\ Neutral(diag) BY DEF Do, Step, Neutral, Last
    <2> HIDE DEF diag
    <2> QED BY <2>1, NeutralLevels
  <1>3. Levels(asks, r, n, n) BY <1>2, LevelsEmpty
  <1>4. Levels(<<dump>> \o asks, r, n, n) BY <1>1, <1>3, LevelsConcat
  <1> QED BY <1>4, LevelsEmpty DEF Trace

LEMMA LeaveLevels ==
  ASSUME NEW fn \in DOMAIN Functions, NEW c, NEW ok \in BOOLEAN, NEW r,
         NEW n \in Nat, NEW m \in Nat, Drops(fn, c, r, n, m)
  PROVE  Levels(Leave(fn, c, ok), r, n, m)
  <1> DEFINE unlock == Do("unlock", fn, c)
             init_unlock == Do("init_unlock", fn, c)
  <1>1. Levels(Trace(fn, c, ok), r, n, n) /\ Levels(Trace(fn, c, ok), r, m, m) BY TraceLevels
  <1>2. Levels(<<unlock>>, r, n, m)
    <2>1. unlock.fn = fn /\ unlock.c = c /\ unlock.do \in Last BY DEF Do, Step, Last
    <2> HIDE DEF unlock
    <2> QED BY <2>1, LastLevels
  <1>3. Levels(<<init_unlock>>, r, n, m)
    <2>1. init_unlock.fn = fn /\ init_unlock.c = c /\ init_unlock.do \in Last
      BY DEF Do, Step, Last
    <2> HIDE DEF init_unlock
    <2> QED BY <2>1, LastLevels
  <1>4. Levels(Trace(fn, c, ok) \o <<unlock>>, r, n, m) BY <1>1, <1>2, LevelsConcat
  <1>5. Levels(<<init_unlock>> \o Trace(fn, c, ok), r, n, m) BY <1>1, <1>3, LevelsConcat
  <1>6. CASE Lock(fn) = "none"
    <2>1. n = m BY <1>6 DEF Drops, Takes
    <2> QED BY <1>1, <1>6, <2>1 DEF Leave
  <1>7. CASE Lock(fn) = "lock" BY <1>4, <1>7 DEF Leave
  <1>8. CASE Lock(fn) \notin {"none", "lock"}
    <2>1. Leave(fn, c, ok) = <<init_unlock>> \o Trace(fn, c, ok) BY <1>8 DEF Leave
    <2> QED BY <1>5, <2>1
  <1> QED BY <1>6, <1>7, <1>8

\* The copies a function makes and converts back.
CopiesIn(fn, c) ==
  [i \in DOMAIN Conversions[fn].in |->
     Step("copyin", fn, SlotOf(Conversions[fn].in[i], c), Conversions[fn].in[i].param, 0)]
CopiesOut(fn, c) ==
  [i \in DOMAIN Conversions[fn].out |->
     Step("copyout", fn, SlotOf(Conversions[fn].out[i], c), Conversions[fn].out[i].param, 0)]

LEMMA CopiesInSteps ==
  ASSUME NEW fn \in DOMAIN Functions, NEW c, Uses400(fn)
  PROVE  /\ IsSteps(CopiesIn(fn, c))
         /\ \A i \in 1 .. Len(CopiesIn(fn, c)) :
              /\ i \in DOMAIN Conversions[fn].in
              /\ CopiesIn(fn, c)[i] = Step("copyin", fn, SlotOf(Conversions[fn].in[i], c),
                                           Conversions[fn].in[i].param, 0)
  <1> DEFINE x == Conversions[fn].in
             in == [i \in DOMAIN x |-> Step("copyin", fn, SlotOf(x[i], c), x[i].param, 0)]
  <1>1. InOrder(x) BY TablesAssumption DEF Uses400
  <1> HIDE DEF x
  <1>2. /\ DOMAIN in = DOMAIN x /\ in = [i \in DOMAIN in |-> in[i]]
        /\ \A i \in DOMAIN x : in[i].fn \in DOMAIN Functions /\ in[i].do \notin Converting
    BY DEF Step, Converting
  <1>3. \A i \in DOMAIN x : in[i] = Step("copyin", fn, SlotOf(x[i], c), x[i].param, 0) OBVIOUS
  <1> HIDE DEF in
  <1>4. IsSteps(in) BY <1>1, <1>2, EachPlain DEF Plain
  <1>5. PICK S : in \in Seq(S) BY <1>4 DEF IsSteps
  <1>6. DOMAIN in = 1 .. Len(in) BY <1>5, LenProperties
  <1>7. CopiesIn(fn, c) = in BY DEF CopiesIn, in, x
  <1> QED BY <1>2, <1>3, <1>4, <1>6, <1>7 DEF x

LEMMA CopiesOutSteps ==
  ASSUME NEW fn \in DOMAIN Functions, NEW c, Uses400(fn)
  PROVE  /\ IsSteps(CopiesOut(fn, c))
         /\ \A i \in 1 .. Len(CopiesOut(fn, c)) :
              CopiesOut(fn, c)[i] = Step("copyout", fn, SlotOf(Conversions[fn].out[i], c),
                                         Conversions[fn].out[i].param, 0)
  <1> DEFINE x == Conversions[fn].out
             out == [i \in DOMAIN x |-> Step("copyout", fn, SlotOf(x[i], c), x[i].param, 0)]
  <1>1. InOrder(x) BY TablesAssumption DEF Uses400
  <1> HIDE DEF x
  <1>2. /\ DOMAIN out = DOMAIN x /\ out = [i \in DOMAIN out |-> out[i]]
        /\ \A i \in DOMAIN x : out[i].fn \in DOMAIN Functions /\ out[i].do \notin Converting
    BY DEF Do, Step, Converting
  <1>3. \A i \in DOMAIN x : out[i] = Step("copyout", fn, SlotOf(x[i], c), x[i].param, 0) OBVIOUS
  <1> HIDE DEF out
  <1>4. IsSteps(out) BY <1>1, <1>2, EachPlain DEF Plain
  <1>5. PICK S : out \in Seq(S) BY <1>4 DEF IsSteps
  <1>6. DOMAIN out = 1 .. Len(out) BY <1>5, LenProperties
  <1>7. CopiesOut(fn, c) = out BY DEF CopiesOut, out, x
  <1> QED BY <1>2, <1>3, <1>4, <1>6, <1>7 DEF x

LEMMA WorkLevels ==
  ASSUME NEW fn \in DOMAIN Functions, NEW c, NEW p, NEW r,
         NEW n \in Nat, NEW m \in Nat, Drops(fn, c, r, n, m)
  PROVE  Levels(Work(fn, c, p), r, n, m)
  <1> DEFINE open == Step("open", fn, c, p, 0)
             db2 == Do("db2", fn, c)
             text == IF Uses400(fn) THEN CopiesIn(fn, c) ELSE <<>>
  <1>1. Levels(<<open>>, r, n, m)
    <2>1. open.fn = fn /\ open.c = c /\ open.do \in Last BY DEF Step, Last
    <2> HIDE DEF open
    <2> QED BY <2>1, LastLevels
  <1>2. Levels(<<db2>>, r, n, m)
    <2>1. db2.fn = fn /\ db2.c = c /\ db2.do \in Last BY DEF Do, Step, Last
    <2> HIDE DEF db2
    <2> QED BY <2>1, LastLevels
  <1>3. ASSUME Uses400(fn) PROVE Levels(CopiesIn(fn, c), r, n, n)
    <2> DEFINE s == CopiesIn(fn, c)
    <2>0. /\ IsSteps(s)
          /\ \A i \in 1 .. Len(s) : s[i] = Step("copyin", fn, SlotOf(Conversions[fn].in[i], c),
                                               Conversions[fn].in[i].param, 0)
      BY <1>3, CopiesInSteps
    <2> HIDE DEF s
    <2>1. \A i \in 1 .. Len(s) : s[i].do = "copyin" BY <2>0, StepFields
    <2>2. \A i \in 1 .. Len(s) : ~Enters(s[i], r) /\ ~Leaves(s[i], r)
      BY <2>1 DEF Enters, Leaves, Last
    <2>3. Levels(s, r, n, n) BY <2>0, <2>2, LevelsNeutral
    <2> QED BY <2>3 DEF s
  <1>4. Levels(text, r, n, n) BY <1>3, LevelsEmpty
  <1>5. Levels(text \o <<db2>>, r, n, m) BY <1>2, <1>4, LevelsConcat
  <1>6. Work(fn, c, p) = IF IsConversion(fn) THEN <<open>> ELSE text \o <<db2>>
    BY DEF Work, CopiesIn
  <1> QED BY <1>1, <1>5, <1>6

LEMMA EnterLevels ==
  ASSUME NEW fn \in DOMAIN Functions, NEW c, NEW p, NEW r, NEW n \in Nat
  PROVE  Levels(Enter(fn, c, p), r, n, n)
  <1> DEFINE x == Do(Lock(fn), fn, c)
             m == IF Takes(fn, c, r) THEN n + 1 ELSE n
             lock == IF Lock(fn) = "none" THEN <<>> ELSE <<x>>
  <1>1. m \in Nat /\ Drops(fn, c, r, m, n) BY DEF Drops
  <1>2. Levels(Work(fn, c, p), r, m, n) BY <1>1, WorkLevels
  <1>3. CASE Lock(fn) = "none"
    <2>1. m = n BY <1>3 DEF Takes
    <2>2. Levels(lock, r, n, m) BY <1>3, <2>1, LevelsEmpty
    <2>3. Levels(lock \o Work(fn, c, p), r, n, n) BY <1>2, <2>2, LevelsConcat
    <2> QED BY <2>3 DEF Enter
  <1>4. CASE Lock(fn) # "none"
    <2>1. x.fn = fn /\ x.c = c /\ x.do \in {"lock", "init_lock"} BY <1>4 DEF Do, Step, Lock
    <2>2. Goes(x, r, n, m)
      <3> HIDE DEF x
      <3> QED BY <1>1, <2>1 DEF Goes, Enters, Leaves, Last
    <2>3. Levels(<<x>>, r, n, m)
      <3> HIDE DEF x, m
      <3> QED BY <1>1, <2>1, <2>2, LevelsOne
    <2>4. Levels(lock, r, n, m) BY <1>4, <2>3
    <2>5. Levels(lock \o Work(fn, c, p), r, n, n) BY <1>2, <2>4, LevelsConcat
    <2> QED BY <2>5 DEF Enter
  <1> QED BY <1>3, <1>4

LEMMA AfterLevels ==
  ASSUME NEW fn \in DOMAIN Functions, NEW c, NEW ok \in BOOLEAN, NEW told \in BOOLEAN, NEW r,
         NEW n \in Nat, NEW m \in Nat, Drops(fn, c, r, n, m)
  PROVE  Levels(After(fn, c, ok, told), r, n, m)
  <1> DEFINE f == Do("free", fn, c)
             e == Do("env", fn, 0)
             back == IF ok THEN CopiesOut(fn, c) ELSE <<>>
             free == IF Conversions[fn].freed = <<>> THEN <<>> ELSE <<f>>
             text == IF Uses400(fn) THEN free \o back ELSE <<>>
             env == IF fn \in {"SQLAllocEnv", "SQLAllocHandle"} /\ ok THEN <<e>> ELSE <<>>
  <1>1. Levels(<<f>>, r, n, n)
    <2>1. f.fn = fn /\ Neutral(f) BY DEF Do, Step, Neutral, Last
    <2> HIDE DEF f
    <2> QED BY <2>1, NeutralLevels
  <1>2. Levels(<<e>>, r, n, n)
    <2>1. e.fn = fn /\ Neutral(e) BY DEF Do, Step, Neutral, Last
    <2> HIDE DEF e
    <2> QED BY <2>1, NeutralLevels
  <1>3. ASSUME Uses400(fn) PROVE Levels(CopiesOut(fn, c), r, n, n)
    <2> DEFINE s == CopiesOut(fn, c)
    <2>0. /\ IsSteps(s)
          /\ \A i \in 1 .. Len(s) : s[i] = Step("copyout", fn, SlotOf(Conversions[fn].out[i], c),
                                               Conversions[fn].out[i].param, 0)
      BY <1>3, CopiesOutSteps
    <2> HIDE DEF s
    <2>1. \A i \in 1 .. Len(s) : s[i].do = "copyout" BY <2>0, StepFields
    <2>2. \A i \in 1 .. Len(s) : ~Enters(s[i], r) /\ ~Leaves(s[i], r)
      BY <2>1 DEF Enters, Leaves, Last
    <2>3. Levels(s, r, n, n) BY <2>0, <2>2, LevelsNeutral
    <2> QED BY <2>3 DEF s
  <1>4. ASSUME Uses400(fn) PROVE Levels(free \o back, r, n, n)
    <2>1. Levels(back, r, n, n) BY <1>3, <1>4, LevelsEmpty
    <2>2. Levels(free, r, n, n) BY <1>1, LevelsEmpty
    <2> QED BY <2>1, <2>2, LevelsConcat
  <1>5. Levels(text, r, n, n) BY <1>4, LevelsEmpty
  <1>6. Levels(env, r, n, n) BY <1>2, LevelsEmpty
  <1>7. Levels(Leave(fn, c, told), r, n, m) BY LeaveLevels
  <1>8. Levels(text \o env, r, n, n) BY <1>5, <1>6, LevelsConcat
  <1>9. Levels((text \o env) \o Leave(fn, c, told), r, n, m) BY <1>7, <1>8, LevelsConcat
  <1>10. After(fn, c, ok, told) = (text \o env) \o Leave(fn, c, told) BY DEF After, CopiesOut
  <1> QED BY <1>9, <1>10
-----------------------------------------------------------------------------
(* Copies along the steps a thread has left                                  *)

\* A step is about a slot, and locks or unlocks what its function does.
Formed(x) ==
  /\ x.c \in Slots
  /\ x.do \in {"lock", "unlock"} => Lock(x.fn) = "lock"
  /\ x.do \in {"init_lock", "init_unlock"} => Lock(x.fn) = "init_lock"

\* With what comes of it, x frees the copy fn has made of param.
Freeing(x, fn, param, conf) ==
  /\ x.do \in {"db2", "free"} /\ x.fn = fn /\ Frees(Conversions[fn], param)
  /\ x.do = "db2" => Functions[fn].works = "ccsid" /\ conf.ccsid \notin {"1208", "1200"}

Freed(s, fn, param, conf) == \E i \in 1 .. Len(s) : Freeing(s[i], fn, param, conf)

\* Behind every copy comes what frees it.
Covered(s, conf) ==
  \A i \in 1 .. Len(s) : s[i].do = "copyin" =>
    /\ s[i].p \in TextParams
    /\ \E j \in 1 .. Len(s) : j > i /\ Freeing(s[j], s[i].fn, s[i].p, conf)

Laid(s, conf) ==
  /\ IsSteps(s)
  /\ \A i \in 1 .. Len(s) : Formed(s[i])
  /\ Covered(s, conf)

LEMMA NoCopyLaid ==
  ASSUME NEW s, IsSteps(s), NEW conf,
         \A i \in 1 .. Len(s) : Formed(s[i]) /\ s[i].do # "copyin"
  PROVE  Laid(s, conf)
  BY DEF Laid, Covered

LEMMA EmptyLaid == ASSUME NEW conf PROVE Laid(<<>>, conf)
  <1>1. IsSteps(<<>>) BY EmptyPlain DEF Plain
  <1>2. Len(<<>>) = 0 BY EmptySeq
  <1> QED BY <1>1, <1>2, NoCopyLaid

LEMMA OneLaid ==
  ASSUME NEW x, x.fn \in DOMAIN Functions, Formed(x), x.do # "copyin", NEW conf
  PROVE  Laid(<<x>>, conf)
  <1> DEFINE s == <<x>>
  <1>1. (\E S : s \in Seq(S)) /\ Len(s) = 1 /\ s[1] = x BY Singleton
  <1> HIDE DEF s
  <1>2. \A i \in 1 .. Len(s) : s[i] = x BY <1>1
  <1>3. IsSteps(s) BY <1>1, <1>2 DEF IsSteps
  <1>4. Laid(s, conf) BY <1>2, <1>3, NoCopyLaid
  <1> QED BY <1>4 DEF s

LEMMA FreedConcat ==
  ASSUME NEW a, NEW b, IsSteps(a), IsSteps(b), NEW fn, NEW param, NEW conf,
         Freed(a, fn, param, conf) \/ Freed(b, fn, param, conf)
  PROVE  Freed(a \o b, fn, param, conf)
  <1> DEFINE s == a \o b
  <1>1. /\ Len(a) \in Nat /\ Len(b) \in Nat /\ Len(s) = Len(a) + Len(b)
        /\ \A i \in 1 .. Len(s) : s[i] = IF i <= Len(a) THEN a[i] ELSE b[i - Len(a)]
    BY ConcatSteps
  <1> HIDE DEF s
  <1>2. CASE Freed(a, fn, param, conf)
    <2>1. PICK i \in 1 .. Len(a) : Freeing(a[i], fn, param, conf) BY <1>2 DEF Freed
    <2>2. i \in 1 .. Len(s) /\ s[i] = a[i] BY <1>1
    <2> QED BY <2>1, <2>2 DEF Freed, s
  <1>3. CASE Freed(b, fn, param, conf)
    <2>1. PICK i \in 1 .. Len(b) : Freeing(b[i], fn, param, conf) BY <1>3 DEF Freed
    <2>2. Len(a) + i \in 1 .. Len(s) /\ ~(Len(a) + i <= Len(a)) /\ (Len(a) + i) - Len(a) = i BY <1>1
    <2>3. s[Len(a) + i] = b[i] BY <1>1, <2>2
    <2> QED BY <2>1, <2>2, <2>3 DEF Freed, s
  <1> QED BY <1>2, <1>3

LEMMA ConcatLaid ==
  ASSUME NEW a, NEW b, NEW conf, Laid(a, conf), Laid(b, conf)
  PROVE  Laid(a \o b, conf)
  <1> DEFINE s == a \o b
  <1>1. IsSteps(a) /\ IsSteps(b) BY DEF Laid
  <1>2. /\ IsSteps(s) /\ Len(a) \in Nat /\ Len(b) \in Nat /\ Len(s) = Len(a) + Len(b)
        /\ \A i \in 1 .. Len(s) : s[i] = IF i <= Len(a) THEN a[i] ELSE b[i - Len(a)]
    BY <1>1, ConcatSteps
  <1> HIDE DEF s
  <1>3. ASSUME NEW i \in 1 .. Len(s)
        PROVE  /\ Formed(s[i])
               /\ s[i].do = "copyin" =>
                    /\ s[i].p \in TextParams
                    /\ \E j \in 1 .. Len(s) : j > i /\ Freeing(s[j], s[i].fn, s[i].p, conf)
    <2>1. CASE i <= Len(a)
      <3>1. i \in 1 .. Len(a) /\ s[i] = a[i] BY <1>2, <2>1
      <3>2. \A j \in 1 .. Len(a) : j \in 1 .. Len(s) /\ s[j] = a[j] BY <1>2
      <3> QED BY <3>1, <3>2 DEF Laid, Covered
    <2>2. CASE i > Len(a)
      <3> DEFINE k == i - Len(a)
      <3>1. k \in 1 .. Len(b) /\ s[i] = b[k] BY <1>2, <2>2
      <3>2. \A j \in 1 .. Len(b) : /\ Len(a) + j \in 1 .. Len(s) /\ s[Len(a) + j] = b[j]
                                   /\ j > k => Len(a) + j > i
        BY <1>2, <2>2
      <3> HIDE DEF k
      <3>3. Formed(b[k]) /\ (b[k].do = "copyin" =>
              /\ b[k].p \in TextParams
              /\ \E j \in 1 .. Len(b) : j > k /\ Freeing(b[j], b[k].fn, b[k].p, conf))
        BY <3>1 DEF Laid, Covered
      <3>4. CASE b[k].do = "copyin"
        <4>1. PICK j \in 1 .. Len(b) : j > k /\ Freeing(b[j], b[k].fn, b[k].p, conf) BY <3>3, <3>4
        <4>2. Len(a) + j \in 1 .. Len(s) /\ s[Len(a) + j] = b[j] /\ Len(a) + j > i BY <3>2, <4>1
        <4> QED BY <3>1, <3>3, <3>4, <4>1, <4>2
      <3> QED BY <3>1, <3>3, <3>4
    <2> QED BY <1>2, <2>1, <2>2
  <1>4. Laid(s, conf) BY <1>2, <1>3 DEF Laid, Covered
  <1> QED BY <1>4 DEF s

\* Without the first step; if that was a copy, what frees it is still to come.
LEMMA TailLaid ==
  ASSUME NEW s, NEW conf, Laid(s, conf), s # <<>>
  PROVE  /\ Laid(Tail(s), conf)
         /\ Head(s).fn \in DOMAIN Functions /\ Formed(Head(s))
         /\ Head(s).do = "copyin" =>
              /\ Head(s).p \in TextParams
              /\ Freed(Tail(s), Head(s).fn, Head(s).p, conf)
         /\ \A fn, param : Freed(s, fn, param, conf) =>
              Freeing(Head(s), fn, param, conf) \/ Freed(Tail(s), fn, param, conf)
  <1>1. PICK S : s \in Seq(S) BY DEF Laid, IsSteps
  <1>2. Len(s) \in Nat \ {0} /\ Head(s) = s[1] BY <1>1, EmptySeq
  <1> DEFINE b == Tail(s)
  <1>3. /\ b \in Seq(S) /\ Len(b) = Len(s) - 1 /\ \A i \in 1 .. Len(b) : b[i] = s[i + 1]
    BY <1>1, HeadTailProperties
  <1> HIDE DEF b
  <1>4. \A i \in 1 .. Len(s) : i > 1 => i - 1 \in 1 .. Len(b) /\ b[i - 1] = s[i] BY <1>2, <1>3
  <1>5. 1 \in 1 .. Len(s) BY <1>2
  <1>6. ASSUME NEW i \in 1 .. Len(b)
        PROVE  /\ b[i].fn \in DOMAIN Functions /\ Formed(b[i])
               /\ b[i].do = "copyin" =>
                    /\ b[i].p \in TextParams
                    /\ \E j \in 1 .. Len(b) : j > i /\ Freeing(b[j], b[i].fn, b[i].p, conf)
    <2>1. i + 1 \in 1 .. Len(s) /\ b[i] = s[i + 1] BY <1>2, <1>3
    <2>2. s[i + 1].fn \in DOMAIN Functions /\ Formed(s[i + 1]) BY <2>1 DEF Laid, IsSteps
    <2>3. CASE b[i].do = "copyin"
      <3>1. /\ s[i + 1].p \in TextParams
            /\ \E j \in 1 .. Len(s) : j > i + 1 /\ Freeing(s[j], s[i + 1].fn, s[i + 1].p, conf)
        BY <2>1, <2>3 DEF Laid, Covered
      <3>2. PICK j \in 1 .. Len(s) : j > i + 1 /\ Freeing(s[j], s[i + 1].fn, s[i + 1].p, conf)
        BY <3>1
      <3>3. j - 1 \in 1 .. Len(b) /\ j - 1 > i /\ b[j - 1] = s[j] BY <1>2, <1>3, <1>4, <3>2
      <3> QED BY <2>1, <2>2, <3>1, <3>2, <3>3
    <2> QED BY <2>1, <2>2, <2>3
  <1>7. Laid(b, conf) BY <1>3, <1>6 DEF Laid, IsSteps, Covered
  <1>8. s[1].fn \in DOMAIN Functions /\ Formed(s[1]) BY <1>5 DEF Laid, IsSteps
  <1>9. ASSUME s[1].do = "copyin"
        PROVE  s[1].p \in TextParams /\ Freed(b, s[1].fn, s[1].p, conf)
    <2>1. s[1].p \in TextParams BY <1>5, <1>9 DEF Laid, Covered
    <2>2. PICK j \in 1 .. Len(s) : j > 1 /\ Freeing(s[j], s[1].fn, s[1].p, conf)
      BY <1>5, <1>9 DEF Laid, Covered
    <2> QED BY <1>4, <2>1, <2>2 DEF Freed
  <1>10. ASSUME NEW fn, NEW param, Freed(s, fn, param, conf)
         PROVE  Freeing(s[1], fn, param, conf) \/ Freed(b, fn, param, conf)
    <2>1. PICK j \in 1 .. Len(s) : Freeing(s[j], fn, param, conf) BY <1>10 DEF Freed
    <2>2. CASE j = 1 BY <2>1, <2>2
    <2>3. CASE j > 1 BY <1>4, <2>1, <2>3 DEF Freed
    <2> QED BY <2>2, <2>3
  <1> QED BY <1>2, <1>7, <1>8, <1>9, <1>10 DEF b

-----------------------------------------------------------------------------
(* The pieces of a call are laid.                                            *)

LEMMA TraceLaid ==
  ASSUME NEW fn \in DOMAIN Functions, NEW c \in Slots, NEW ok \in BOOLEAN, NEW conf
  PROVE  Laid(Trace(fn, c, ok), conf)
  <1> DEFINE dump == Do("dump", fn, c)
             d == DiagSlot(fn, c)
             diag == Do("diag", fn, d)
             asks == IF ok \/ Dumps[fn].type = "none" THEN <<>> ELSE <<diag>>
  <1>1. d \in Slots BY TableAssumption DEF DiagSlot, Slots
  <1> HIDE DEF d
  <1>2. Laid(<<dump>>, conf)
    <2>1. dump.fn = fn /\ dump.do = "dump" /\ dump.c = c BY StepFields
    <2> HIDE DEF dump
    <2> QED BY <2>1, OneLaid DEF Formed
  <1>3. Laid(<<diag>>, conf)
    <2>1. diag.fn = fn /\ diag.do = "diag" /\ diag.c = d BY StepFields
    <2> HIDE DEF diag
    <2> QED BY <1>1, <2>1, OneLaid DEF Formed
  <1>4. Laid(asks, conf) BY <1>3, EmptyLaid
  <1>5. Laid(<<dump>> \o asks, conf) BY <1>2, <1>4, ConcatLaid
  <1> QED BY <1>5, EmptyLaid DEF Trace, d

LEMMA LeaveLaid ==
  ASSUME NEW fn \in DOMAIN Functions, NEW c \in Slots, NEW ok \in BOOLEAN, NEW conf
  PROVE  Laid(Leave(fn, c, ok), conf)
  <1> DEFINE unlock == Do("unlock", fn, c)
             init_unlock == Do("init_unlock", fn, c)
  <1>1. Laid(Trace(fn, c, ok), conf) BY TraceLaid
  <1>2. ASSUME Lock(fn) = "lock" PROVE Laid(<<unlock>>, conf)
    <2>1. unlock.fn = fn /\ unlock.do = "unlock" /\ unlock.c = c BY StepFields
    <2> HIDE DEF unlock
    <2> QED BY <1>2, <2>1, OneLaid DEF Formed
  <1>3. ASSUME Lock(fn) = "init_lock" PROVE Laid(<<init_unlock>>, conf)
    <2>1. init_unlock.fn = fn /\ init_unlock.do = "init_unlock" /\ init_unlock.c = c
      BY StepFields
    <2> HIDE DEF init_unlock
    <2> QED BY <1>3, <2>1, OneLaid DEF Formed
  <1>4. CASE Lock(fn) = "none" BY <1>1, <1>4 DEF Leave
  <1>5. CASE Lock(fn) = "lock"
    <2>1. Laid(Trace(fn, c, ok) \o <<unlock>>, conf) BY <1>1, <1>2, <1>5, ConcatLaid
    <2> QED BY <1>5, <2>1 DEF Leave
  <1>6. CASE Lock(fn) = "init_lock"
    <2>1. Laid(<<init_unlock>> \o Trace(fn, c, ok), conf) BY <1>1, <1>3, <1>6, ConcatLaid
    <2>2. Leave(fn, c, ok) = <<init_unlock>> \o Trace(fn, c, ok) BY <1>6 DEF Leave
    <2> QED BY <2>1, <2>2
  <1>7. Lock(fn) \in {"none", "lock", "init_lock"} BY DEF Lock
  <1> QED BY <1>4, <1>5, <1>6, <1>7

\* What a function converts is freed behind its call.
LEMMA WorkLaid ==
  ASSUME NEW fn \in DOMAIN Functions, NEW c \in Slots, NEW p
  PROVE  Laid(Work(fn, c, p), setting)
  <1> DEFINE open == Step("open", fn, c, p, 0)
             db2 == Do("db2", fn, c)
             in == CopiesIn(fn, c)
  <1>1. Laid(<<open>>, setting)
    <2>1. open.fn = fn /\ open.do = "open" /\ open.c = c BY StepFields
    <2> HIDE DEF open
    <2> QED BY <2>1, OneLaid DEF Formed
  <1>2. db2.fn = fn /\ db2.do = "db2" /\ db2.c = c BY StepFields
  <1> HIDE DEF db2
  <1>3. Laid(<<db2>>, setting) BY <1>2, OneLaid DEF Formed
  <1>4. ASSUME Uses400(fn) PROVE Laid(in \o <<db2>>, setting)
    <2>1. /\ IsSteps(in)
          /\ \A i \in 1 .. Len(in) :
               /\ i \in DOMAIN Conversions[fn].in
               /\ in[i] = Step("copyin", fn, SlotOf(Conversions[fn].in[i], c),
                               Conversions[fn].in[i].param, 0)
      BY <1>4, CopiesInSteps
    <2>2. IsSteps(<<db2>>) BY <1>3 DEF Laid
    <2> DEFINE b == <<db2>>
               s == in \o b
    <2>3. Len(b) = 1 /\ b[1] = db2 BY Singleton
    <2>4. /\ IsSteps(s) /\ Len(in) \in Nat /\ Len(s) = Len(in) + Len(b)
          /\ \A i \in 1 .. Len(s) : s[i] = IF i <= Len(in) THEN in[i] ELSE b[i - Len(in)]
      BY <2>1, <2>2, ConcatSteps
    <2> HIDE DEF in, b, s
    <2>5. ASSUME NEW i \in 1 .. Len(in)
          PROVE  /\ in[i].do = "copyin" /\ in[i].fn = fn
                 /\ in[i].p \in TextParams /\ Frees(Conversions[fn], in[i].p) /\ Formed(in[i])
      <3>1. /\ i \in DOMAIN Conversions[fn].in
            /\ in[i].do = "copyin" /\ in[i].fn = fn /\ in[i].p = Conversions[fn].in[i].param
            /\ in[i].c = SlotOf(Conversions[fn].in[i], c)
        BY <2>1, StepFields
      <3>2. AllFreed(Conversions[fn]) BY <1>4, CopiesFreed DEF Uses400
      <3>3. in[i].c \in Slots BY <3>1, TableAssumption DEF SlotOf, Slots
      <3> QED BY <3>1, <3>2, <3>3 DEF AllFreed, Formed
    <2>6. Len(s) \in 1 .. Len(s) /\ s[Len(s)] = db2 /\ Len(s) = Len(in) + 1 BY <2>3, <2>4
    <2>7. ASSUME NEW i \in 1 .. Len(s)
          PROVE  /\ Formed(s[i])
                 /\ s[i].do = "copyin" =>
                      /\ s[i].p \in TextParams
                      /\ \E j \in 1 .. Len(s) : j > i /\ Freeing(s[j], s[i].fn, s[i].p, setting)
      <3>1. CASE i <= Len(in)
        <4>1. i \in 1 .. Len(in) /\ s[i] = in[i] BY <2>4, <3>1
        <4>2. Freeing(s[Len(s)], s[i].fn, s[i].p, setting)
          BY <1>2, <1>4, <2>5, <2>6, <4>1 DEF Freeing, Uses400, Utf
        <4>3. Len(s) > i BY <2>4, <2>6, <3>1
        <4> QED BY <2>5, <2>6, <4>1, <4>2, <4>3
      <3>2. CASE i > Len(in)
        <4>1. s[i] = db2 BY <2>4, <2>6, <3>2
        <4> QED BY <1>2, <4>1 DEF Formed
      <3> QED BY <2>4, <3>1, <3>2
    <2>8. Laid(s, setting) BY <2>4, <2>7 DEF Laid, Covered
    <2> QED BY <2>8 DEF s, b
  <1>5. Work(fn, c, p) = IF IsConversion(fn) THEN <<open>>
                         ELSE (IF Uses400(fn) THEN in ELSE <<>>) \o <<db2>>
    BY DEF Work, CopiesIn, db2
  <1>6. Laid(<<>> \o <<db2>>, setting) BY <1>3, EmptyLaid, ConcatLaid
  <1> QED BY <1>1, <1>4, <1>5, <1>6

LEMMA EnterLaid ==
  ASSUME NEW fn \in DOMAIN Functions, NEW c \in Slots, NEW p
  PROVE  Laid(Enter(fn, c, p), setting)
  <1> DEFINE x == Do(Lock(fn), fn, c)
             lock == IF Lock(fn) = "none" THEN <<>> ELSE <<x>>
  <1>1. ASSUME Lock(fn) # "none" PROVE Laid(<<x>>, setting)
    <2>1. x.fn = fn /\ x.do = Lock(fn) /\ x.c = c BY StepFields
    <2>2. Lock(fn) \in {"lock", "init_lock"} BY <1>1 DEF Lock
    <2> HIDE DEF x
    <2> QED BY <2>1, <2>2, OneLaid DEF Formed
  <1>2. Laid(lock, setting) BY <1>1, EmptyLaid
  <1>3. Laid(lock \o Work(fn, c, p), setting) BY <1>2, WorkLaid, ConcatLaid
  <1> QED BY <1>3 DEF Enter

\* After the answer everything the call has copied is freed.
LEMMA AfterLaid ==
  ASSUME NEW fn \in DOMAIN Functions, NEW c \in Slots, NEW ok \in BOOLEAN,
         NEW told \in BOOLEAN
  PROVE  /\ Laid(After(fn, c, ok, told), setting)
         /\ \A param : Freeing(Do("db2", fn, c), fn, param, setting) =>
              Freed(After(fn, c, ok, told), fn, param, setting)
  <1> DEFINE f == Do("free", fn, c)
             e == Do("env", fn, 0)
             back == IF ok THEN CopiesOut(fn, c) ELSE <<>>
             free == IF Conversions[fn].freed = <<>> THEN <<>> ELSE <<f>>
             text == IF Uses400(fn) THEN free \o back ELSE <<>>
             env == IF fn \in {"SQLAllocEnv", "SQLAllocHandle"} /\ ok THEN <<e>> ELSE <<>>
  <1>0. 0 \in Slots BY TableAssumption DEF Slots
  <1>1. f.fn = fn /\ f.do = "free" /\ f.c = c BY StepFields
  <1> HIDE DEF f
  <1>2. Laid(<<f>>, setting) BY <1>1, OneLaid DEF Formed
  <1>3. Laid(<<e>>, setting)
    <2>1. e.fn = fn /\ e.do = "env" /\ e.c = 0 BY StepFields
    <2> HIDE DEF e
    <2> QED BY <1>0, <2>1, OneLaid DEF Formed
  <1>4. ASSUME Uses400(fn) PROVE Laid(CopiesOut(fn, c), setting)
    <2> DEFINE s == CopiesOut(fn, c)
    <2>1. /\ IsSteps(s)
          /\ \A i \in 1 .. Len(s) : s[i] = Step("copyout", fn, SlotOf(Conversions[fn].out[i], c),
                                               Conversions[fn].out[i].param, 0)
      BY <1>4, CopiesOutSteps
    <2> HIDE DEF s
    <2>2. \A i \in 1 .. Len(s) :
            s[i].do = "copyout" /\ s[i].c = SlotOf(Conversions[fn].out[i], c)
      BY <2>1, StepFields
    <2>3. \A i \in 1 .. Len(s) : Formed(s[i]) /\ s[i].do # "copyin"
      BY <1>0, <2>2 DEF Formed, SlotOf
    <2>4. Laid(s, setting) BY <2>1, <2>3, NoCopyLaid
    <2> QED BY <2>4 DEF s
  <1>5. ASSUME Uses400(fn) PROVE Laid(back, setting) /\ Laid(free, setting)
    BY <1>2, <1>4, <1>5, EmptyLaid
  <1>6. ASSUME Uses400(fn) PROVE Laid(free \o back, setting) BY <1>5, <1>6, ConcatLaid
  <1>7. Laid(text, setting) BY <1>6, EmptyLaid
  <1>8. Laid(env, setting) BY <1>3, EmptyLaid
  <1>9. Laid(Leave(fn, c, told), setting) BY LeaveLaid
  <1>10. Laid(text \o env, setting) BY <1>7, <1>8, ConcatLaid
  <1>11. Laid((text \o env) \o Leave(fn, c, told), setting) BY <1>9, <1>10, ConcatLaid
  <1>12. After(fn, c, ok, told) = (text \o env) \o Leave(fn, c, told) BY DEF After, CopiesOut, f
  <1>13. ASSUME NEW param, Freeing(Do("db2", fn, c), fn, param, setting)
         PROVE  Freed(After(fn, c, ok, told), fn, param, setting)
    <2>1. Uses400(fn) /\ Frees(Conversions[fn], param) BY <1>13, StepFields DEF Freeing, Uses400, Utf
    <2>2. Conversions[fn].freed # <<>>
      <3>1. DOMAIN <<>> = {} BY EmptySeq, LenProperties
      <3> QED BY <2>1, <3>1 DEF Frees
    <2>3. Freed(<<f>>, fn, param, setting)
      <3> DEFINE s == <<f>>
      <3>1. Len(s) = 1 /\ s[1] = f BY Singleton
      <3> HIDE DEF s
      <3>2. Freeing(f, fn, param, setting) BY <1>1, <2>1 DEF Freeing
      <3>3. 1 \in 1 .. Len(s) BY <3>1
      <3>4. Freed(s, fn, param, setting) BY <3>1, <3>2, <3>3 DEF Freed
      <3> QED BY <3>4 DEF s
    <2>4. Freed(free, fn, param, setting) BY <2>2, <2>3
    <2> HIDE DEF back, free
    <2>5. Freed(free \o back, fn, param, setting) BY <1>5, <2>1, <2>4, FreedConcat DEF Laid
    <2>6. Freed(text, fn, param, setting) BY <2>1, <2>5
    <2> HIDE DEF text, env
    <2>7. Freed(text \o env, fn, param, setting) BY <1>7, <1>8, <2>6, FreedConcat DEF Laid
    <2>8. Freed((text \o env) \o Leave(fn, c, told), fn, param, setting)
      BY <1>9, <1>10, <2>7, FreedConcat DEF Laid
    <2> QED BY <1>12, <2>8
  <1> QED BY <1>11, <1>12, <1>13
-----------------------------------------------------------------------------
(* The inductive invariant of what a call leaves behind                      *)

PathTypes ==
  /\ mutex \in [Slots -> Mutex] /\ glock \in Mutex
  /\ calls \in [Threads -> 0 .. MaxCalls]
  /\ copies = [t \in Threads |-> copies[t]]
  /\ sent = [t \in Threads |-> sent[t]]

StepsLaid == \A t \in Threads : Laid(todo[t], setting)

\* What a thread has left to do takes it down to no mutex of any resource.
LocksBalance ==
  \A t \in Threads : \A r \in Resources :
    Works(r, setting) => Levels(todo[t], r, HeldOf(r, t, mutex, glock), 0)

SlotZero == ~setting.slot0 => mutex[0] = FreeMutex

\* Every copy a thread has made it has yet to free.
CopiesOwed ==
  \A t \in Threads : \A copy \in copies[t] :
    /\ copy = <<copy[1], copy[2]>> /\ copy[2] \in TextParams
    /\ Freed(todo[t], copy[1], copy[2], setting)

\* The mutex of a converter is held inside iconv only, and once.
ConvertersHeld ==
  \A t \in Threads : \A i \in 1 .. setting.pool :
    converter[i].lock.owner = t =>
      At(t, "iconv") /\ Head(todo[t]).i = i /\ converter[i].lock.count = 1

\* The first step left, but for a lock, is the conversion of p.
Carries == {"open", "convert", "iconv"}
Carrying(s, p) == s # <<>> /\ Head(s).do \in Carries /\ Head(s).p = p
Underway(s, p) ==
  \/ Carrying(s, p)
  \/ s # <<>> /\ Head(s).do \in {"lock", "init_lock"} /\ Carrying(Tail(s), p)

\* Conversions are not refused, iconv converts, and there is a converter of every
\* pair for every thread.
Room ==
  /\ setting.ccsid # setting.job /\ setting.whole
  /\ setting.pool >= 3 * Cardinality(Threads)

TextSent ==
  Room => \A t \in Threads : \A copy \in copies[t] :
            copy[2] \in sent[t] \/ Underway(todo[t], copy[2])

PInv ==
  PathTypes /\ StepsLaid /\ LocksBalance /\ SlotZero /\ CopiesOwed /\ ConvertersHeld /\ TextSent

-----------------------------------------------------------------------------
(* One step of a thread                                                      *)

LEMMA HeldNat ==
  ASSUME NEW mx \in Mutex, NEW t
  PROVE  Held(mx, t) \in Nat
  BY DEF Held, Mutex, FreeMutex

LEMMA HeldOfNat ==
  ASSUME PathTypes, NEW r \in Resources, NEW t
  PROVE  HeldOf(r, t, mutex, glock) \in Nat
  <1>1. CASE r = Process BY <1>1, HeldNat DEF HeldOf, PathTypes
  <1>2. CASE r # Process
    <2>1. mutex[r] \in Mutex BY <1>2 DEF Resources, PathTypes
    <2> QED BY <1>2, <2>1, HeldNat DEF HeldOf
  <1> QED BY <1>1, <1>2

LEMMA HeldLocked ==
  ASSUME NEW mx \in Mutex, NEW t \in Threads, MayLock(mx, t)
  PROVE  /\ Locked(mx, t) \in Mutex
         /\ Held(Locked(mx, t), t) = Held(mx, t) + 1
         /\ \A u \in Threads : u # t => Held(Locked(mx, t), u) = Held(mx, u)
  <1>1. mx.owner \in {NoThread, t} BY DEF MayLock
  <1>2. mx.owner = NoThread => mx.count = 0 BY TableAssumption DEF Mutex, FreeMutex
  <1>3. Locked(mx, t) \in Mutex BY MutexLocked
  <1>4. Locked(mx, t).owner = t /\ Locked(mx, t).count = mx.count + 1 BY DEF Locked
  <1>5. t # NoThread /\ \A u \in Threads : u # NoThread BY TableAssumption
  <1>6. mx.owner = t \/ (mx.owner = NoThread /\ mx.count = 0) BY <1>1, <1>2
  <1> QED BY <1>3, <1>4, <1>5, <1>6 DEF Held

LEMMA HeldUnlocked ==
  ASSUME NEW mx \in Mutex, NEW t \in Threads
  PROVE  /\ Unlocked(mx, t) \in Mutex
         /\ \A n \in Nat : Held(mx, t) = n + 1 => Held(Unlocked(mx, t), t) = n
         /\ \A u \in Threads : u # t => Held(Unlocked(mx, t), u) = Held(mx, u)
  <1>1. Unlocked(mx, t) \in Mutex BY MutexUnlocked
  <1>2. mx.count \in Nat BY DEF Mutex, FreeMutex
  <1>3. t # NoThread /\ \A u \in Threads : u # NoThread BY TableAssumption
  <1>4. FreeMutex.owner = NoThread BY DEF FreeMutex
  <1>5. CASE mx.owner # t
    <2>1. Unlocked(mx, t) = mx BY <1>5 DEF Unlocked
    <2> QED BY <1>1, <1>5, <2>1 DEF Held
  <1>6. CASE mx.owner = t /\ mx.count > 1
    <2> DEFINE x == [owner |-> t, count |-> mx.count - 1]
    <2>1. Unlocked(mx, t) = x BY <1>6 DEF Unlocked
    <2>2. x.owner = t /\ x.count = mx.count - 1 OBVIOUS
    <2> HIDE DEF x
    <2> QED BY <1>1, <1>2, <1>6, <2>1, <2>2 DEF Held
  <1>7. CASE mx.owner = t /\ ~(mx.count > 1)
    <2>1. Unlocked(mx, t) = FreeMutex BY <1>7 DEF Unlocked
    <2> QED BY <1>1, <1>2, <1>3, <1>4, <1>7, <2>1 DEF Held
  <1> QED BY <1>5, <1>6, <1>7

\* t takes the first of the steps it has left and has more to do before the others;
\* what it holds, has copied and has sent follows.
LEMMA Keeps ==
  ASSUME CInv, PInv, NEW t \in Threads, todo[t] # <<>>, NEW more, Then(t, more),
         UNCHANGED <<setting, calls>>, Laid(more, setting),
         mutex' \in [Slots -> Mutex], glock' \in Mutex, SlotZero',
         \A r \in Resources : Works(r, setting) =>
           /\ \A k \in Nat : Goes(Head(todo[t]), r, HeldOf(r, t, mutex, glock), k) =>
                               Levels(more, r, HeldOf(r, t, mutex', glock'), k)
           /\ \A u \in Threads : u # t => HeldOf(r, u, mutex', glock') = HeldOf(r, u, mutex, glock),
         copies' = [u \in Threads |-> copies'[u]], sent' = [u \in Threads |-> sent'[u]],
         \A u \in Threads : u # t => copies'[u] = copies[u] /\ sent'[u] = sent[u],
         \A copy \in copies'[t] :
           \/ /\ copy \in copies[t]
              /\ Freeing(Head(todo[t]), copy[1], copy[2], setting) =>
                   Freed(more, copy[1], copy[2], setting)
           \/ /\ copy = <<copy[1], copy[2]>> /\ copy[2] \in TextParams
              /\ Freed(Tail(todo[t]), copy[1], copy[2], setting),
         \A i \in 1 .. setting.pool :
           /\ \A u \in Threads : u # t /\ converter'[i].lock.owner = u =>
                                   converter'[i].lock = converter[i].lock
           /\ converter'[i].lock.owner = t =>
                At(t, "iconv")' /\ Head(todo'[t]).i = i /\ converter'[i].lock.count = 1,
         Room => \A copy \in copies'[t] : copy[2] \in sent'[t] \/ Underway(todo'[t], copy[2])
  PROVE  PInv'
  <1> DEFINE rest == Tail(todo[t])
             s == more \o rest
  <1>1. todo = [u \in Threads |-> todo[u]] BY DEF CInv, ConverterTypes
  <1>2. /\ todo'[t] = s /\ \A u \in Threads : u # t => todo'[u] = todo[u]
    BY <1>1 DEF Then
  <1>3. Laid(todo[t], setting) BY DEF PInv, StepsLaid
  <1>4. /\ Laid(rest, setting)
        /\ \A fn, param : Freed(todo[t], fn, param, setting) =>
             Freeing(Head(todo[t]), fn, param, setting) \/ Freed(rest, fn, param, setting)
    BY <1>3, TailLaid
  <1>5. Laid(s, setting) BY <1>4, ConcatLaid
  <1>6. StepsLaid' BY <1>2, <1>5 DEF PInv, StepsLaid
  <1>7. LocksBalance'
    <2> SUFFICES ASSUME NEW u \in Threads, NEW r \in Resources, Works(r, setting)
                 PROVE  Levels(todo'[u], r, HeldOf(r, u, mutex', glock'), 0)
      BY DEF LocksBalance
    <2>1. Levels(todo[u], r, HeldOf(r, u, mutex, glock), 0) BY DEF PInv, LocksBalance
    <2>2. CASE u # t
      <3>1. todo'[u] = todo[u] /\ HeldOf(r, u, mutex', glock') = HeldOf(r, u, mutex, glock)
        BY <1>2, <2>2
      <3> QED BY <2>1, <3>1
    <2>3. CASE u = t
      <3> DEFINE n == HeldOf(r, t, mutex, glock)
                 m == HeldOf(r, t, mutex', glock')
      <3>1. Levels(todo[t], r, n, 0) BY <2>1, <2>3
      <3> HIDE DEF n, m
      <3>2. PICK k \in Nat : Goes(Head(todo[t]), r, n, k) /\ Levels(rest, r, k, 0)
        BY <3>1, LevelsTail
      <3>3. Levels(more, r, m, k) BY <3>2 DEF n, m
      <3>4. Levels(s, r, m, 0) BY <3>2, <3>3, LevelsConcat
      <3> QED BY <1>2, <2>3, <3>4 DEF m
    <2> QED BY <2>2, <2>3
  <1>8. CopiesOwed'
    <2> SUFFICES ASSUME NEW u \in Threads, NEW copy \in copies'[u]
                 PROVE  /\ copy = <<copy[1], copy[2]>> /\ copy[2] \in TextParams
                        /\ Freed(todo'[u], copy[1], copy[2], setting)
      BY DEF CopiesOwed
    <2>1. CASE u # t
      <3>1. copy \in copies[u] /\ todo'[u] = todo[u] BY <1>2, <2>1
      <3> QED BY <3>1 DEF PInv, CopiesOwed
    <2>2. CASE u = t
      <3> DEFINE fn == copy[1]
                 param == copy[2]
                 Pair2 == copy = <<fn, param>>
      <3> HIDE DEF fn, param, Pair2
      <3>1. /\ Pair2 /\ param \in TextParams
            /\ Freed(more, fn, param, setting) \/ Freed(rest, fn, param, setting)
        <4>1. CASE /\ copy \in copies[t]
                   /\ Freeing(Head(todo[t]), fn, param, setting) => Freed(more, fn, param, setting)
          <5>1. Pair2 /\ param \in TextParams /\ Freed(todo[t], fn, param, setting)
            BY <4>1 DEF PInv, CopiesOwed, fn, param, Pair2
          <5> QED BY <1>4, <4>1, <5>1
        <4>2. CASE Pair2 /\ param \in TextParams /\ Freed(rest, fn, param, setting) BY <4>2
        <4> QED BY <2>2, <4>1, <4>2 DEF fn, param, Pair2
      <3>2. Freed(s, fn, param, setting) BY <1>4, <3>1, FreedConcat DEF Laid
      <3> QED BY <1>2, <2>2, <3>1, <3>2 DEF fn, param, Pair2
    <2> QED BY <2>1, <2>2
  <1>9. ConvertersHeld'
    <2> SUFFICES ASSUME NEW u \in Threads, NEW i \in 1 .. setting.pool, converter'[i].lock.owner = u
                 PROVE  At(u, "iconv")' /\ Head(todo'[u]).i = i /\ converter'[i].lock.count = 1
      BY DEF ConvertersHeld
    <2>1. CASE u # t
      <3>1. converter'[i].lock = converter[i].lock BY <2>1
      <3>2. At(u, "iconv") /\ Head(todo[u]).i = i /\ converter[i].lock.count = 1
        BY <3>1 DEF PInv, ConvertersHeld
      <3> QED BY <1>2, <2>1, <3>1, <3>2 DEF At
    <2>2. CASE u = t BY <2>2
    <2> QED BY <2>1, <2>2
  <1>10. TextSent'
    <2> SUFFICES ASSUME Room, NEW u \in Threads, NEW copy \in copies'[u]
                 PROVE  copy[2] \in sent'[u] \/ Underway(todo'[u], copy[2])
      BY DEF TextSent, Room
    <2>1. CASE u # t
      <3>1. copy \in copies[u] /\ sent'[u] = sent[u] /\ todo'[u] = todo[u] BY <1>2, <2>1
      <3> QED BY <3>1 DEF PInv, TextSent
    <2>2. CASE u = t BY <2>2
    <2> QED BY <2>1, <2>2
  <1>11. PathTypes' BY DEF PInv, PathTypes
  <1> QED BY <1>6, <1>7, <1>8, <1>9, <1>10, <1>11 DEF PInv

\* The same where converters, copies and what is sent stay as they are.
LEMMA QuietKeeps ==
  ASSUME CInv, PInv, NEW t \in Threads, todo[t] # <<>>, NEW more, Then(t, more),
         UNCHANGED <<setting, calls, converter, copies, sent>>, Laid(more, setting),
         mutex' \in [Slots -> Mutex], glock' \in Mutex, SlotZero',
         \A r \in Resources : Works(r, setting) =>
           /\ \A k \in Nat : Goes(Head(todo[t]), r, HeldOf(r, t, mutex, glock), k) =>
                               Levels(more, r, HeldOf(r, t, mutex', glock'), k)
           /\ \A u \in Threads : u # t => HeldOf(r, u, mutex', glock') = HeldOf(r, u, mutex, glock),
         Head(todo[t]).do # "iconv",
         \A fn, param : Freeing(Head(todo[t]), fn, param, setting) => Freed(more, fn, param, setting),
         \A p : Underway(todo[t], p) => Underway(todo'[t], p)
  PROVE  PInv'
  <1>1. copies' = [u \in Threads |-> copies'[u]] /\ sent' = [u \in Threads |-> sent'[u]]
    BY DEF PInv, PathTypes
  <1>2. \A u \in Threads : u # t => copies'[u] = copies[u] /\ sent'[u] = sent[u] OBVIOUS
  <1>3. \A copy \in copies'[t] :
          /\ copy \in copies[t]
          /\ Freeing(Head(todo[t]), copy[1], copy[2], setting) =>
               Freed(more, copy[1], copy[2], setting)
    OBVIOUS
  <1>4. ~At(t, "iconv") BY DEF At
  <1>5. \A i \in 1 .. setting.pool : converter'[i].lock = converter[i].lock
                                     /\ converter'[i].lock.owner # t
    BY <1>4 DEF PInv, ConvertersHeld
  <1>6. Room => \A copy \in copies'[t] : copy[2] \in sent'[t] \/ Underway(todo'[t], copy[2])
    BY DEF PInv, TextSent
  <1> QED BY <1>1, <1>2, <1>3, <1>5, <1>6, Keeps

\* The first step is no part of a conversion.
LEMMA NotUnderway ==
  ASSUME NEW s, s # <<>>, Head(s).do \notin Carries \cup {"lock", "init_lock"}, NEW p
  PROVE  ~Underway(s, p)
  BY DEF Underway, Carrying

\* And where no mutex is touched.
LEMMA UnlockedKeeps ==
  ASSUME CInv, PInv, NEW t \in Threads, todo[t] # <<>>, NEW more, Then(t, more),
         UNCHANGED <<setting, calls, converter, copies, sent, mutex, glock>>, Laid(more, setting),
         \A r \in Resources : \A n, k \in Nat :
           Goes(Head(todo[t]), r, n, k) => Levels(more, r, n, k),
         Head(todo[t]).do \notin Carries \cup {"lock", "init_lock"},
         \A fn, param : Freeing(Head(todo[t]), fn, param, setting) => Freed(more, fn, param, setting)
  PROVE  PInv'
  <1>1. mutex' \in [Slots -> Mutex] /\ glock' \in Mutex /\ SlotZero'
    BY DEF PInv, PathTypes, SlotZero
  <1>2. \A r : \A u : HeldOf(r, u, mutex', glock') = HeldOf(r, u, mutex, glock) BY DEF HeldOf
  <1>3. \A r \in Resources : HeldOf(r, t, mutex, glock) \in Nat BY HeldOfNat DEF PInv
  <1>4. \A r \in Resources : Works(r, setting) =>
          /\ \A k \in Nat : Goes(Head(todo[t]), r, HeldOf(r, t, mutex, glock), k) =>
                              Levels(more, r, HeldOf(r, t, mutex', glock'), k)
          /\ \A u \in Threads : u # t => HeldOf(r, u, mutex', glock') = HeldOf(r, u, mutex, glock)
    <2> SUFFICES ASSUME NEW r \in Resources
                 PROVE  /\ \A k \in Nat : Goes(Head(todo[t]), r, HeldOf(r, t, mutex, glock), k) =>
                              Levels(more, r, HeldOf(r, t, mutex', glock'), k)
                        /\ \A u \in Threads : HeldOf(r, u, mutex', glock') = HeldOf(r, u, mutex, glock)
      OBVIOUS
    <2> DEFINE n == HeldOf(r, t, mutex, glock)
               m == HeldOf(r, t, mutex', glock')
    <2>1. n \in Nat /\ m = n BY <1>2, <1>3
    <2> HIDE DEF n, m
    <2>2. \A k \in Nat : Goes(Head(todo[t]), r, n, k) => Levels(more, r, m, k) BY <2>1
    <2> QED BY <1>2, <2>2 DEF n, m
  <1>5. \A p : ~Underway(todo[t], p) BY NotUnderway
  <1>6. Head(todo[t]).do # "iconv" BY DEF Carries
  <1> QED BY <1>1, <1>4, <1>5, <1>6, QuietKeeps

\* What comes of a step that locks and unlocks nothing neither does.
LEMMA NeutralKeeps ==
  ASSUME NEW x, Neutral(x), NEW more, NEW r, NEW n \in Nat, NEW k \in Nat, Goes(x, r, n, k),
         Levels(more, r, n, n)
  PROVE  Levels(more, r, n, k)
  <1>1. k = n BY DEF Neutral, Goes, Enters, Leaves
  <1> QED BY <1>1

-----------------------------------------------------------------------------
(* The actions                                                               *)

\* What is known of the step a thread takes.
LEMMA FirstStep ==
  ASSUME CInv, PInv, NEW t \in Threads, todo[t] # <<>>
  PROVE  /\ Head(todo[t]).fn \in DOMAIN Functions /\ Head(todo[t]).c \in Slots
         /\ Formed(Head(todo[t]))
         /\ Laid(Tail(todo[t]), setting)
         /\ Head(todo[t]).do = "copyin" =>
              /\ Head(todo[t]).p \in TextParams
              /\ Freed(Tail(todo[t]), Head(todo[t]).fn, Head(todo[t]).p, setting)
  <1>1. Laid(todo[t], setting) BY DEF PInv, StepsLaid
  <1> QED BY <1>1, TailLaid DEF Formed

LEMMA ThenNothing ==
  ASSUME CInv, PInv, NEW t \in Threads, todo[t] # <<>>, Then(t, <<>>)
  PROVE  todo'[t] = Tail(todo[t])
  <1>1. todo = [u \in Threads |-> todo[u]] BY DEF CInv, ConverterTypes
  <1>2. todo'[t] = <<>> \o Tail(todo[t]) BY <1>1 DEF Then
  <1>3. Laid(Tail(todo[t]), setting) BY FirstStep
  <1>4. PICK S : Tail(todo[t]) \in Seq(S) BY <1>3 DEF Laid, IsSteps
  <1> QED BY <1>2, <1>4, ConcatEmptySeq

\* A lock in front of a conversion.
LEMMA StillUnderway ==
  ASSUME CInv, PInv, NEW t \in Threads, todo[t] # <<>>, Then(t, <<>>),
         Head(todo[t]).do \notin Carries
  PROVE  \A p : Underway(todo[t], p) => Underway(todo'[t], p)
  <1>1. todo'[t] = Tail(todo[t]) BY ThenNothing
  <1> QED BY <1>1 DEF Underway, Carrying

LEMMA SlotResource ==
  ASSUME NEW c \in Slots
  PROVE  c \in Resources /\ c # Process /\ Process \in Resources /\ Works(Process, setting)
  BY TableAssumption DEF Slots, Resources, Process, Works

\* A client's call: nothing is held, copied or under way yet.
LEMMA CallPath == ASSUME CInv, PInv, NEW t \in Threads, Call(t) PROVE PInv'
  <1>1. /\ todo[t] = <<>> /\ setting \in Settings /\ todo = [u \in Threads |-> todo[u]]
        /\ UNCHANGED <<setting, mutex, glock, converter, copies>>
        /\ calls' = [calls EXCEPT ![t] = @ + 1] /\ calls[t] < MaxCalls
        /\ sent' = [sent EXCEPT ![t] = {}]
    BY DEF Call, CInv, ConverterTypes
  <1>2. PICK call \in setting.menu[t] : todo' = [todo EXCEPT ![t] = Enter(call[1], call[2], "")]
    BY DEF Call
  <1> DEFINE fn == call[1]
             c == call[2]
             s == Enter(fn, c, "")
  <1>3. fn \in DOMAIN Functions /\ c \in Slots
    <2>1. call \in (DOMAIN Functions) \X Conns BY <1>1, <1>2, PathAssumption
    <2>2. Conns \subseteq Slots BY PathAssumption, TableAssumption DEF HandleNums, Slots
    <2> QED BY <2>1, <2>2
  <1>4. Laid(s, setting) BY <1>3, EnterLaid
  <1>5. \A r : \A n \in Nat : Levels(s, r, n, n) BY <1>3, EnterLevels
  <1> HIDE DEF fn, c, s
  <1>6. todo'[t] = s /\ \A u \in Threads : u # t => todo'[u] = todo[u] BY <1>1, <1>2 DEF s, fn, c
  <1>7. StepsLaid' BY <1>1, <1>4, <1>6 DEF PInv, StepsLaid
  <1>8. \A r \in Resources : Works(r, setting) => HeldOf(r, t, mutex, glock) = 0
    BY <1>1, LevelsOfEmpty DEF PInv, LocksBalance
  <1>9. \A r : \A u : HeldOf(r, u, mutex', glock') = HeldOf(r, u, mutex, glock)
    BY <1>1 DEF HeldOf
  <1>10. LocksBalance'
    <2> SUFFICES ASSUME NEW u \in Threads, NEW r \in Resources, Works(r, setting)
                 PROVE  Levels(todo'[u], r, HeldOf(r, u, mutex', glock'), 0)
      BY <1>1 DEF LocksBalance
    <2>1. CASE u = t
      <3>1. HeldOf(r, u, mutex', glock') = 0 BY <1>8, <1>9, <2>1
      <3>2. Levels(s, r, 0, 0) BY <1>5
      <3> QED BY <1>6, <2>1, <3>1, <3>2
    <2>2. CASE u # t
      <3>1. Levels(todo[u], r, HeldOf(r, u, mutex, glock), 0) BY DEF PInv, LocksBalance
      <3>2. todo'[u] = todo[u] /\ HeldOf(r, u, mutex', glock') = HeldOf(r, u, mutex, glock)
        BY <1>6, <1>9, <2>2
      <3> QED BY <3>1, <3>2
    <2> QED BY <2>1, <2>2
  <1>11. copies[t] = {}
    <2>1. Len(<<>>) = 0 BY EmptySeq
    <2>2. \A copy \in copies[t] : Freed(<<>>, copy[1], copy[2], setting)
      BY <1>1 DEF PInv, CopiesOwed
    <2> QED BY <2>1, <2>2 DEF Freed
  <1>12. CopiesOwed'
    <2> SUFFICES ASSUME NEW u \in Threads, NEW copy \in copies'[u]
                 PROVE  /\ copy = <<copy[1], copy[2]>> /\ copy[2] \in TextParams
                        /\ Freed(todo'[u], copy[1], copy[2], setting)
      BY <1>1 DEF CopiesOwed
    <2>1. u # t /\ copy \in copies[u] BY <1>1, <1>11
    <2> QED BY <1>6, <2>1 DEF PInv, CopiesOwed
  <1>13. ConvertersHeld'
    <2>1. \A i \in 1 .. setting.pool : converter[i].lock.owner # t
      BY <1>1 DEF PInv, ConvertersHeld, At
    <2>2. \A u \in Threads : u # t =>
            /\ At(u, "iconv")' <=> At(u, "iconv")
            /\ Head(todo'[u]).i = Head(todo[u]).i
      BY <1>6 DEF At
    <2> QED BY <1>1, <2>1, <2>2 DEF PInv, ConvertersHeld
  <1>14. TextSent'
    <2> SUFFICES ASSUME Room, NEW u \in Threads, NEW copy \in copies'[u]
                 PROVE  copy[2] \in sent'[u] \/ Underway(todo'[u], copy[2])
      BY <1>1 DEF TextSent, Room
    <2>1. u # t /\ copy \in copies[u] BY <1>1, <1>11
    <2>2. sent'[u] = sent[u] /\ todo'[u] = todo[u] BY <1>1, <1>6, <2>1 DEF PInv, PathTypes
    <2> QED BY <2>1, <2>2 DEF PInv, TextSent
  <1>15. PathTypes'
    <2>1. mutex' \in [Slots -> Mutex] /\ glock' \in Mutex /\ copies' = [u \in Threads |-> copies'[u]]
      BY <1>1 DEF PInv, PathTypes
    <2>2. MaxCalls \in Nat /\ calls \in [Threads -> 0 .. MaxCalls]
      BY PathAssumption DEF PInv, PathTypes
    <2>3. calls' \in [Threads -> 0 .. MaxCalls] BY <1>1, <2>2
    <2>4. sent' = [u \in Threads |-> sent'[u]] BY <1>1 DEF PInv, PathTypes
    <2> QED BY <2>1, <2>3, <2>4 DEF PathTypes
  <1>16. SlotZero' BY <1>1 DEF PInv, SlotZero
  <1> QED BY <1>7, <1>10, <1>12, <1>13, <1>14, <1>15, <1>16 DEF PInv

\* The lock of slot 0 may fail, and is then never taken.
LEMMA TableLockPath == ASSUME CInv, PInv, NEW t \in Threads, TableLock(t) PROVE PInv'
  <1> DEFINE x == Head(todo[t])
             c == x.c
             fails == c = 0 /\ ~setting.slot0
  <1>1. /\ todo[t] # <<>> /\ x.do = "lock" /\ Then(t, <<>>)
        /\ UNCHANGED <<setting, glock, converter, copies, sent, calls>>
        /\ fails \/ MayLock(mutex[c], t)
        /\ mutex' = [mutex EXCEPT ![c] = IF fails THEN @ ELSE Locked(@, t)]
    BY DEF TableLock, At
  <1>2. c \in Slots /\ Lock(x.fn) = "lock" BY <1>1, FirstStep DEF Formed
  <1>3. mutex \in [Slots -> Mutex] /\ glock \in Mutex BY DEF PInv, PathTypes
  <1>4. mutex[c] \in Mutex BY <1>2, <1>3
  <1> HIDE DEF x
  <1>5. mutex' \in [Slots -> Mutex] /\ glock' \in Mutex
    BY <1>1, <1>3, <1>4, HeldLocked
  <1>6. SlotZero' BY <1>1, <1>2, <1>3, TableAssumption DEF PInv, SlotZero, Slots
  <1>7. ASSUME NEW r \in Resources, Works(r, setting)
        PROVE  /\ \A k \in Nat : Goes(x, r, HeldOf(r, t, mutex, glock), k) =>
                                   Levels(<<>>, r, HeldOf(r, t, mutex', glock'), k)
               /\ \A u \in Threads : u # t => HeldOf(r, u, mutex', glock') = HeldOf(r, u, mutex, glock)
    <2> DEFINE n == HeldOf(r, t, mutex, glock)
               m == HeldOf(r, t, mutex', glock')
    <2>0. n \in Nat BY HeldOfNat DEF PInv
    <2>1. c # Process BY <1>2, SlotResource
    <2>2. CASE r = c
      <3>1. ~fails BY <1>7, <2>2 DEF Works
      <3>2. mutex'[c] = Locked(mutex[c], t) /\ MayLock(mutex[c], t) BY <1>1, <1>2, <1>3, <3>1
      <3>3. /\ HeldOf(r, t, mutex', glock') = Held(mutex[c], t) + 1
            /\ \A u \in Threads : u # t => HeldOf(r, u, mutex', glock') = HeldOf(r, u, mutex, glock)
        BY <1>4, <2>1, <2>2, <3>2, HeldLocked DEF HeldOf
      <3>4. n = Held(mutex[c], t) BY <2>1, <2>2 DEF HeldOf
      <3>5. Enters(x, r) BY <1>1, <1>2, <2>2 DEF Enters, Takes
      <3>6. m = n + 1 BY <3>3, <3>4
      <3> HIDE DEF n, m
      <3>7. \A k \in Nat : Goes(x, r, n, k) => k = m BY <3>5, <3>6 DEF Goes
      <3>8. \A k \in Nat : Goes(x, r, n, k) => Levels(<<>>, r, m, k) BY <3>7, LevelsEmpty
      <3> QED BY <3>3, <3>8 DEF n, m
    <2>3. CASE r # c
      <3>1. r # Process => mutex'[r] = mutex[r] BY <1>1, <1>3, <2>3 DEF Resources
      <3>2. \A u : HeldOf(r, u, mutex', glock') = HeldOf(r, u, mutex, glock)
        BY <1>1, <3>1 DEF HeldOf
      <3>3. ~Enters(x, r) /\ ~Leaves(x, r)
        BY <1>1, <1>2, <2>3 DEF Enters, Leaves, Takes, Last
      <3>4. m = n BY <3>2
      <3> HIDE DEF n, m
      <3>5. \A k \in Nat : Goes(x, r, n, k) => k = m BY <3>3, <3>4 DEF Goes
      <3>6. \A k \in Nat : Goes(x, r, n, k) => Levels(<<>>, r, m, k) BY <3>5, LevelsEmpty
      <3> QED BY <3>2, <3>6 DEF n, m
    <2> QED BY <2>2, <2>3
  <1>8. Laid(<<>>, setting) BY EmptyLaid
  <1>9. \A p : Underway(todo[t], p) => Underway(todo'[t], p)
    BY <1>1, StillUnderway DEF Carries, x
  <1>10. \A fn, param : ~Freeing(x, fn, param, setting) BY <1>1 DEF Freeing
  <1>11. x.do # "iconv" BY <1>1
  <1> QED BY <1>1, <1>5, <1>6, <1>7, <1>8, <1>9, <1>10, <1>11, QuietKeeps DEF x

LEMMA TableUnlockPath == ASSUME CInv, PInv, NEW t \in Threads, TableUnlock(t) PROVE PInv'
  <1> DEFINE x == Head(todo[t])
             c == x.c
  <1>1. /\ todo[t] # <<>> /\ x.do = "unlock" /\ Then(t, <<>>)
        /\ UNCHANGED <<setting, glock, converter, copies, sent, calls>>
        /\ mutex' = [mutex EXCEPT ![c] = Unlocked(@, t)]
    BY DEF TableUnlock, At
  <1>2. c \in Slots /\ Lock(x.fn) = "lock" BY <1>1, FirstStep DEF Formed
  <1>3. mutex \in [Slots -> Mutex] /\ glock \in Mutex BY DEF PInv, PathTypes
  <1>4. mutex[c] \in Mutex BY <1>2, <1>3
  <1> HIDE DEF x
  <1>5. mutex' \in [Slots -> Mutex] /\ glock' \in Mutex
    BY <1>1, <1>3, <1>4, HeldUnlocked
  <1>6. SlotZero'
    <2>1. Unlocked(FreeMutex, t) = FreeMutex BY TableAssumption DEF Unlocked, FreeMutex
    <2>2. 0 \in Slots BY TableAssumption DEF Slots
    <2> QED BY <1>1, <1>2, <1>3, <2>1, <2>2 DEF PInv, SlotZero
  <1>7. ASSUME NEW r \in Resources, Works(r, setting)
        PROVE  /\ \A k \in Nat : Goes(x, r, HeldOf(r, t, mutex, glock), k) =>
                                   Levels(<<>>, r, HeldOf(r, t, mutex', glock'), k)
               /\ \A u \in Threads : u # t => HeldOf(r, u, mutex', glock') = HeldOf(r, u, mutex, glock)
    <2> DEFINE n == HeldOf(r, t, mutex, glock)
               m == HeldOf(r, t, mutex', glock')
    <2>0. n \in Nat BY HeldOfNat DEF PInv
    <2>1. c # Process BY <1>2, SlotResource
    <2>2. CASE r = c
      <3>1. mutex'[c] = Unlocked(mutex[c], t) BY <1>1, <1>2, <1>3
      <3>2. n = Held(mutex[c], t) /\ m = Held(Unlocked(mutex[c], t), t)
        BY <2>1, <2>2, <3>1 DEF HeldOf
      <3>3. \A u \in Threads : u # t => HeldOf(r, u, mutex', glock') = HeldOf(r, u, mutex, glock)
        BY <1>4, <2>1, <2>2, <3>1, HeldUnlocked DEF HeldOf
      <3>4. Leaves(x, r) BY <1>1, <1>2, <2>2 DEF Leaves, Takes, Last
      <3>5. \A k \in Nat : n = k + 1 => m = k
        <4>1. \A k \in Nat : Held(mutex[c], t) = k + 1 => Held(Unlocked(mutex[c], t), t) = k
          BY <1>4, HeldUnlocked
        <4> HIDE DEF n, m
        <4> QED BY <3>2, <4>1
      <3> HIDE DEF n, m
      <3>6. \A k \in Nat : Goes(x, r, n, k) => k = m BY <3>4, <3>5 DEF Goes
      <3>7. \A k \in Nat : Goes(x, r, n, k) => Levels(<<>>, r, m, k) BY <3>6, LevelsEmpty
      <3> QED BY <3>3, <3>7 DEF n, m
    <2>3. CASE r # c
      <3>1. r # Process => mutex'[r] = mutex[r] BY <1>1, <1>3, <2>3 DEF Resources
      <3>2. \A u : HeldOf(r, u, mutex', glock') = HeldOf(r, u, mutex, glock)
        BY <1>1, <3>1 DEF HeldOf
      <3>3. ~Enters(x, r) /\ ~Leaves(x, r)
        BY <1>1, <1>2, <2>3 DEF Enters, Leaves, Takes, Last
      <3>4. m = n BY <3>2
      <3> HIDE DEF n, m
      <3>5. \A k \in Nat : Goes(x, r, n, k) => k = m BY <3>3, <3>4 DEF Goes
      <3>6. \A k \in Nat : Goes(x, r, n, k) => Levels(<<>>, r, m, k) BY <3>5, LevelsEmpty
      <3> QED BY <3>2, <3>6 DEF n, m
    <2> QED BY <2>2, <2>3
  <1>8. Laid(<<>>, setting) BY EmptyLaid
  <1>9. \A p : Underway(todo[t], p) => Underway(todo'[t], p)
    BY <1>1, StillUnderway DEF Carries, x
  <1>10. \A fn, param : ~Freeing(x, fn, param, setting) BY <1>1 DEF Freeing
  <1>11. x.do # "iconv" BY <1>1
  <1> QED BY <1>1, <1>5, <1>6, <1>7, <1>8, <1>9, <1>10, <1>11, QuietKeeps DEF x

\* init_lock and init_unlock.
LEMMA InitLockPath ==
  ASSUME CInv, PInv, NEW t \in Threads, InitLock(t) \/ InitUnlock(t)
  PROVE  PInv'
  <1> DEFINE x == Head(todo[t])
  <1>1. /\ todo[t] # <<>> /\ x.do \in {"init_lock", "init_unlock"} /\ Then(t, <<>>)
        /\ UNCHANGED <<setting, mutex, converter, copies, sent, calls>>
        /\ x.do = "init_lock" => MayLock(glock, t) /\ glock' = Locked(glock, t)
        /\ x.do = "init_unlock" => glock' = Unlocked(glock, t)
    BY DEF InitLock, InitUnlock, At
  <1>2. Lock(x.fn) = "init_lock" BY <1>1, FirstStep DEF Formed
  <1>3. mutex \in [Slots -> Mutex] /\ glock \in Mutex BY DEF PInv, PathTypes
  <1> HIDE DEF x
  <1>5. mutex' \in [Slots -> Mutex] /\ glock' \in Mutex
    BY <1>1, <1>3, HeldLocked, HeldUnlocked
  <1>6. SlotZero' BY <1>1 DEF PInv, SlotZero
  <1>7. ASSUME NEW r \in Resources, Works(r, setting)
        PROVE  /\ \A k \in Nat : Goes(x, r, HeldOf(r, t, mutex, glock), k) =>
                                   Levels(<<>>, r, HeldOf(r, t, mutex', glock'), k)
               /\ \A u \in Threads : u # t => HeldOf(r, u, mutex', glock') = HeldOf(r, u, mutex, glock)
    <2> DEFINE n == HeldOf(r, t, mutex, glock)
               m == HeldOf(r, t, mutex', glock')
    <2>0. n \in Nat BY HeldOfNat DEF PInv
    <2>1. CASE r = Process
      <3>1. n = Held(glock, t) /\ m = Held(glock', t) BY <2>1 DEF HeldOf
      <3>2. \A u \in Threads : u # t => HeldOf(r, u, mutex', glock') = HeldOf(r, u, mutex, glock)
        BY <1>1, <1>3, <2>1, HeldLocked, HeldUnlocked DEF HeldOf
      <3>3. CASE x.do = "init_lock"
        <4>1. Enters(x, r) BY <1>2, <2>1, <3>3 DEF Enters, Takes
        <4>2. m = n + 1 BY <1>1, <1>3, <3>1, <3>3, HeldLocked
        <4> HIDE DEF n, m
        <4>3. \A k \in Nat : Goes(x, r, n, k) => k = m BY <4>1, <4>2 DEF Goes
        <4>4. \A k \in Nat : Goes(x, r, n, k) => Levels(<<>>, r, m, k) BY <4>3, LevelsEmpty
        <4> QED BY <3>2, <4>4 DEF n, m
      <3>4. CASE x.do = "init_unlock"
        <4>1. Leaves(x, r) BY <1>2, <2>1, <3>4 DEF Leaves, Takes, Last
        <4>2. \A k \in Nat : n = k + 1 => m = k
          <5>1. \A k \in Nat : Held(glock, t) = k + 1 => Held(Unlocked(glock, t), t) = k
            BY <1>3, HeldUnlocked
          <5>2. Held(glock', t) = Held(Unlocked(glock, t), t) BY <1>1, <3>4
          <5> HIDE DEF n, m
          <5> QED BY <3>1, <5>1, <5>2
        <4> HIDE DEF n, m
        <4>3. \A k \in Nat : Goes(x, r, n, k) => k = m BY <4>1, <4>2 DEF Goes
        <4>4. \A k \in Nat : Goes(x, r, n, k) => Levels(<<>>, r, m, k) BY <4>3, LevelsEmpty
        <4> QED BY <3>2, <4>4 DEF n, m
      <3> QED BY <1>1, <3>3, <3>4
    <2>2. CASE r # Process
      <3>1. \A u : HeldOf(r, u, mutex', glock') = HeldOf(r, u, mutex, glock)
        BY <1>1, <2>2 DEF HeldOf
      <3>2. ~Enters(x, r) /\ ~Leaves(x, r) BY <1>2, <2>2 DEF Enters, Leaves, Takes
      <3>3. m = n BY <3>1
      <3> HIDE DEF n, m
      <3>4. \A k \in Nat : Goes(x, r, n, k) => k = m BY <3>2, <3>3 DEF Goes
      <3>5. \A k \in Nat : Goes(x, r, n, k) => Levels(<<>>, r, m, k) BY <3>4, LevelsEmpty
      <3> QED BY <3>1, <3>5 DEF n, m
    <2> QED BY <2>1, <2>2
  <1>8. Laid(<<>>, setting) BY EmptyLaid
  <1>9. \A p : Underway(todo[t], p) => Underway(todo'[t], p)
    BY <1>1, StillUnderway DEF Carries, x
  <1>10. \A fn, param : ~Freeing(x, fn, param, setting) BY <1>1 DEF Freeing
  <1>11. x.do # "iconv" BY <1>1
  <1> QED BY <1>1, <1>5, <1>6, <1>7, <1>8, <1>9, <1>10, <1>11, QuietKeeps DEF x

\* DB2's answer: the copies are freed and the lock given up in what follows.
LEMMA Db2Path == ASSUME CInv, PInv, NEW t \in Threads, Db2Answers(t) PROVE PInv'
  <1> DEFINE x == Head(todo[t])
             fn == x.fn
             c == x.c
  <1>1. /\ todo[t] # <<>> /\ x.do = "db2"
        /\ UNCHANGED <<setting, mutex, glock, converter, copies, sent, calls>>
    BY DEF Db2Answers, At
  <1>2. PICK ok \in BOOLEAN : \E b \in BOOLEAN : Then(t, After(fn, c, ok, b)) BY DEF Db2Answers, Told
  <1>13. PICK told \in BOOLEAN : Then(t, After(fn, c, ok, told)) BY <1>2
  <1>3. fn \in DOMAIN Functions /\ c \in Slots BY <1>1, FirstStep
  <1>4. \A r \in Resources : \A n, k \in Nat : Drops(fn, c, r, n, k) => Levels(After(fn, c, ok, told), r, n, k)
    BY <1>3, AfterLevels
  <1>5. Laid(After(fn, c, ok, told), setting) BY <1>3, AfterLaid
  <1>6. \A param : Freeing(Do("db2", fn, c), fn, param, setting) =>
                     Freed(After(fn, c, ok, told), fn, param, setting)
    BY <1>3, AfterLaid
  <1>7. \A r : \A n, k \in Nat : Goes(x, r, n, k) => Drops(fn, c, r, n, k)
    <2> HIDE DEF x
    <2> QED BY <1>1, LastGoes DEF Last
  <1>8. \A f, param : Freeing(x, f, param, setting) =>
          f = fn /\ Freeing(Do("db2", fn, c), fn, param, setting)
    <2>1. Do("db2", fn, c).do = "db2" /\ Do("db2", fn, c).fn = fn BY StepFields
    <2> HIDE DEF x
    <2> QED BY <1>1, <2>1 DEF Freeing
  <1> DEFINE more == After(fn, c, ok, told)
  <1>9. Then(t, more) /\ Laid(more, setting) BY <1>5, <1>13
  <1>10. \A r \in Resources : \A n, k \in Nat : Goes(x, r, n, k) => Levels(more, r, n, k)
    BY <1>4, <1>7
  <1>11. \A f, param : Freeing(x, f, param, setting) => Freed(more, f, param, setting)
    BY <1>6, <1>8
  <1> HIDE DEF more
  <1>12. x.do \notin Carries \cup {"lock", "init_lock"} BY <1>1 DEF Carries
  <1> QED BY <1>1, <1>9, <1>10, <1>11, <1>12, UnlockedKeeps

\* A step that locks nothing, unlocks nothing and has to do with no copy.
LEMMA NeutralPath ==
  ASSUME CInv, PInv, NEW t \in Threads, todo[t] # <<>>,
         Head(todo[t]).do \in {"env", "dump", "diag", "copyout", "copyin"},
         UNCHANGED <<setting, mutex, glock, converter, copies, sent, calls>>,
         NEW more, Then(t, more), Laid(more, setting),
         \A r \in Resources : \A n \in Nat : Levels(more, r, n, n)
  PROVE  PInv'
  <1> DEFINE x == Head(todo[t])
  <1>1. Neutral(x) /\ x.do \notin Carries \cup {"lock", "init_lock"}
    BY DEF Neutral, Last, Carries
  <1>2. \A fn, param : ~Freeing(x, fn, param, setting) BY DEF Freeing
  <1> HIDE DEF x
  <1>3. \A r \in Resources : \A n, k \in Nat : Goes(x, r, n, k) => Levels(more, r, n, k)
    BY <1>1, NeutralKeeps
  <1> QED BY <1>1, <1>2, <1>3, UnlockedKeeps DEF x

\* custom_SQLSetEnvCCSID calls SQLSetEnvAttr, which takes no lock.
LEMMA SetEnvPath == ASSUME CInv, PInv, NEW t \in Threads, SetEnvCCSID(t) PROVE PInv'
  <1> DEFINE x == Do("db2", "SQLSetEnvAttr", 0)
             more == <<x>>
  <1>1. /\ todo[t] # <<>> /\ Head(todo[t]).do = "env" /\ Then(t, more)
        /\ UNCHANGED <<setting, mutex, glock, converter, copies, sent, calls>>
    BY DEF SetEnvCCSID, At
  <1>2. x.do = "db2" /\ x.fn = "SQLSetEnvAttr" /\ x.c = 0 BY StepFields
  <1> HIDE DEF x
  <1>3. x.fn \in DOMAIN Functions /\ Lock(x.fn) = "none" BY <1>2, EnvAttrBare
  <1>4. 0 \in Slots BY TableAssumption DEF Slots
  <1>5. Laid(more, setting) BY <1>2, <1>3, <1>4, OneLaid DEF Formed
  <1>6. \A r \in Resources : \A n \in Nat : Levels(more, r, n, n)
    BY <1>2, <1>3, LastLevels DEF Last, Drops, Takes
  <1> HIDE DEF more
  <1> QED BY <1>1, <1>5, <1>6, NeutralPath

\* The trace goes out whole.
LEMMA DumpPath == ASSUME CInv, PInv, NEW t \in Threads, Dump(t) PROVE PInv'
  <1>1. /\ todo[t] # <<>> /\ Head(todo[t]).do = "dump" /\ Then(t, <<>>)
        /\ UNCHANGED <<setting, mutex, glock, converter, copies, sent, calls>>
    BY DEF Dump, At
  <1>2. Laid(<<>>, setting) /\ \A r \in Resources : \A n \in Nat : Levels(<<>>, r, n, n)
    BY EmptyLaid, LevelsEmpty
  <1> QED BY <1>1, <1>2, NeutralPath

\* The trace of a refused call and non_utf_copy_out call exported functions.
LEMMA NestedCall ==
  ASSUME CInv, PInv, NEW t \in Threads, todo[t] # <<>>,
         Head(todo[t]).do \in {"diag", "copyout"},
         UNCHANGED <<setting, mutex, glock, converter, copies, sent, calls>>,
         NEW fn \in DOMAIN Functions, NEW p,
         Then(t, Enter(fn, Head(todo[t]).c, p)) \/ Then(t, <<>>)
  PROVE  PInv'
  <1> DEFINE c == Head(todo[t]).c
             more == Enter(fn, c, p)
  <1>1. CASE Then(t, more)
    <2>1. c \in Slots BY FirstStep
    <2>2. Laid(more, setting) BY <2>1, EnterLaid
    <2>3. \A r \in Resources : \A n \in Nat : Levels(more, r, n, n) BY <2>1, EnterLevels
    <2> HIDE DEF more
    <2> QED BY <1>1, <2>2, <2>3, NeutralPath
  <1>2. CASE Then(t, <<>>)
    <2>1. Laid(<<>>, setting) /\ \A r \in Resources : \A n \in Nat : Levels(<<>>, r, n, n)
      BY EmptyLaid, LevelsEmpty
    <2> QED BY <1>2, <2>1, NeutralPath
  <1> QED BY <1>1, <1>2

LEMMA DiagPath == ASSUME CInv, PInv, NEW t \in Threads, Diag(t) PROVE PInv'
  <1>1. /\ todo[t] # <<>> /\ Head(todo[t]).do = "diag"
        /\ UNCHANGED <<setting, mutex, glock, converter, copies, sent, calls>>
    BY DEF Diag, At
  <1>2. PICK p : Then(t, Enter("SQLGetDiagRec", Head(todo[t]).c, p)) BY DEF Diag
  <1>3. "SQLGetDiagRec" \in DOMAIN Functions BY TablesAssumption
  <1> QED BY <1>1, <1>2, <1>3, NestedCall

LEMMA CopyOutPath == ASSUME CInv, PInv, NEW t \in Threads, CopyOut(t) PROVE PInv'
  <1>1. /\ todo[t] # <<>> /\ Head(todo[t]).do = "copyout"
        /\ UNCHANGED <<setting, mutex, glock, converter, copies, sent, calls>>
    BY DEF CopyOut, At
  <1>2. PICK p : \/ Then(t, Enter("SQL400IgnoreNullAnyFromAny", Head(todo[t]).c, p))
                 \/ Then(t, <<>>)
    BY DEF CopyOut
  <1>3. "SQL400IgnoreNullAnyFromAny" \in DOMAIN Functions BY TablesAssumption
  <1> QED BY <1>1, <1>2, <1>3, NestedCall

\* A copy is freed by a step that follows every one of its calls.
LEMMA CopyFreePath == ASSUME CInv, PInv, NEW t \in Threads, CopyFree(t) PROVE PInv'
  <1> DEFINE x == Head(todo[t])
             freed == {<<x.fn, Conversions[x.fn].freed[i]>> : i \in DOMAIN Conversions[x.fn].freed}
  <1>1. /\ todo[t] # <<>> /\ x.do = "free" /\ Then(t, <<>>)
        /\ copies' = [copies EXCEPT ![t] = @ \ freed]
        /\ UNCHANGED <<setting, mutex, glock, converter, sent, calls>>
    BY DEF CopyFree, At
  <1>2. copies = [u \in Threads |-> copies[u]] /\ sent = [u \in Threads |-> sent[u]]
    BY DEF PInv, PathTypes
  <1>3. /\ copies'[t] = copies[t] \ freed
        /\ copies' = [u \in Threads |-> copies'[u]]
        /\ \A u \in Threads : u # t => copies'[u] = copies[u]
    BY <1>1, <1>2
  <1>4. ASSUME NEW copy \in copies'[t]
        PROVE  copy \in copies[t] /\ ~Freeing(x, copy[1], copy[2], setting)
    <2>1. copy \in copies[t] /\ copy \notin freed BY <1>3
    <2>2. copy = <<copy[1], copy[2]>> BY <2>1 DEF PInv, CopiesOwed
    <2>3. ASSUME Freeing(x, copy[1], copy[2], setting) PROVE copy \in freed
      <3>1. x.fn = copy[1] /\ Frees(Conversions[copy[1]], copy[2]) BY <2>3 DEF Freeing
      <3>2. PICK j \in DOMAIN Conversions[copy[1]].freed : Conversions[copy[1]].freed[j] = copy[2]
        BY <3>1 DEF Frees
      <3> QED BY <2>2, <3>1, <3>2
    <2> QED BY <2>1, <2>3
  <1> HIDE DEF freed
  <1>5. mutex' \in [Slots -> Mutex] /\ glock' \in Mutex /\ SlotZero'
    BY <1>1 DEF PInv, PathTypes, SlotZero
  <1>6. Neutral(x) /\ x.do \notin Carries \cup {"lock", "init_lock"}
    BY <1>1 DEF Neutral, Last, Carries
  <1>7. \A r : \A u : HeldOf(r, u, mutex', glock') = HeldOf(r, u, mutex, glock) BY <1>1 DEF HeldOf
  <1>8. ASSUME NEW r \in Resources
        PROVE  \A k \in Nat : Goes(x, r, HeldOf(r, t, mutex, glock), k) =>
                                Levels(<<>>, r, HeldOf(r, t, mutex', glock'), k)
    <2> DEFINE n == HeldOf(r, t, mutex, glock)
               m == HeldOf(r, t, mutex', glock')
    <2>1. n \in Nat /\ m = n BY <1>7, HeldOfNat DEF PInv
    <2> HIDE DEF n, m, x
    <2>2. \A k \in Nat : Goes(x, r, n, k) => Levels(<<>>, r, m, k)
      BY <1>6, <2>1, LevelsEmpty, NeutralKeeps
    <2> QED BY <2>2 DEF n, m
  <1>9. Laid(<<>>, setting) BY EmptyLaid
  <1>10. \A p : ~Underway(todo[t], p) BY <1>1, <1>6, NotUnderway
  <1>11. Room => \A copy \in copies'[t] : copy[2] \in sent'[t] \/ Underway(todo'[t], copy[2])
    BY <1>1, <1>4, <1>10 DEF PInv, TextSent
  <1>12. \A i \in 1 .. setting.pool : converter'[i].lock = converter[i].lock
                                      /\ converter'[i].lock.owner # t
    BY <1>1 DEF PInv, ConvertersHeld, At
  <1>13. sent' = [u \in Threads |-> sent'[u]] /\ \A u \in Threads : sent'[u] = sent[u]
    BY <1>1, <1>2
  <1> HIDE DEF x
  <1> QED BY ZenonT(60), <1>1, <1>3, <1>4, <1>5, <1>7, <1>8, <1>9, <1>11, <1>12, <1>13, Keeps DEF x

\* A step in front of others.
LEMMA FirstAndRest ==
  ASSUME NEW x, NEW S, NEW r \in Seq(S)
  PROVE  <<x>> \o r # <<>> /\ Head(<<x>> \o r) = x /\ Tail(<<x>> \o r) = r
  <1> DEFINE U == S \cup {x}
             a == <<x>>
             s == a \o r
  <1>1. S \subseteq U /\ x \in U OBVIOUS
  <1> HIDE DEF U
  <1>2. a \in Seq(U) /\ r \in Seq(U) BY <1>1, SeqMonotonic
  <1>3. Len(a) = 1 /\ a[1] = x BY Singleton
  <1> HIDE DEF a
  <1>4. /\ s \in Seq(U) /\ Len(s) = 1 + Len(r) /\ Len(r) \in Nat
        /\ \A i \in 1 .. 1 + Len(r) : s[i] = IF i <= 1 THEN a[i] ELSE r[i - 1]
    <2>1. /\ s \in Seq(U) /\ Len(s) = Len(a) + Len(r)
          /\ \A i \in 1 .. Len(a) + Len(r) : s[i] = IF i <= Len(a) THEN a[i] ELSE r[i - Len(a)]
      BY <1>2, ConcatProperties
    <2>2. Len(r) \in Nat BY <1>2, LenProperties
    <2> QED BY <1>3, <2>1, <2>2
  <1> HIDE DEF s
  <1>5. s # <<>> BY <1>4, EmptySeq
  <1>6. 1 \in 1 .. 1 + Len(r) BY <1>4
  <1>7. s[1] = x BY <1>3, <1>4, <1>6
  <1>8. Head(s) = s[1] BY <1>4, <1>5
  <1>9. /\ Tail(s) \in Seq(U) /\ Len(Tail(s)) = Len(s) - 1
        /\ \A i \in 1 .. Len(Tail(s)) : Tail(s)[i] = s[i + 1]
    BY <1>4, <1>5, HeadTailProperties
  <1>10. Len(Tail(s)) = Len(r) BY <1>4, <1>9
  <1>11. \A i \in 1 .. Len(r) : Tail(s)[i] = r[i]
    <2> SUFFICES ASSUME NEW i \in 1 .. Len(r) PROVE Tail(s)[i] = r[i] OBVIOUS
    <2>1. /\ i + 1 \in 1 .. 1 + Len(r) /\ ~(i + 1 <= 1) /\ (i + 1) - 1 = i
          /\ i \in 1 .. Len(Tail(s))
      BY <1>4, <1>10
    <2>2. s[i + 1] = r[(i + 1) - 1] BY <1>4, <2>1
    <2> QED BY <1>9, <2>1, <2>2
  <1>12. Tail(s) = r BY <1>2, <1>9, <1>10, <1>11, SeqEqual
  <1> QED BY <1>5, <1>7, <1>8, <1>12 DEF s, a

\* The call that converts a copy is its conversion, behind a lock.
LEMMA CopyUnderway ==
  ASSUME NEW c, NEW p, NEW S, NEW r \in Seq(S)
  PROVE  Underway(Enter("SQL400IgnoreNullAnyToAny", c, p) \o r, p)
  <1> DEFINE fn == "SQL400IgnoreNullAnyToAny"
             a == Do("lock", fn, c)
             b == Step("open", fn, c, p, 0)
             s == <<b>> \o r
  <1>1. Lock(fn) = "lock" BY TablesAssumption, SerialisedLock DEF Unserialised
  <1>2. IsConversion(fn) BY DEF IsConversion, AnyToAny
  <1>3. Enter(fn, c, p) = <<a>> \o <<b>> BY <1>1, <1>2 DEF Enter, Work
  <1>4. a.do = "lock" /\ b.do = "open" /\ b.p = p BY StepFields
  <1> HIDE DEF a, b
  <1> DEFINE U == S \cup {a, b}
             A == <<a>>
             B == <<b>>
  <1>5. S \subseteq U /\ a \in U /\ b \in U OBVIOUS
  <1> HIDE DEF U
  <1>6. A \in Seq(U) /\ B \in Seq(U) /\ r \in Seq(U) BY <1>5, SeqMonotonic
  <1>7. s # <<>> /\ Head(s) = b BY FirstAndRest
  <1> HIDE DEF A, B
  <1>8. (A \o B) \o r = A \o (B \o r) BY <1>6, ConcatAssociative
  <1>9. B \o r \in Seq(U) BY <1>6, ConcatProperties
  <1>10. s = B \o r BY DEF B
  <1> HIDE DEF s
  <1> DEFINE w == <<a>> \o s
  <1>11. w # <<>> /\ Head(w) = a /\ Tail(w) = s BY <1>9, <1>10, FirstAndRest
  <1>12. Enter(fn, c, p) \o r = w BY <1>3, <1>8, <1>10 DEF A, B
  <1> HIDE DEF w
  <1>13. Underway(w, p) BY <1>4, <1>7, <1>11 DEF Underway, Carrying, Carries
  <1> QED BY <1>12, <1>13

\* A copy is made, and what frees it is still to come.
LEMMA CopyInPath == ASSUME CInv, PInv, NEW t \in Threads, CopyIn(t) PROVE PInv'
  <1> DEFINE x == Head(todo[t])
             p == x.p
             c == x.c
             fn == "SQL400IgnoreNullAnyToAny"
             more == Enter(fn, c, p)
             new == <<x.fn, p>>
  <1>1. /\ todo[t] # <<>> /\ x.do = "copyin"
        /\ UNCHANGED <<setting, mutex, glock, converter, sent, calls>>
    BY DEF CopyIn, At
  <1>2. /\ x.fn \in DOMAIN Functions /\ c \in Slots /\ Laid(Tail(todo[t]), setting)
        /\ p \in TextParams /\ Freed(Tail(todo[t]), x.fn, p, setting)
    BY <1>1, FirstStep
  <1>3. CASE Then(t, <<>>) /\ UNCHANGED copies
    <2>1. Laid(<<>>, setting) /\ \A r \in Resources : \A n \in Nat : Levels(<<>>, r, n, n)
      BY EmptyLaid, LevelsEmpty
    <2> QED BY <1>1, <1>3, <2>1, NeutralPath
  <1>4. CASE Then(t, more) /\ copies' = [copies EXCEPT ![t] = @ \cup {new}]
    <2>0. fn \in DOMAIN Functions BY TablesAssumption
    <2>1. copies = [u \in Threads |-> copies[u]] /\ sent = [u \in Threads |-> sent[u]]
      BY DEF PInv, PathTypes
    <2>2. /\ copies'[t] = copies[t] \cup {new}
          /\ copies' = [u \in Threads |-> copies'[u]]
          /\ \A u \in Threads : u # t => copies'[u] = copies[u]
      BY <1>4, <2>1
    <2>3. Laid(more, setting) BY <1>2, <2>0, EnterLaid
    <2>4. \A r \in Resources : \A n \in Nat : Levels(more, r, n, n) BY <1>2, <2>0, EnterLevels
    <2>5. PICK S : Tail(todo[t]) \in Seq(S) BY <1>2 DEF Laid, IsSteps
    <2>6. Underway(more \o Tail(todo[t]), p) BY <2>5, CopyUnderway
    <2> HIDE DEF more
    <2>7. todo'[t] = more \o Tail(todo[t])
      <3>1. todo = [u \in Threads |-> todo[u]] BY DEF CInv, ConverterTypes
      <3> QED BY <1>4, <3>1 DEF Then
    <2>8. mutex' \in [Slots -> Mutex] /\ glock' \in Mutex /\ SlotZero'
      BY <1>1 DEF PInv, PathTypes, SlotZero
    <2>9. Neutral(x) /\ x.do \notin Carries \cup {"lock", "init_lock"}
      BY <1>1 DEF Neutral, Last, Carries
    <2>10. \A r : \A u : HeldOf(r, u, mutex', glock') = HeldOf(r, u, mutex, glock) BY <1>1 DEF HeldOf
    <2>11. ASSUME NEW r \in Resources
           PROVE  \A k \in Nat : Goes(x, r, HeldOf(r, t, mutex, glock), k) =>
                                   Levels(more, r, HeldOf(r, t, mutex', glock'), k)
      <3> DEFINE n == HeldOf(r, t, mutex, glock)
                 m == HeldOf(r, t, mutex', glock')
      <3>1. n \in Nat /\ m = n BY <2>10, HeldOfNat DEF PInv
      <3> HIDE DEF n, m, x
      <3>2. \A k \in Nat : Goes(x, r, n, k) => Levels(more, r, m, k)
        BY <2>4, <2>9, <3>1, NeutralKeeps
      <3> QED BY <3>2 DEF n, m
    <2>12. \A q : ~Underway(todo[t], q) BY <1>1, <2>9, NotUnderway
    <2>13. new[1] = x.fn /\ new[2] = p /\ new = <<new[1], new[2]>> OBVIOUS
    <2>14. Room => \A copy \in copies'[t] : copy[2] \in sent'[t] \/ Underway(todo'[t], copy[2])
      BY <1>1, <2>2, <2>6, <2>7, <2>12, <2>13 DEF PInv, TextSent
    <2>15. \A copy \in copies'[t] :
             \/ copy \in copies[t] /\ ~Freeing(x, copy[1], copy[2], setting)
             \/ /\ copy = <<copy[1], copy[2]>> /\ copy[2] \in TextParams
                /\ Freed(Tail(todo[t]), copy[1], copy[2], setting)
      <3>1. \A f, q : ~Freeing(x, f, q, setting) BY <1>1 DEF Freeing
      <3>2. /\ new = <<new[1], new[2]>> /\ new[2] \in TextParams
            /\ Freed(Tail(todo[t]), new[1], new[2], setting)
        BY <1>2, <2>13
      <3> HIDE DEF new
      <3> QED BY <2>2, <3>1, <3>2
    <2>16. \A i \in 1 .. setting.pool : converter'[i].lock = converter[i].lock
                                        /\ converter'[i].lock.owner # t
      BY <1>1 DEF PInv, ConvertersHeld, At
    <2>17. sent' = [u \in Threads |-> sent'[u]] /\ \A u \in Threads : sent'[u] = sent[u]
      BY <1>1, <2>1
    <2>18. Then(t, more) BY <1>4
    <2> HIDE DEF x, new
    <2> QED BY <1>1, <2>2, <2>3, <2>8, <2>10, <2>11, <2>14, <2>15, <2>16, <2>17, <2>18, Keeps DEF x
  <1>5. \/ Then(t, more) /\ copies' = [copies EXCEPT ![t] = @ \cup {new}]
        \/ Then(t, <<>>) /\ UNCHANGED copies
    BY DEF CopyIn
  <1> QED BY <1>3, <1>4, <1>5

-----------------------------------------------------------------------------
(* The steps of a conversion                                                 *)

LEMMA UnionBound ==
  ASSUME NEW S, IsFiniteSet(S), NEW T, IsFiniteSet(T)
  PROVE  /\ IsFiniteSet(S \cup T) /\ Cardinality(S \cup T) \in Nat
         /\ Cardinality(S \cup T) <= Cardinality(S) + Cardinality(T)
  <1> DEFINE I == S \cap T
             U == S \cup T
  <1>1. IsFiniteSet(U) /\ Cardinality(U) = Cardinality(S) + Cardinality(T) - Cardinality(I)
    BY FS_Union
  <1>2. IsFiniteSet(I)
    <2>1. I \in SUBSET S OBVIOUS
    <2> HIDE DEF I
    <2> QED BY <2>1, FS_Subset
  <1> HIDE DEF I, U
  <1>3. /\ Cardinality(U) \in Nat /\ Cardinality(S) \in Nat
        /\ Cardinality(T) \in Nat /\ Cardinality(I) \in Nat
    BY <1>1, <1>2, FS_CardinalityType
  <1>4. Cardinality(U) <= Cardinality(S) + Cardinality(T) BY <1>1, <1>3
  <1> QED BY <1>1, <1>3, <1>4 DEF U

\* Where every converter of a pair is in use and there is room for one of each pair
\* for each thread, one has not been opened yet.
LEMMA RoomLeft ==
  ASSUME CInv, NEW t \in Threads, ~At(t, "iconv"), Room, NEW pair \in Pairs(setting), Idle(pair) = {}
  PROVE  Unopened # {}
  <1> DEFINE N == Cardinality(Threads)
             O(q) == OfPair(converter, q)
             C(q) == Cardinality(O(q))
  <1>1. converter \in [1 .. setting.pool -> Converter(setting)] /\ setting.pool \in Nat
    BY PathAssumption DEF CInv, ConverterTypes
  <1>2. IsFiniteSet(Threads) /\ N \in Nat BY PathAssumption, FS_CardinalityType
  <1>3. \A i \in O(pair) : converter[i].in_progress BY <1>1 DEF Idle, OfPair, Converter
  <1>4. IsFiniteSet(O(pair)) /\ C(pair) + 1 <= N BY <1>3, RoomForOneMore
  <1>5. IsFiniteSet(1 .. setting.pool) /\ Cardinality(1 .. setting.pool) = setting.pool
    BY <1>1, FS_Interval
  <1>6. \A q : IsFiniteSet(O(q)) /\ C(q) \in Nat
    <2> SUFFICES ASSUME NEW q PROVE IsFiniteSet(O(q)) /\ C(q) \in Nat OBVIOUS
    <2>1. O(q) \subseteq 1 .. setting.pool BY <1>1 DEF OfPair
    <2> HIDE DEF O
    <2> QED BY <1>5, <2>1, FS_Subset, FS_CardinalityType
  <1>7. \A q \in Pairs(setting) : C(q) <= N
    <2> SUFFICES ASSUME NEW q \in Pairs(setting) PROVE C(q) <= N OBVIOUS
    <2>1. CASE O(q) = {} BY <1>2, <2>1, FS_EmptySet
    <2>2. CASE O(q) # {}
      BY <1>1, <2>2, BoundedByPair DEF CInv, ConvertersBounded, ConverterTypes
    <2> QED BY <2>1, <2>2
  <1> SUFFICES ASSUME Unopened = {} PROVE FALSE OBVIOUS
  <1> DEFINE A == O("1208")
             B == O("1200")
             D == O(setting.job)
  <1>8. (A \cup B) \cup D = 1 .. setting.pool
    <2>1. \A i \in 1 .. setting.pool : converter[i].pair \in Pairs(setting) BY <1>1 DEF Unopened, Converter
    <2> QED BY <1>1, <2>1 DEF OfPair, Pairs
  <1>9. /\ IsFiniteSet(A) /\ IsFiniteSet(B) /\ IsFiniteSet(D)
        /\ Cardinality(A) \in Nat /\ Cardinality(B) \in Nat /\ Cardinality(D) \in Nat
        /\ Cardinality(A) <= N /\ Cardinality(B) <= N /\ Cardinality(D) <= N
    BY <1>6, <1>7 DEF Pairs
  <1>10. Cardinality(A) + 1 <= N \/ Cardinality(B) + 1 <= N \/ Cardinality(D) + 1 <= N
    BY <1>4 DEF Pairs
  <1> HIDE DEF A, B, D, O, C
  <1>11. /\ IsFiniteSet(A \cup B) /\ Cardinality(A \cup B) \in Nat
         /\ Cardinality(A \cup B) <= Cardinality(A) + Cardinality(B)
    BY <1>9, UnionBound
  <1> DEFINE E == A \cup B
             all == Cardinality(E \cup D)
  <1>12. all \in Nat /\ all <= Cardinality(E) + Cardinality(D)
    <2> HIDE DEF E
    <2>1. IsFiniteSet(E) BY <1>11 DEF E
    <2> QED BY <1>9, <2>1, UnionBound
  <1>13. all = setting.pool BY <1>5, <1>8
  <1> HIDE DEF all
  <1>14. setting.pool <= Cardinality(A) + Cardinality(B) + Cardinality(D)
    BY <1>9, <1>11, <1>12, <1>13
  <1>15. setting.pool >= 3 * N BY DEF Room
  <1> HIDE DEF N
  <1> QED BY <1>1, <1>2, <1>9, <1>10, <1>14, <1>15

\* Only the parameter of a conversion is under way.
LEMMA UnderwayIs ==
  ASSUME NEW s, s # <<>>, Head(s).do \in Carries, NEW p, Underway(s, p)
  PROVE  p = Head(s).p
  BY DEF Underway, Carrying, Carries

\* A conversion goes on with its next step.
LEMMA ConversionGoesOn ==
  ASSUME CInv, PInv, NEW t \in Threads, todo[t] # <<>>,
         Head(todo[t]).do \in {"open", "convert"},
         NEW y, y.do \in {"convert", "iconv"}, y.fn = Head(todo[t]).fn, y.c = Head(todo[t]).c,
         y.p = Head(todo[t]).p, Then(t, <<y>>),
         UNCHANGED <<setting, mutex, glock, copies, sent, calls>>,
         \A i \in 1 .. setting.pool :
           /\ \A u \in Threads : u # t /\ converter'[i].lock.owner = u =>
                                   converter'[i].lock = converter[i].lock
           /\ converter'[i].lock.owner = t =>
                At(t, "iconv")' /\ Head(todo'[t]).i = i /\ converter'[i].lock.count = 1
  PROVE  PInv'
  <1> DEFINE x == Head(todo[t])
             more == <<y>>
             rest == Tail(todo[t])
  <1>1. x.fn \in DOMAIN Functions /\ x.c \in Slots /\ Laid(rest, setting) BY FirstStep
  <1>2. Laid(more, setting) BY <1>1, OneLaid DEF Formed
  <1>3. \A r : \A n, k \in Nat : Goes(x, r, n, k) => Levels(more, r, n, k)
    <2> SUFFICES ASSUME NEW r, NEW n \in Nat, NEW k \in Nat, Goes(x, r, n, k)
                 PROVE  Levels(more, r, n, k)
      OBVIOUS
    <2>1. x.do \in Last /\ y.do \in Last BY DEF Last
    <2> HIDE DEF x
    <2>2. Drops(x.fn, x.c, r, n, k) BY <2>1, LastGoes
    <2>3. Drops(y.fn, y.c, r, n, k) BY <2>2 DEF x
    <2> QED BY <1>1, <2>1, <2>3, LastLevels DEF x
  <1>4. PICK S : rest \in Seq(S) BY <1>1 DEF Laid, IsSteps
  <1>5. more \o rest # <<>> /\ Head(more \o rest) = y BY <1>4, FirstAndRest
  <1>6. todo'[t] = more \o rest
    <2>1. todo = [u \in Threads |-> todo[u]] BY DEF CInv, ConverterTypes
    <2> QED BY <2>1 DEF Then
  <1>7. mutex' \in [Slots -> Mutex] /\ glock' \in Mutex /\ SlotZero'
    BY DEF PInv, PathTypes, SlotZero
  <1>8. \A r : \A u : HeldOf(r, u, mutex', glock') = HeldOf(r, u, mutex, glock) BY DEF HeldOf
  <1>9. ASSUME NEW r \in Resources
        PROVE  \A k \in Nat : Goes(x, r, HeldOf(r, t, mutex, glock), k) =>
                                Levels(more, r, HeldOf(r, t, mutex', glock'), k)
    <2> DEFINE n == HeldOf(r, t, mutex, glock)
               m == HeldOf(r, t, mutex', glock')
    <2>1. n \in Nat /\ m = n BY <1>8, HeldOfNat DEF PInv
    <2> HIDE DEF n, m, x, more
    <2>2. \A k \in Nat : Goes(x, r, n, k) => Levels(more, r, m, k) BY <1>3, <2>1
    <2> QED BY <2>2 DEF n, m
  <1>10. Room => \A copy \in copies'[t] : copy[2] \in sent'[t] \/ Underway(todo'[t], copy[2])
    <2> SUFFICES ASSUME Room, NEW copy \in copies[t], copy[2] \notin sent[t]
                 PROVE  Underway(todo'[t], copy[2])
      OBVIOUS
    <2>1. Underway(todo[t], copy[2]) BY DEF PInv, TextSent
    <2>2. copy[2] = y.p BY <2>1, UnderwayIs DEF Carries
    <2> QED BY <1>5, <1>6, <2>2 DEF Underway, Carrying, Carries
  <1>11. \A fn, param : ~Freeing(x, fn, param, setting) BY DEF Freeing
  <1>12. /\ copies' = [u \in Threads |-> copies'[u]] /\ sent' = [u \in Threads |-> sent'[u]]
         /\ \A u \in Threads : copies'[u] = copies[u] /\ sent'[u] = sent[u]
    BY DEF PInv, PathTypes
  <1> HIDE DEF x, more
  <1> QED BY <1>2, <1>7, <1>8, <1>9, <1>10, <1>11, <1>12, Keeps DEF x, more

\* A conversion that is over leaves its function.
LEMMA ConversionEnds ==
  ASSUME CInv, PInv, NEW t \in Threads, todo[t] # <<>>,
         Head(todo[t]).do \in {"open", "iconv"}, NEW ok \in BOOLEAN,
         Then(t, Leave(Head(todo[t]).fn, Head(todo[t]).c, ok)),
         UNCHANGED <<setting, mutex, glock, copies, calls>>,
         sent' = [u \in Threads |-> sent'[u]],
         \A u \in Threads : u # t => sent'[u] = sent[u],
         \A i \in 1 .. setting.pool :
           /\ \A u \in Threads : u # t /\ converter'[i].lock.owner = u =>
                                   converter'[i].lock = converter[i].lock
           /\ converter'[i].lock.owner # t,
         Room => \A copy \in copies[t] : copy[2] \in sent'[t]
  PROVE  PInv'
  <1> DEFINE x == Head(todo[t])
             more == Leave(x.fn, x.c, ok)
  <1>1. x.fn \in DOMAIN Functions /\ x.c \in Slots BY FirstStep
  <1>2. Laid(more, setting) BY <1>1, LeaveLaid
  <1>3. \A r : \A n, k \in Nat : Goes(x, r, n, k) => Levels(more, r, n, k)
    <2> SUFFICES ASSUME NEW r, NEW n \in Nat, NEW k \in Nat, Goes(x, r, n, k)
                 PROVE  Levels(more, r, n, k)
      OBVIOUS
    <2>1. x.do \in Last BY DEF Last
    <2> HIDE DEF x
    <2>2. Drops(x.fn, x.c, r, n, k) BY <2>1, LastGoes
    <2> QED BY <1>1, <2>2, LeaveLevels
  <1>7. mutex' \in [Slots -> Mutex] /\ glock' \in Mutex /\ SlotZero'
    BY DEF PInv, PathTypes, SlotZero
  <1>8. \A r : \A u : HeldOf(r, u, mutex', glock') = HeldOf(r, u, mutex, glock) BY DEF HeldOf
  <1>9. ASSUME NEW r \in Resources
        PROVE  \A k \in Nat : Goes(x, r, HeldOf(r, t, mutex, glock), k) =>
                                Levels(more, r, HeldOf(r, t, mutex', glock'), k)
    <2> DEFINE n == HeldOf(r, t, mutex, glock)
               m == HeldOf(r, t, mutex', glock')
    <2>1. n \in Nat /\ m = n BY <1>8, HeldOfNat DEF PInv
    <2> HIDE DEF n, m, x, more
    <2>2. \A k \in Nat : Goes(x, r, n, k) => Levels(more, r, m, k) BY <1>3, <2>1
    <2> QED BY <2>2 DEF n, m
  <1>11. \A fn, param : ~Freeing(x, fn, param, setting) BY DEF Freeing
  <1>12. /\ copies' = [u \in Threads |-> copies'[u]]
         /\ \A u \in Threads : copies'[u] = copies[u]
    BY DEF PInv, PathTypes
  <1>13. Then(t, more) OBVIOUS
  <1> HIDE DEF x, more
  <1> QED BY <1>2, <1>7, <1>8, <1>9, <1>11, <1>12, <1>13, Keeps DEF x

\* A conversion is refused: one of the driver's where the CCSIDs are equal only.
LEMMA RefusePath == ASSUME CInv, PInv, NEW t \in Threads, Refuse(t) PROVE PInv'
  <1> DEFINE x == Head(todo[t])
             e == ""
  <1>1. /\ todo[t] # <<>> /\ x.do = "open"
        /\ UNCHANGED <<setting, mutex, glock, converter, copies, sent, calls>>
        /\ Then(t, Leave(x.fn, x.c, FALSE))
    BY DEF Refuse, At
  <1>2. x.p = e \/ ~Room BY DEF Refuse, Refusable, Room
  <1>3. \A param \in TextParams : param # e BY ParamNamed
  <1> HIDE DEF e
  <1>4. Room => \A copy \in copies[t] : copy[2] \in sent'[t]
    <2> SUFFICES ASSUME Room, NEW copy \in copies[t], copy[2] \notin sent[t] PROVE FALSE
      BY <1>1
    <2>1. Underway(todo[t], copy[2]) BY DEF PInv, TextSent
    <2>2. copy[2] = e BY <1>1, <1>2, <2>1, UnderwayIs DEF Carries
    <2>3. copy[2] \in TextParams BY DEF PInv, CopiesOwed
    <2> QED BY <1>3, <2>2, <2>3
  <1>5. ~At(t, "iconv") BY <1>1 DEF At
  <1>6. \A j \in 1 .. setting.pool :
          /\ \A u \in Threads : u # t /\ converter'[j].lock.owner = u =>
                                  converter'[j].lock = converter[j].lock
          /\ converter'[j].lock.owner # t
    BY <1>1, <1>5 DEF PInv, ConvertersHeld
  <1>7. sent' = [u \in Threads |-> sent'[u]] BY <1>1 DEF PInv, PathTypes
  <1> QED BY <1>1, <1>4, <1>6, <1>7, ConversionEnds

\* A converter is chosen; with room enough there is one.
LEMMA OpenPath == ASSUME CInv, PInv, NEW t \in Threads, OpenConverter(t) PROVE PInv'
  <1> DEFINE x == Head(todo[t])
             pair == Pair(x.fn)
             S == IF Idle(pair) # {} THEN Idle(pair) ELSE Unopened
             i == Lowest(S)
             y == Step("convert", x.fn, x.c, x.p, i)
  <1>1. /\ todo[t] # <<>> /\ x.do = "open" /\ ~At(t, "iconv")
        /\ UNCHANGED <<setting, mutex, glock, copies, sent, calls>>
        /\ converter \in [1 .. setting.pool -> Converter(setting)]
    BY DEF OpenConverter, At, CInv, ConverterTypes
  <1>2. \A j \in 1 .. setting.pool : converter[j].lock.owner # t BY <1>1 DEF PInv, ConvertersHeld
  <1>3. pair \in Pairs(setting) BY DEF Pair, Pairs
  <1>4. CASE S = {}
    <2>1. Then(t, Leave(x.fn, x.c, FALSE)) /\ UNCHANGED converter BY <1>4 DEF OpenConverter
    <2>2. Idle(pair) = {} /\ Unopened = {} BY <1>4
    <2> HIDE DEF pair, S
    <2>3. ~Room BY <1>1, <1>3, <2>2, RoomLeft
    <2>4. sent' = [u \in Threads |-> sent'[u]] BY <1>1 DEF PInv, PathTypes
    <2>5. \A j \in 1 .. setting.pool :
            /\ \A u \in Threads : u # t /\ converter'[j].lock.owner = u =>
                                    converter'[j].lock = converter[j].lock
            /\ converter'[j].lock.owner # t
      BY <1>2, <2>1
    <2> QED BY <1>1, <2>1, <2>3, <2>4, <2>5, ConversionEnds
  <1>5. CASE S # {}
    <2>1. converter' = [converter EXCEPT ![i].pair = pair] /\ Then(t, <<y>>)
      BY <1>5 DEF OpenConverter
    <2>2. y.do = "convert" /\ y.fn = x.fn /\ y.c = x.c /\ y.p = x.p BY StepFields
    <2> HIDE DEF y, i, S, pair
    <2>3. \A j \in 1 .. setting.pool : converter'[j].lock = converter[j].lock
      BY <1>1, <2>1 DEF Converter
    <2>4. \A j \in 1 .. setting.pool :
            /\ \A u \in Threads : u # t /\ converter'[j].lock.owner = u =>
                                    converter'[j].lock = converter[j].lock
            /\ converter'[j].lock.owner # t
      BY <1>2, <2>3
    <2> QED BY <1>1, <2>1, <2>2, <2>4, ConversionGoesOn
  <1> QED BY <1>4, <1>5

\* The mutex of the converter was free.
LEMMA ConvertPath == ASSUME CInv, PInv, NEW t \in Threads, Convert(t) PROVE PInv'
  <1> DEFINE x == Head(todo[t])
             i == x.i
             y == Step("iconv", x.fn, x.c, x.p, x.i)
  <1>1. /\ todo[t] # <<>> /\ x.do = "convert" /\ At(t, "convert") /\ ~At(t, "iconv")
        /\ UNCHANGED <<setting, mutex, glock, copies, sent, calls>>
        /\ MayLock(converter[i].lock, t) /\ Then(t, <<y>>)
        /\ converter' = [converter EXCEPT ![i].lock = Locked(@, t), ![i].in_progress = TRUE]
        /\ converter \in [1 .. setting.pool -> Converter(setting)]
        /\ todo = [u \in Threads |-> todo[u]]
    BY DEF Convert, At, MayConvert, CInv, ConverterTypes
  <1>2. i \in 1 .. setting.pool BY <1>1 DEF CInv, Chosen
  <1>3. \A j \in 1 .. setting.pool : converter[j].lock.owner # t BY <1>1 DEF PInv, ConvertersHeld
  <1>4. y.do = "iconv" /\ y.fn = x.fn /\ y.c = x.c /\ y.p = x.p /\ y.i = i BY StepFields
  <1>5. converter[i].lock \in Mutex /\ converter[i].lock.owner = NoThread
    BY <1>1, <1>2, <1>3 DEF MayLock, Converter
  <1>6. converter[i].lock.count = 0 BY <1>5, TableAssumption DEF Mutex, FreeMutex
  <1>7. Locked(converter[i].lock, t).owner = t /\ Locked(converter[i].lock, t).count = 1
    BY <1>6 DEF Locked
  <1> HIDE DEF y
  <1>8. At(t, "iconv")' /\ Head(todo'[t]).i = i
    <2>1. Laid(Tail(todo[t]), setting) BY <1>1, FirstStep
    <2>2. PICK S : Tail(todo[t]) \in Seq(S) BY <2>1 DEF Laid, IsSteps
    <2>3. todo'[t] = <<y>> \o Tail(todo[t]) BY <1>1 DEF Then
    <2>4. <<y>> \o Tail(todo[t]) # <<>> /\ Head(<<y>> \o Tail(todo[t])) = y BY <2>2, FirstAndRest
    <2> QED BY <1>4, <2>3, <2>4 DEF At
  <1> HIDE DEF x, i
  <1>9. /\ converter'[i].lock = Locked(converter[i].lock, t)
        /\ \A j \in 1 .. setting.pool : j # i => converter'[j].lock = converter[j].lock
    BY <1>1, <1>2 DEF Converter
  <1>10. \A j \in 1 .. setting.pool :
           /\ \A u \in Threads : u # t /\ converter'[j].lock.owner = u =>
                                   converter'[j].lock = converter[j].lock
           /\ converter'[j].lock.owner = t =>
                At(t, "iconv")' /\ Head(todo'[t]).i = j /\ converter'[j].lock.count = 1
    BY <1>3, <1>7, <1>8, <1>9
  <1> QED BY <1>1, <1>4, <1>10, ConversionGoesOn, SMTT(30) DEF x

\* The text is converted, and the mutex free again.
LEMMA IconvPath == ASSUME CInv, PInv, NEW t \in Threads, IconvReturns(t) PROVE PInv'
  <1> DEFINE x == Head(todo[t])
             i == x.i
             e == ""
  <1>1. /\ todo[t] # <<>> /\ x.do = "iconv" /\ At(t, "iconv")
        /\ UNCHANGED <<setting, mutex, glock, copies, calls>>
        /\ converter' = [converter EXCEPT ![i] = Released(@, t)]
        /\ converter \in [1 .. setting.pool -> Converter(setting)]
    BY Zenon DEF IconvReturns, At, CInv, ConverterTypes
  <1>13. PICK ok \in {TRUE, setting.whole} :
           /\ sent' = [sent EXCEPT ![t] = IF ok /\ x.p # e THEN @ \cup {x.p} ELSE @]
           /\ Then(t, Leave(x.fn, x.c, ok))
    BY Zenon DEF IconvReturns
  <1>2. ok \in BOOLEAN /\ (setting.whole => ok = TRUE)
    BY PathAssumption DEF CInv, ConverterTypes
  <1>3. \A param \in TextParams : param # e BY ParamNamed
  <1> HIDE DEF e
  <1>4. i \in 1 .. setting.pool BY <1>1 DEF CInv, Chosen
  <1>5. converter[i].lock.owner = t /\ converter[i].lock.count = 1
    BY <1>1, <1>4 DEF CInv, Owned, PInv, ConvertersHeld
  <1>6. \A j \in 1 .. setting.pool : j # i => converter[j].lock.owner # t
    BY <1>1 DEF PInv, ConvertersHeld
  <1> HIDE DEF i
  <1>7. converter'[i].lock = FreeMutex
    <2>1. Unlocked(converter[i].lock, t) = FreeMutex BY <1>5 DEF Unlocked
    <2> QED BY <1>1, <1>4, <2>1 DEF Released, Converter
  <1>8. \A j \in 1 .. setting.pool : j # i => converter'[j].lock = converter[j].lock
    BY <1>1, <1>4
  <1>9. \A j \in 1 .. setting.pool :
          /\ \A u \in Threads : u # t /\ converter'[j].lock.owner = u =>
                                  converter'[j].lock = converter[j].lock
          /\ converter'[j].lock.owner # t
    BY <1>6, <1>7, <1>8, TableAssumption DEF FreeMutex
  <1>10. sent = [u \in Threads |-> sent[u]] BY DEF PInv, PathTypes
  <1>11. /\ sent' = [u \in Threads |-> sent'[u]]
         /\ \A u \in Threads : u # t => sent'[u] = sent[u]
         /\ sent[t] \subseteq sent'[t] /\ (setting.whole /\ x.p # e => x.p \in sent'[t])
    BY <1>2, <1>10, <1>13
  <1>12. Room => \A copy \in copies[t] : copy[2] \in sent'[t]
    <2> SUFFICES ASSUME Room, NEW copy \in copies[t], copy[2] \notin sent[t]
                 PROVE  copy[2] \in sent'[t]
      BY <1>11
    <2>1. Underway(todo[t], copy[2]) BY DEF PInv, TextSent
    <2>2. copy[2] = x.p BY <1>1, <2>1, UnderwayIs DEF Carries
    <2>3. copy[2] \in TextParams BY DEF PInv, CopiesOwed
    <2> QED BY <1>3, <1>11, <2>2, <2>3 DEF Room
  <1> QED BY <1>1, <1>2, <1>9, <1>11, <1>12, <1>13, ConversionEnds

-----------------------------------------------------------------------------
(* What every call leaves behind                                             *)

LEMMA InitPInv == Init => PInv
  <1> SUFFICES ASSUME Init PROVE PInv OBVIOUS
  <1>1. /\ mutex = [h \in Slots |-> FreeMutex] /\ glock = FreeMutex
        /\ converter = [i \in 1 .. setting.pool |-> NoConverter]
        /\ todo = [t \in Threads |-> <<>>] /\ copies = [t \in Threads |-> {}]
        /\ sent = [t \in Threads |-> {}] /\ calls = [t \in Threads |-> 0]
    BY DEF Init
  <1>2. FreeMutex \in Mutex BY DEF Mutex
  <1>3. PathTypes
    <2>1. MaxCalls \in Nat BY PathAssumption
    <2>2. calls \in [Threads -> 0 .. MaxCalls] BY <1>1, <2>1
    <2>3. mutex \in [Slots -> Mutex] /\ glock \in Mutex BY <1>1, <1>2
    <2>4. copies = [t \in Threads |-> copies[t]] /\ sent = [t \in Threads |-> sent[t]] BY <1>1
    <2> QED BY <2>2, <2>3, <2>4 DEF PathTypes
  <1>4. StepsLaid BY <1>1, EmptyLaid DEF StepsLaid
  <1>5. LocksBalance
    <2> SUFFICES ASSUME NEW t \in Threads, NEW r \in Resources
                 PROVE  Levels(todo[t], r, HeldOf(r, t, mutex, glock), 0)
      BY DEF LocksBalance
    <2>1. Held(FreeMutex, t) = 0 BY TableAssumption DEF Held, FreeMutex
    <2>2. HeldOf(r, t, mutex, glock) = 0 BY <1>1, <2>1 DEF HeldOf, Resources
    <2>3. Levels(<<>>, r, 0, 0) BY LevelsEmpty
    <2> QED BY <1>1, <2>2, <2>3
  <1>6. SlotZero BY <1>1, TableAssumption DEF SlotZero, Slots
  <1>7. CopiesOwed /\ TextSent BY <1>1 DEF CopiesOwed, TextSent
  <1>8. ConvertersHeld
    <2>1. \A i \in 1 .. setting.pool : converter[i].lock = FreeMutex BY <1>1 DEF NoConverter
    <2> QED BY <2>1, TableAssumption DEF ConvertersHeld, FreeMutex
  <1> QED BY <1>3, <1>4, <1>5, <1>6, <1>7, <1>8 DEF PInv

LEMMA NextPInv == CInv /\ PInv /\ [Next]_vars => PInv'
  <1> SUFFICES ASSUME CInv, PInv, [Next]_vars PROVE PInv' OBVIOUS
  <1>1. CASE UNCHANGED vars
    <2>1. /\ setting' = setting /\ mutex' = mutex /\ glock' = glock /\ converter' = converter
          /\ todo' = todo /\ copies' = copies /\ sent' = sent /\ calls' = calls
      BY <1>1 DEF vars
    <2> QED BY <2>1 DEF PInv, PathTypes, StepsLaid, LocksBalance, SlotZero, CopiesOwed,
                        ConvertersHeld, TextSent, Room, At
  <1>2. ASSUME NEW t \in Threads, Call(t) PROVE PInv' BY <1>2, CallPath
  <1>3. ASSUME NEW t \in Threads, PathStep(t) PROVE PInv'
    BY <1>3, TableLockPath, TableUnlockPath, InitLockPath, Db2Path, SetEnvPath, DumpPath,
       DiagPath, CopyInPath, CopyOutPath, CopyFreePath, RefusePath, OpenPath, ConvertPath, IconvPath
       DEF PathStep
  <1> QED BY <1>1, <1>2, <1>3 DEF Next, Quiescent

-----------------------------------------------------------------------------
(* The theorems                                                              *)

LEMMA InitCInv == Init => CInv
  <1> SUFFICES ASSUME Init PROVE CInv OBVIOUS
  <1>1. setting \in Settings /\ todo = [t \in Threads |-> <<>>] BY DEF Init
  <1>2. NoConverter \in Converter(setting) BY DEF NoConverter, Converter, Mutex
  <1>3. converter \in [1 .. setting.pool -> Converter(setting)] BY <1>2 DEF Init
  <1>4. Pending(<<>>) BY EmptyPlain, PlainPending
  <1>5. ConverterTypes BY <1>1, <1>3, <1>4 DEF ConverterTypes
  <1>6. Chosen /\ Owned BY <1>1 DEF Chosen, Owned, At
  <1>7. \A i \in 1 .. setting.pool : converter[i] = NoConverter BY DEF Init
  <1>8. MarkedByOwner BY <1>7 DEF MarkedByOwner, NoConverter
  <1>9. \A pair \in Pairs(setting) : OfPair(converter, pair) = {}
    <2>1. "none" \notin Pairs(setting) BY <1>1, PathAssumption DEF Pairs
    <2> QED BY <1>3, <1>7, <2>1 DEF OfPair, NoConverter
  <1>10. ConvertersBounded BY <1>1, <1>3, <1>9, BoundedByPair DEF ConvertersBounded
  <1> QED BY <1>5, <1>6, <1>8, <1>10 DEF CInv

LEMMA NextCInv == CInv /\ [Next]_vars => CInv'
  <1> SUFFICES ASSUME CInv, [Next]_vars PROVE CInv' OBVIOUS
  <1>1. CASE UNCHANGED vars
    <2>1. UNCHANGED <<setting, converter, todo>> BY <1>1 DEF vars
    <2> QED BY <2>1 DEF CInv, ConverterTypes, Chosen, Owned, MarkedByOwner, ConvertersBounded, At
  <1>2. ASSUME NEW t \in Threads, Call(t) PROVE CInv' BY <1>2, CallKeeps
  <1>3. ASSUME NEW t \in Threads, PathStep(t) PROVE CInv'
    BY <1>3, QuietActions, OpenKeeps, ConvertKeeps, IconvKeeps DEF PathStep
  <1> QED BY <1>1, <1>2, <1>3 DEF Next, Quiescent

LEMMA CInvariant == Spec => []CInv
  BY InitCInv, NextCInv, PTL DEF Spec

\* Two threads are never inside iconv with one converter, however many threads
\* convert and although custom_iconv_open, which holds the global lock, may give
\* both the same one: only custom_iconv marks it, under the converter's own mutex.
THEOREM ConverterExclusive == Spec => []OneThreadPerConverter
  <1>1. CInv => OneThreadPerConverter
    <2> SUFFICES ASSUME CInv, NEW t \in Threads, NEW u \in Threads, t # u,
                        At(t, "iconv"), At(u, "iconv")
                 PROVE  Head(todo[t]).i # Head(todo[u]).i
      BY DEF OneThreadPerConverter
    <2>1. converter[Head(todo[t]).i].lock.owner = t /\ converter[Head(todo[u]).i].lock.owner = u
      BY DEF CInv, Owned
    <2> QED BY <2>1
  <1> QED BY <1>1, CInvariant, PTL

\* There are never more converters of a pair than threads, however many
\* conversions a process makes: a new one is opened only when every converter of
\* the pair is marked, each by a thread inside iconv.
THEOREM ConvertersNeverPileUp == Spec => []ConvertersBounded
  <1>1. CInv => ConvertersBounded BY DEF CInv
  <1> QED BY <1>1, CInvariant, PTL

LEMMA PathInvariant == Spec => [](CInv /\ PInv)
  <1>1. Init => CInv /\ PInv BY InitCInv, InitPInv
  <1>2. CInv /\ PInv /\ [Next]_vars => (CInv /\ PInv)' BY NextCInv, NextPInv
  <1> QED BY <1>1, <1>2, PTL DEF Spec

\* The mutexes stay mutexes and every step that is left is one of an exported
\* function, however deep conversions and traces call one another.
THEOREM PathTypeCorrect == Spec => []PathTypeOK
  <1>1. CInv /\ PInv => PathTypeOK
    <2> SUFFICES ASSUME CInv, PInv PROVE PathTypeOK OBVIOUS
    <2>1. setting \in Settings /\ converter \in [1 .. setting.pool -> Converter(setting)]
      BY DEF CInv, ConverterTypes
    <2>2. \A i \in DOMAIN converter : converter[i].lock \in Mutex BY <2>1 DEF Converter
    <2>3. ASSUME NEW t \in Threads, NEW i \in DOMAIN todo[t]
          PROVE  todo[t][i].fn \in DOMAIN Functions
      <3>1. IsSteps(todo[t]) BY DEF PInv, StepsLaid, Laid
      <3>2. DOMAIN todo[t] = 1 .. Len(todo[t]) BY <3>1, LenProperties DEF IsSteps
      <3> QED BY <3>1, <3>2 DEF IsSteps
    <2> QED BY <2>1, <2>2, <2>3 DEF PathTypeOK, PInv, PathTypes
  <1> QED BY <1>1, PathInvariant, PTL

\* Whatever the functions, the threads and the nesting of their calls: inside DB2 on
\* a connection a function that is not one of those known to take no lock has the
\* mutex of the connection (init_table_lock before the call, init_table_unlock after
\* it, in each function of PaseCliAsync_gen.c).
THEOREM ConnectionSerialised == Spec => []OnlyUnserialisedOverlap
  <1>1. ASSUME CInv, PInv, NEW t \in Threads, NEW c \in Conns, InDb2(t, c),
               Head(todo[t]).fn \notin Unserialised
        PROVE  mutex[c].owner = t
    <2> DEFINE x == Head(todo[t])
               n == HeldOf(c, t, mutex, glock)
    <2>1. todo[t] # <<>> /\ x.do = "db2" /\ x.c = c BY <1>1 DEF InDb2, At
    <2>2. c \in Slots /\ c # 0 BY PathAssumption, TableAssumption DEF HandleNums, Slots
    <2>3. c \in Resources /\ c # Process /\ Works(c, setting)
      BY <2>2, SlotResource DEF Works
    <2>4. Lock(x.fn) = "lock" BY <1>1, <2>1, FirstStep, SerialisedLock
    <2>5. Levels(todo[t], c, n, 0) BY <1>1, <2>3 DEF PInv, LocksBalance
    <2>6. n = Held(mutex[c], t) BY <2>3 DEF HeldOf
    <2>7. Leaves(x, c) BY <2>1, <2>4 DEF Leaves, Takes, Last
    <2> HIDE DEF n, x
    <2>8. PICK k \in Nat : Goes(x, c, n, k) BY <2>1, <2>5, LevelsTail DEF x
    <2>9. n = k + 1 BY <2>7, <2>8 DEF Goes
    <2>10. n # 0 BY <2>8, <2>9
    <2> QED BY <2>6, <2>10 DEF Held
  <1>2. CInv /\ PInv => OnlyUnserialisedOverlap
    <2> SUFFICES ASSUME CInv, PInv, NEW t \in Threads, NEW u \in Threads, NEW c \in Conns,
                        t # u, InDb2(t, c), InDb2(u, c)
                 PROVE  Head(todo[t]).fn \in Unserialised \/ Head(todo[u]).fn \in Unserialised
      BY DEF OnlyUnserialisedOverlap
    <2> SUFFICES ASSUME Head(todo[t]).fn \notin Unserialised,
                        Head(todo[u]).fn \notin Unserialised
                 PROVE  FALSE
      OBVIOUS
    <2>1. mutex[c].owner = t /\ mutex[c].owner = u BY <1>1
    <2> QED BY <2>1
  <1> QED BY <1>2, PathInvariant, PTL

\* A call that has returned has freed every copy it made and holds no mutex of a slot,
\* of the process or of a converter, whatever it called in its turn, whether DB2 took
\* its call and whether its text could be converted.
THEOREM EverythingReturned == Spec => []NothingLeftBehind
  <1>1. CInv /\ PInv => NothingLeftBehind
    <2> SUFFICES ASSUME CInv, PInv, NEW t \in Threads, todo[t] = <<>>
                 PROVE  /\ copies[t] = {} /\ glock.owner # t
                        /\ \A h \in Slots : mutex[h].owner # t
                        /\ \A i \in DOMAIN converter : converter[i].lock.owner # t
      BY DEF NothingLeftBehind
    <2>1. copies[t] = {}
      <3>1. Len(<<>>) = 0 BY EmptySeq
      <3>2. \A copy \in copies[t] : Freed(<<>>, copy[1], copy[2], setting) BY DEF PInv, CopiesOwed
      <3> QED BY <3>1, <3>2 DEF Freed
    <2>2. \A r \in Resources : Works(r, setting) => HeldOf(r, t, mutex, glock) = 0
      BY LevelsOfEmpty DEF PInv, LocksBalance
    <2>3. ASSUME NEW mx \in Mutex, Held(mx, t) = 0 PROVE mx.owner # t
      BY <2>3, TableAssumption DEF Held, Mutex, FreeMutex
    <2>4. mutex \in [Slots -> Mutex] /\ glock \in Mutex BY DEF PInv, PathTypes
    <2>5. glock.owner # t
      <3>1. Process \in Resources /\ Works(Process, setting) BY DEF Resources, Process, Works
      <3>2. Held(glock, t) = 0 BY <2>2, <3>1 DEF HeldOf
      <3> QED BY <2>3, <2>4, <3>2
    <2>6. ASSUME NEW h \in Slots PROVE mutex[h].owner # t
      <3>1. CASE Works(h, setting)
        <4>1. h \in Resources /\ h # Process BY SlotResource
        <4>2. Held(mutex[h], t) = 0 BY <2>2, <3>1, <4>1 DEF HeldOf
        <4> QED BY <2>3, <2>4, <4>2
      <3>2. CASE ~Works(h, setting)
        <4>1. mutex[h] = FreeMutex BY <3>2 DEF Works, PInv, SlotZero
        <4> QED BY <4>1, TableAssumption DEF FreeMutex
      <3> QED BY <3>1, <3>2
    <2>7. \A i \in DOMAIN converter : converter[i].lock.owner # t
      <3>1. DOMAIN converter = 1 .. setting.pool BY DEF CInv, ConverterTypes
      <3> QED BY <3>1 DEF PInv, ConvertersHeld, At
    <2> QED BY <2>1, <2>5, <2>6, <2>7
  <1> QED BY <1>1, PathInvariant, PTL

\* A process and a job of different CCSIDs, text that iconv can convert, and room
\* for one converter of each pair for each thread are all it takes for DB2 to be
\* given every text parameter whole, however conversions, traces and threads mix:
\* with that room no search for a converter ever fails.  With any of the three
\* gone DB2 may get the empty or truncated string a failed conversion leaves, for
\* non_utf_copy_in does not look at its result.
THEOREM TextConverted == Spec => []TextReachesDb2
  <1>1. CInv /\ PInv => TextReachesDb2
    <2> SUFFICES ASSUME CInv, PInv, Room, NEW t \in Threads, At(t, "db2"), NEW copy \in copies[t]
                 PROVE  copy[2] \in sent[t]
      BY DEF TextReachesDb2, Room
    <2>1. ~Underway(todo[t], copy[2]) BY NotUnderway DEF At, Carries
    <2> QED BY <2>1 DEF PInv, TextSent
  <1> QED BY <1>1, PathInvariant, PTL
=============================================================================
