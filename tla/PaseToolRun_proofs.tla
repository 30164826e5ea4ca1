--------------------------- MODULE PaseToolRun_proofs ---------------------------
(***************************************************************************)
(* Proofs about the requests of the toolkit, for any documents, any requests *)
(* one after another, any number of handles and every refusal of DB2.        *)
(***************************************************************************)
EXTENDS PaseToolRun, PaseToIle_proofs, WellFoundedInduction, FiniteSetTheorems,
  SequenceTheorems, TLAPS

-----------------------------------------------------------------------------
(* The list of nodes of a document is a list                                 *)

IsList(s) == \E S : s \in Seq(S)

LEMMA ListFacts ==
  ASSUME NEW s, IsList(s)
  PROVE  Len(s) \in Nat /\ DOMAIN s = 1 .. Len(s) /\ s = [i \in 1 .. Len(s) |-> s[i]]
  BY LenProperties DEF IsList

LEMMA ListOf ==
  ASSUME NEW n \in Nat, NEW f, f = [i \in 1 .. n |-> f[i]]
  PROVE  IsList(f) /\ Len(f) = n
  <1> DEFINE S == {f[i] : i \in 1 .. n}
  <1>1. f \in [1 .. n -> S] OBVIOUS
  <1>2. f \in Seq(S) BY <1>1, SeqDef
  <1>3. DOMAIN f = 1 .. n /\ DOMAIN f = 1 .. Len(f) /\ Len(f) \in Nat
    BY <1>1, <1>2, LenProperties
  <1>4. Len(f) = n BY <1>3
  <1>5. IsList(f) BY <1>2 DEF IsList
  <1> QED BY <1>4, <1>5

LEMMA JoinedLists ==
  ASSUME NEW s, NEW t, IsList(s), IsList(t)
  PROVE  IsList(s \o t) /\ Len(s \o t) = Len(s) + Len(t)
  <1>1. PICK S : s \in Seq(S) BY DEF IsList
  <1>2. PICK T : t \in Seq(T) BY DEF IsList
  <1>3. s \in Seq(S \cup T) /\ t \in Seq(S \cup T) BY <1>1, <1>2
  <1>4. s \o t \in Seq(S \cup T) /\ Len(s \o t) = Len(s) + Len(t) BY <1>3, ConcatProperties
  <1> QED BY <1>4 DEF IsList

LEMMA ShortLists ==
  IsList(<<>>) /\ Len(<<>>) = 0 /\ \A x : IsList(<<x>>) /\ Len(<<x>>) = 1
  <1>1. <<>> \in Seq({}) OBVIOUS
  <1>2. ASSUME NEW x PROVE <<x>> \in Seq({x}) /\ Len(<<x>>) = 1 OBVIOUS
  <1> QED BY <1>1, <1>2 DEF IsList

LEMMA FinishedList ==
  ASSUME NEW s, IsList(s), NEW b
  PROVE  IsList([s EXCEPT ![b].fin = TRUE])
  <1> DEFINE f == [s EXCEPT ![b].fin = TRUE]
  <1>1. Len(s) \in Nat /\ DOMAIN s = 1 .. Len(s) BY ListFacts
  <1>2. f = [i \in 1 .. Len(s) |-> f[i]] BY <1>1
  <1> QED BY <1>1, <1>2, ListOf

LEMMA PushList ==
  ASSUME NEW list, IsList(list), NEW key, NEW elem, NEW ord
  PROVE  IsList(Push(list, key, elem, ord))
  BY JoinedLists, ShortLists DEF Push

LEMMA NodeEndList ==
  ASSUME NEW list, IsList(list), NEW elem, NEW ord
  PROVE  IsList(NodeEnd(list, elem, ord))
  <1> DEFINE b == Latest(list, Begins(list, elem), ord)
  <1> HIDE DEF b
  <1>1. IsList([list EXCEPT ![b].fin = TRUE]) BY FinishedList
  <1>2. IsList(Push([list EXCEPT ![b].fin = TRUE], "end", elem, list[b].ord)) BY <1>1, PushList
  <1>3. NodeEnd(list, elem, ord) =
          IF b = 0 THEN list ELSE Push([list EXCEPT ![b].fin = TRUE], "end", elem, list[b].ord)
    BY DEF NodeEnd, b
  <1> QED BY <1>2, <1>3

LEMMA NodeSepList ==
  ASSUME NEW list, IsList(list), NEW ord
  PROVE  IsList(NodeSep(list, ord))
  <1> DEFINE b == Latest(list, DOMAIN list, ord)
             more == Push(Push([list EXCEPT ![b].fin = TRUE], "end", list[b].elem, list[b].ord),
                          "beg", list[b].elem, list[b].ord)
  <1>1. IsList(more) BY FinishedList, PushList
  <1>2. NodeSep(list, ord) \in {list, more} BY DEF NodeSep
  <1> QED BY <1>1, <1>2

LEMMA NodeAttrList ==
  ASSUME NEW list, IsList(list), NEW elem, NEW name, NEW lex, NEW val, NEW ord
  PROVE  IsList(NodeAttr(list, elem, name, lex, val, ord))
  <1> DEFINE b == Latest(list, Begins(list, elem), ord)
             more == [list EXCEPT ![b].attrs = Append(@, [name |-> name, lex |-> lex, val |-> val])]
  <1>1. Len(list) \in Nat /\ DOMAIN list = 1 .. Len(list) BY ListFacts
  <1>2. more = [i \in 1 .. Len(list) |-> more[i]] BY <1>1
  <1>3. IsList(more) BY <1>1, <1>2, ListOf
  <1>4. NodeAttr(list, elem, name, lex, val, ord) \in {list, more} BY DEF NodeAttr
  <1> QED BY <1>3, <1>4

\* The three passes make a list of nodes of every document.
LEMMA NodesOfList ==
  ASSUME NEW doc, Len(doc) \in Nat
  PROVE  IsList(NodesOf(doc))
  <1> DEFINE raw    == Parse(doc)
             extent == Extents(raw)
             toks   == <<>> \o [k \in 1 .. Len(doc) |-> Transformed(raw, extent, k)]
             Add(list, k) ==
               IF list = <<>> /\ toks[k].key # "beg" THEN list
               ELSE CASE toks[k].key = "beg" -> Push(list, "beg", toks[k].val, toks[k].lvl)
                      [] toks[k].key = "end" -> NodeEnd(list, toks[k].val, toks[k].lvl)
                      [] toks[k].key = "sep" -> NodeSep(list, toks[k].lvl)
                      [] OTHER ->
                           LET v == ValueToken(toks, k)
                           IN  NodeAttr(list, OwnerOf(raw, extent, k), toks[k].val, v.key, v.val,
                                        toks[k].lvl)
             these  == {k \in 1 .. Len(toks) : toks[k].key \in {"beg", "end", "sep", "attr"}}
             Nth(k) == CHOOSE j \in these : Cardinality({i \in these : i <= j}) = k
             n      == Cardinality(these)
             Makes(f, m) == f = [k \in 0 .. m |-> IF k = 0 THEN <<>> ELSE Add(f[k - 1], Nth(k))]
  <1>1. n \in Nat
    <2> DEFINE g == [k \in 1 .. Len(doc) |-> Transformed(raw, extent, k)]
    <2>1. IsList(g) BY ListOf
    <2>2. IsList(<<>> \o g) BY <2>1, ShortLists, JoinedLists
    <2>3. Len(toks) \in Nat BY <2>2, ListFacts
    <2> HIDE DEF toks
    <2>4. IsFiniteSet(1 .. Len(toks)) BY <2>3, FS_Interval
    <2>5. IsFiniteSet(these) BY <2>4, FS_Subset
    <2> QED BY <2>5, FS_CardinalityType
  <1>2. ASSUME NEW list, IsList(list), NEW k PROVE IsList(Add(list, k))
    <2> HIDE DEF toks, raw, extent
    <2>1. IsList(Push(list, "beg", toks[k].val, toks[k].lvl)) BY <1>2, PushList
    <2>2. IsList(NodeEnd(list, toks[k].val, toks[k].lvl)) BY <1>2, NodeEndList
    <2>3. IsList(NodeSep(list, toks[k].lvl)) BY <1>2, NodeSepList
    <2>4. IsList(NodeAttr(list, OwnerOf(raw, extent, k), toks[k].val, ValueToken(toks, k).key,
                          ValueToken(toks, k).val, toks[k].lvl))
      BY <1>2, NodeAttrList
    <2> QED BY <1>2, <2>1, <2>2, <2>3, <2>4
  <1>3. NodesOf(doc) = (CHOOSE f : Makes(f, n))[n]
    BY DEF NodesOf
  <1> HIDE DEF Add, Nth, n
  <1>4. \A m \in Nat : \E f : Makes(f, m) /\ IsList(f[m])
    <2> SUFFICES ASSUME \E m \in Nat : ~(\E f : Makes(f, m) /\ IsList(f[m])) PROVE FALSE
      OBVIOUS
    <2> DEFINE T == {m \in Nat : ~(\E f : Makes(f, m) /\ IsList(f[m]))}
    <2>1. PICK m \in T : \A j \in T : ~(<<j, m>> \in OpToRel(<, Nat))
      BY NatLessThanWellFounded, WFMin
    <2>2. m # 0
      <3> DEFINE f == [k \in 0 .. 0 |-> <<>>]
      <3>1. Makes(f, 0) /\ f[0] = <<>> OBVIOUS
      <3>2. IsList(f[0]) BY <3>1, ShortLists
      <3>3. \E h : Makes(h, 0) /\ IsList(h[0]) BY <3>1, <3>2
      <3> HIDE DEF Makes
      <3> QED BY <3>3, <2>1
    <2>3. m - 1 \in Nat /\ m - 1 < m BY <2>2
    <2>4. m - 1 \notin T BY <2>1, <2>3 DEF OpToRel
    <2>5. PICK f : Makes(f, m - 1) /\ IsList(f[m - 1]) BY <2>3, <2>4
    <2> DEFINE g == [k \in 0 .. m |-> IF k = m THEN Add(f[m - 1], Nth(m)) ELSE f[k]]
    <2>6. Makes(g, m)
      <3>1. ASSUME NEW k \in 0 .. m PROVE g[k] = IF k = 0 THEN <<>> ELSE Add(g[k - 1], Nth(k))
        <4>1. CASE k = m
          <5>1. g[m] = Add(f[m - 1], Nth(m)) OBVIOUS
          <5>2. g[m - 1] = f[m - 1] BY <2>2
          <5> QED BY <4>1, <5>1, <5>2, <2>2
        <4>2. CASE k # m
          <5>1. k \in 0 .. m - 1 BY <4>2
          <5>2. f[k] = IF k = 0 THEN <<>> ELSE Add(f[k - 1], Nth(k)) BY <5>1, <2>5
          <5>3. g[k] = f[k] BY <4>2
          <5>4. k # 0 => g[k - 1] = f[k - 1] BY <5>1
          <5> QED BY <5>2, <5>3, <5>4
        <4> QED BY <4>1, <4>2
      <3> QED BY <3>1
    <2>7. IsList(g[m]) BY <2>5, <1>2
    <2> QED BY <2>1, <2>6, <2>7
  <1>5. \A f, h : Makes(f, n) /\ Makes(h, n) => f = h
    <2> SUFFICES ASSUME NEW f, NEW h, Makes(f, n), Makes(h, n) PROVE f = h OBVIOUS
    <2> DEFINE T == {k \in 0 .. n : f[k] # h[k]}
    <2>1. T = {}
      <3> SUFFICES ASSUME T # {} PROVE FALSE OBVIOUS
      <3>0. T \subseteq Nat BY <1>1
      <3>1. PICK k \in T : \A j \in T : ~(<<j, k>> \in OpToRel(<, Nat))
        BY <3>0, NatLessThanWellFounded, WFMin
      <3>2. k \in 0 .. n BY <3>1
      <3>3. f[k] = (IF k = 0 THEN <<>> ELSE Add(f[k - 1], Nth(k))) BY <3>2
      <3>4. h[k] = (IF k = 0 THEN <<>> ELSE Add(h[k - 1], Nth(k))) BY <3>2
      <3>5. k # 0 BY <3>1, <3>3, <3>4
      <3>6. k - 1 \in 0 .. n /\ k - 1 \in Nat /\ k \in Nat /\ k - 1 < k BY <1>1, <3>2, <3>5
      <3>7. k - 1 \notin T BY <3>1, <3>6 DEF OpToRel
      <3>8. f[k - 1] = h[k - 1] BY <3>6, <3>7
      <3> QED BY <3>1, <3>3, <3>4, <3>8
    <2> QED BY <2>1
  <1>6. PICK f : Makes(f, n) /\ IsList(f[n]) BY <1>1, <1>4
  <1> HIDE DEF Makes
  <1>7. (CHOOSE g : Makes(g, n)) = f BY <1>5, <1>6
  <1> QED BY <1>3, <1>6, <1>7

-----------------------------------------------------------------------------
(* The inductive invariant                                                   *)

\* A connection's run: from its beginning to its end.
Working == pc \notin {"idle", "script", "answered"}

\* The records keep their fields, and what is computed with has a type.
ConnOK ==
  /\ conn = [hdbc |-> conn.hdbc, type |-> conn.type, keep |-> conn.keep,
             last |-> conn.last, max |-> conn.max]
  /\ conn.hdbc \in Slots /\ conn.keep \in BOOLEAN /\ conn.last \in Nat

WorkOK ==
  /\ work = [node |-> work.node, stmt |-> work.stmt, rows |-> work.rows, mem |-> work.mem,
             close |-> work.close, max |-> work.max, meta |-> work.meta, next |-> work.next]
  /\ work.close \in BOOLEAN /\ work.node \in Nat /\ work.next \in Nat

PgmOK ==
  pgm = [layout |-> pgm.layout, stmt |-> pgm.stmt, mem |-> pgm.mem, begun |-> pgm.begun,
         step |-> pgm.step, max |-> pgm.max, frames |-> pgm.frames, hold |-> pgm.hold,
         holdord |-> pgm.holdord, written |-> pgm.written, read |-> pgm.read]

LogOK ==
  /\ log = [labels |-> log.labels, byhand |-> log.byhand, ran |-> log.ran, shown |-> log.shown,
            told |-> log.told, refused |-> log.refused, lost |-> log.lost, stray |-> log.stray]
  /\ log.byhand \in BOOLEAN /\ log.refused \in BOOLEAN /\ log.told \in BOOLEAN

Types ==
  /\ db2 \in [Slots -> Db2Handle]
  /\ given \in {0, 2} /\ pool \in Slots
  /\ reqs \in Seq(DOMAIN Documents) /\ (pc # "idle" => reqs # <<>>)
  /\ IsList(nodes) /\ ConnOK /\ WorkOK /\ PgmOK /\ LogOK

\* The run is at a node of the list, or behind it.  (The walk over the parameters
\* of a program starts again at the program, whatever its positions were.)
InCall == {"params", "pgmcall", "pgmend"}

Positions == pc \notin {"idle"} \cup InCall => at \in Nat \ {0}

\* The history knows the labels of the document that runs, and whether it closes
\* its connection.
Labels == pc # "idle" => LabelsOf(nodes) \subseteq log.labels /\ (ClosesAll(nodes) => log.byhand)

\* What ConnectionsReturned leaves out.
Excused == log.byhand \/ log.labels \ {"*mem"} # {} \/ (log.refused /\ log.labels # {})

\* A connection is the client's, the one kept for a label, or the current one's
\* end will close it.  One that is not closed at its end is one of the first two.
Connections ==
  ~Excused =>
    /\ \A c \in HandleNums : db2[c].kind = "dbc" =>
         \/ c \in {given, pool}
         \/ Working /\ c = conn.hdbc /\ ~conn.keep
    /\ Working /\ conn.keep => conn.hdbc # 0 /\ conn.hdbc \in {given, pool}

\* The statements that the element being run will free.
Owned(h) ==
  \/ pc \in {"fetch", "queried"} /\ h = work.stmt /\ work.close
  \/ pc = "cmd" /\ h = work.rows
  \/ pc \in {"output", "cmdend"} /\ h \in {work.stmt, work.rows}
  \/ pc \in InCall /\ h = pgm.stmt

Statements == \A h \in HandleNums : db2[h].kind = "stmt" => h \in log.shown \/ Owned(h)

\* An error the request ends with has been told.
ErrorTold == pc \in {"script", "conn", "bye", "answered"} /\ rc = "error" => log.told

RInv == Types /\ Positions /\ Labels /\ Connections /\ Statements /\ ErrorTold

-----------------------------------------------------------------------------
(* What DB2 answers                                                          *)

Handles == [Slots -> Db2Handle]

LEMMA FreeHandleFacts ==
  ASSUME NEW d \in Handles
  PROVE  /\ FreeHandle(d) \in Slots
         /\ FreeHandle(d) # 0 => FreeHandle(d) \in HandleNums /\ d[FreeHandle(d)].kind = "free"
  <1> DEFINE free == {h \in HandleNums : ~Db2Alive(d, h)}
  <1>1. HandleNums \subseteq Nat /\ HandleNums \subseteq Slots /\ 0 \in Slots
    BY TableAssumption DEF HandleNums, Slots
  <1>2. CASE free = {}
    BY <1>1, <1>2 DEF FreeHandle
  <1>3. CASE free # {}
    <2>1. PICK i \in free : \A j \in free : ~(<<j, i>> \in OpToRel(<, Nat))
      BY <1>1, <1>3, NatLessThanWellFounded, WFMin
    <2>2. \A j \in free : i <= j
      <3> SUFFICES ASSUME NEW j \in free PROVE i <= j OBVIOUS
      <3>1. i \in Nat /\ j \in Nat BY <1>1
      <3>2. ~(j < i) BY <2>1, <3>1 DEF OpToRel
      <3> QED BY <3>1, <3>2
    <2>3. MinOf(free) \in free BY <2>1, <2>2 DEF MinOf
    <2>4. FreeHandle(d) = MinOf(free) BY <1>3 DEF FreeHandle
    <2> QED BY <1>1, <2>3, <2>4 DEF Db2Alive
  <1> QED BY <1>2, <1>3

\* No call makes a statement into a connection, or the other way round: what is
\* there afterwards was there before, or is the handle the call made.
SameKinds(d, e, x) ==
  /\ e[x].kind = "dbc" => d[x].kind = "dbc"
  /\ e[x].kind = "stmt" => d[x].kind = "stmt"

LEMMA OpenedFacts ==
  ASSUME db2 \in Handles, NEW o \in Opened
  PROVE  /\ o.db2 \in Handles /\ o.h \in Slots
         /\ \A x \in Slots : x # o.h => SameKinds(db2, o.db2, x)
         /\ o.h # 0 => o.db2[o.h].kind = "dbc"
         /\ o.h = 0 => o.db2 = db2
         /\ o.ans = "ok" => o.h # 0 /\ o.db2[o.h].connected
  <1> DEFINE h == FreeHandle(db2)
             new == Db2NewDbc(db2, h)
  <1>1. h \in Slots /\ (h # 0 => h \in HandleNums /\ db2[h].kind = "free") BY FreeHandleFacts
  <1> HIDE DEF h
  <1>2. \/ o = Outcome(db2, 0, "error")
        \/ h # 0 /\ o \in {Outcome(new, h, "error"), Outcome(Db2Connect(new, h), h, "ok"),
                           Outcome(Db2Connect(new, h), h, "error")}
    BY DEF Opened, h
  <1>3. 0 \in Slots BY TableAssumption DEF Slots
  <1>4. new \in Handles /\ new[h].kind = "dbc" /\ \A x \in Slots : x # h => new[x] = db2[x]
    BY <1>1 DEF Db2NewDbc, Handles, Db2Handle
  <1>5. /\ Db2Connect(new, h) \in Handles /\ Db2Connect(new, h)[h].connected
        /\ Db2Connect(new, h)[h].kind = "dbc"
        /\ \A x \in Slots : x # h => Db2Connect(new, h)[x] = db2[x]
    BY <1>1, <1>4 DEF Db2Connect, Handles, Db2Handle
  <1> HIDE DEF new
  <1>6. CASE o = Outcome(db2, 0, "error")
    BY <1>3, <1>6 DEF Outcome, SameKinds
  <1>7. CASE h # 0 /\ o = Outcome(new, h, "error")
    BY <1>1, <1>4, <1>7 DEF Outcome, SameKinds
  <1>8. CASE h # 0 /\ o \in {Outcome(Db2Connect(new, h), h, "ok"), Outcome(Db2Connect(new, h), h, "error")}
    BY <1>1, <1>5, <1>8 DEF Outcome, SameKinds
  <1> QED BY <1>2, <1>6, <1>7, <1>8

LEMMA DelayedFacts ==
  ASSUME db2 \in Handles, conn.hdbc \in Slots, NEW o \in Delayed
  PROVE  /\ o.db2 \in Handles /\ o.h \in Slots
         /\ o.h = conn.hdbc \/ conn.hdbc = 0
         /\ \A x \in Slots : x # o.h => SameKinds(db2, o.db2, x)
         /\ o.h # 0 /\ o.db2[o.h].kind = "stmt" => db2[o.h].kind = "stmt"
         /\ o.h = 0 => o.db2 = db2
  <1>1. CASE conn.hdbc # 0
    <2>1. o = Outcome(db2, conn.hdbc, "ok") BY <1>1 DEF Delayed
    <2> QED BY <1>1, <2>1 DEF Outcome, SameKinds
  <1>2. CASE conn.hdbc = 0
    <2>1. o \in Opened BY <1>2 DEF Delayed
    <2> QED BY <1>2, <2>1, OpenedFacts
  <1> QED BY <1>1, <1>2

LEMMA NewStmtFacts ==
  ASSUME NEW d \in Handles, NEW c \in Slots, NEW a \in NewStmt(d, c)
  PROVE  /\ a.db2 \in Handles /\ a.h \in Slots
         /\ \A x \in Slots : x # a.h => SameKinds(d, a.db2, x)
         /\ a.h # 0 => a.db2[a.h].kind = "stmt"
         /\ a.h = 0 => a.db2 = d
  <1> DEFINE h == FreeHandle(d)
  <1>1. h \in Slots BY FreeHandleFacts
  <1> HIDE DEF h
  <1>2. \/ a = Outcome(d, 0, "other")
        \/ a = Outcome(d, 0, "error")
        \/ h # 0 /\ a = Outcome(Db2NewStmt(d, h, c), h, "ok")
    BY DEF NewStmt, h
  <1>3. 0 \in Slots BY TableAssumption DEF Slots
  <1>4. /\ Db2NewStmt(d, h, c) \in Handles /\ Db2NewStmt(d, h, c)[h].kind = "stmt"
        /\ \A x \in Slots : x # h => Db2NewStmt(d, h, c)[x] = d[x]
    BY <1>1 DEF Db2NewStmt, Handles, Db2Handle
  <1>5. CASE a \in {Outcome(d, 0, "other"), Outcome(d, 0, "error")}
    BY <1>3, <1>5 DEF Outcome, SameKinds
  <1>6. CASE h # 0 /\ a = Outcome(Db2NewStmt(d, h, c), h, "ok")
    BY <1>1, <1>4, <1>6 DEF Outcome, SameKinds
  <1> QED BY <1>2, <1>5, <1>6

LEMMA FreeStmtFacts ==
  ASSUME NEW d \in Handles, NEW h
  PROVE  /\ Db2FreeStmt(d, h) \in Handles
         /\ \A x \in Slots : SameKinds(d, Db2FreeStmt(d, h), x)
         /\ \A x \in Slots : Db2FreeStmt(d, h)[x].kind = "stmt" => x # h
  <1>1. Db2Free \in Db2Handle /\ Db2Free.kind = "free"
    BY TableAssumption DEF Db2Free, Db2Handle, Slots
  <1> DEFINE e == [d EXCEPT ![h] = Db2Free]
  <1>2. e \in Handles /\ \A x \in Slots : e[x] = IF x = h THEN Db2Free ELSE d[x]
    BY <1>1 DEF Handles
  <1>3. Db2FreeStmt(d, h) = IF d[h].kind = "stmt" THEN e ELSE d BY DEF Db2FreeStmt
  <1> HIDE DEF e
  <1> QED BY <1>1, <1>2, <1>3 DEF SameKinds

\* A connection that is disconnected and freed is gone, and no other one comes.
LEMMA FreeConnFacts ==
  ASSUME NEW d \in Handles, NEW c \in Slots
  PROVE  LET e == Db2FreeDbc(Db2Disconnect(d, c), c)
         IN  /\ e \in Handles
             /\ \A x \in Slots : SameKinds(d, e, x)
             /\ e[c].kind # "dbc"
  <1> DEFINE m == Db2Disconnect(d, c)
             e == Db2FreeDbc(m, c)
             n == [m EXCEPT ![c] = Db2Free]
  <1>1. Db2Free \in Db2Handle /\ Db2Free.kind = "free"
    BY TableAssumption DEF Db2Free, Db2Handle, Slots
  <1>2. ASSUME NEW x \in Slots
        PROVE  /\ m[x] \in Db2Handle
               /\ m[x].kind = d[x].kind \/ m[x].kind = "free"
               /\ x = c /\ m[x].kind = "dbc" => ~m[x].connected
    BY <1>1, <1>2 DEF Db2Disconnect, Db2Stmts, Handles, Db2Handle
  <1>3. m \in Handles
    <2>1. m = [x \in Slots |-> m[x]] BY DEF Db2Disconnect
    <2> QED BY <1>2, <2>1 DEF Handles
  <1> HIDE DEF m
  <1>4. n \in Handles /\ \A x \in Slots : n[x] = IF x = c THEN Db2Free ELSE m[x]
    BY <1>1, <1>3 DEF Handles
  <1>5. e = IF m[c].kind = "dbc" /\ ~m[c].connected THEN n ELSE m BY DEF Db2FreeDbc
  <1> HIDE DEF n, e
  <1>6. e \in Handles /\ e[c].kind # "dbc" BY <1>1, <1>2, <1>3, <1>4, <1>5
  <1>7. \A x \in Slots : SameKinds(d, e, x) BY <1>1, <1>2, <1>4, <1>5 DEF SameKinds
  <1> QED BY <1>6, <1>7 DEF e, m

-----------------------------------------------------------------------------
(* One step of the run of a connection                                       *)

\* Steps of a connection's children: they may open the connection, never drop it.
LEMMA ChildStep ==
  ASSUME RInv, Working, Working',
         UNCHANGED <<given, reqs, nodes, pool>>,
         db2' \in Handles, ConnOK', WorkOK', PgmOK', LogOK',
         conn'.keep = conn.keep,
         conn'.hdbc = conn.hdbc \/ conn.hdbc = 0,
         \A x \in Slots : db2'[x].kind = "dbc" => db2[x].kind = "dbc" \/ x = conn'.hdbc,
         log'.labels = log.labels, log'.byhand = log.byhand, log.refused => log'.refused,
         Positions', Statements', ErrorTold'
  PROVE  RInv'
  <1>1. Types' BY DEF RInv, Types, Handles, Working
  <1>2. Labels'
    BY DEF RInv, Labels, Working, LabelsOf, ClosesAll
  <1>3. Connections'
    <2>1. HandleNums \subseteq Slots /\ 0 \notin HandleNums
      BY TableAssumption DEF HandleNums, Slots
    <2> SUFFICES ASSUME ~Excused' PROVE
          /\ \A c \in HandleNums : db2'[c].kind = "dbc" =>
               \/ c \in {given, pool}
               \/ c = conn'.hdbc /\ ~conn.keep
          /\ conn.keep => conn'.hdbc # 0 /\ conn'.hdbc \in {given, pool}
      BY DEF Connections, Working
    <2>2. ~Excused BY DEF Excused
    <2>3. /\ \A c \in HandleNums : db2[c].kind = "dbc" =>
               \/ c \in {given, pool}
               \/ c = conn.hdbc /\ ~conn.keep
          /\ conn.keep => conn.hdbc # 0 /\ conn.hdbc \in {given, pool}
      BY <2>2 DEF RInv, Connections
    <2> QED BY <2>1, <2>3
  <1> QED BY <1>1, <1>2, <1>3 DEF RInv

\* Steps that leave DB2 alone and reach no statement.
LEMMA QuietStep ==
  ASSUME RInv, Working, Working',
         UNCHANGED <<given, reqs, nodes, pool, db2>>,
         ConnOK', WorkOK', PgmOK', LogOK',
         conn'.keep = conn.keep, conn'.hdbc = conn.hdbc,
         log'.labels = log.labels, log'.byhand = log.byhand, log'.refused = log.refused,
         log.shown \subseteq log'.shown,
         \A h \in HandleNums : Owned(h) => Owned(h)',
         Positions', ErrorTold'
  PROVE  RInv'
  <1>1. db2 \in Handles BY DEF RInv, Types, Handles
  <1>2. Statements' BY DEF RInv, Statements
  <1>3. db2' \in Handles BY <1>1
  <1> QED BY <1>2, <1>3, ChildStep

-----------------------------------------------------------------------------
(* The call of a program                                                     *)

LEMMA PgmQuiet ==
  ASSUME RInv, pc \in InCall, pc' \in InCall,
         UNCHANGED <<given, reqs, nodes, conn, pool, db2, work>>,
         PgmOK', pgm'.stmt = pgm.stmt, LogOK',
         log'.labels = log.labels, log'.byhand = log.byhand, log'.refused = log.refused,
         log'.shown = log.shown
  PROVE  RInv'
  <1>1. Working /\ Working' BY DEF Working, InCall
  <1>2. ConnOK' /\ WorkOK' BY DEF RInv, Types, ConnOK, WorkOK
  <1>3. Positions' BY DEF Positions, InCall
  <1>4. ErrorTold' BY DEF ErrorTold, InCall
  <1>5. \A h \in HandleNums : Owned(h) => Owned(h)' BY DEF Owned, InCall
  <1> QED BY <1>1, <1>2, <1>3, <1>4, <1>5, QuietStep

LEMMA WalkKeeps ==
  ASSUME RInv,
         \/ DataIn \/ DataOut \/ DsIn \/ EndDsIn \/ DsOut \/ EndDsNext \/ EndDsLast
         \/ PassParam \/ ParamsEnd
  PROVE  RInv'
  <1>1. PgmOK /\ LogOK BY DEF RInv, Types
  <1>2. ASSUME pgm' = pgm PROVE PgmOK' /\ pgm'.stmt = pgm.stmt BY <1>1, <1>2 DEF PgmOK
  <1>3. ASSUME log' = log
        PROVE  /\ LogOK' /\ log'.labels = log.labels /\ log'.byhand = log.byhand
               /\ log'.refused = log.refused /\ log'.shown = log.shown
    BY <1>1, <1>3 DEF LogOK
  <1>4. ASSUME NEW r, log' = [log EXCEPT !.ran = r]
        PROVE  /\ LogOK' /\ log'.labels = log.labels /\ log'.byhand = log.byhand
               /\ log'.refused = log.refused /\ log'.shown = log.shown
    BY <1>1, <1>4 DEF LogOK
  <1>5. CASE DataIn
    <2>1. PgmOK' /\ pgm'.stmt = pgm.stmt BY <1>1, <1>2, <1>5 DEF DataIn, PgmOK
    <2> QED BY <1>4, <1>5, <2>1, PgmQuiet DEF DataIn, Walking, InCall
  <1>6. CASE DataOut
    <2>1. PgmOK' /\ pgm'.stmt = pgm.stmt BY <1>1, <1>6 DEF DataOut, PgmOK
    <2> QED BY <1>3, <1>6, <2>1, PgmQuiet DEF DataOut, Walking, InCall
  <1>7. CASE DsIn
    <2>1. PgmOK' /\ pgm'.stmt = pgm.stmt BY <1>1, <1>7 DEF DsIn, PgmOK
    <2> QED BY <1>4, <1>7, <2>1, PgmQuiet DEF DsIn, Walking, InCall
  <1>8. CASE EndDsIn
    <2>1. PgmOK' /\ pgm'.stmt = pgm.stmt BY <1>1, <1>8 DEF EndDsIn, PgmOK
    <2> QED BY <1>3, <1>8, <2>1, PgmQuiet DEF EndDsIn, Walking, InCall
  <1>9. CASE DsOut
    <2>1. PgmOK' /\ pgm'.stmt = pgm.stmt BY <1>1, <1>9 DEF DsOut, PgmOK
    <2> QED BY <1>3, <1>9, <2>1, PgmQuiet DEF DsOut, Walking, InCall
  <1>10. CASE EndDsNext
    <2>1. PgmOK' /\ pgm'.stmt = pgm.stmt BY <1>1, <1>10 DEF EndDsNext, PgmOK
    <2> QED BY <1>3, <1>10, <2>1, PgmQuiet DEF EndDsNext, Walking, InCall
  <1>11. CASE EndDsLast
    <2>1. PgmOK' /\ pgm'.stmt = pgm.stmt BY <1>1, <1>11 DEF EndDsLast, PgmOK
    <2>2. /\ LogOK' /\ log'.labels = log.labels /\ log'.byhand = log.byhand
          /\ log'.refused = log.refused /\ log'.shown = log.shown
      BY <1>1, <1>11 DEF EndDsLast, LogOK
    <2> QED BY <1>11, <2>1, <2>2, PgmQuiet DEF EndDsLast, Walking, InCall
  <1>12. CASE PassParam
    BY <1>2, <1>3, <1>12, PgmQuiet DEF PassParam, InCall
  <1>13. CASE ParamsEnd
    <2>1. PgmOK' /\ pgm'.stmt = pgm.stmt BY <1>1, <1>13 DEF ParamsEnd, PgmOK
    <2> QED BY <1>3, <1>13, <2>1, PgmQuiet DEF ParamsEnd, InCall
  <1> QED BY <1>5, <1>6, <1>7, <1>8, <1>9, <1>10, <1>11, <1>12, <1>13

LEMMA PgmCallKeeps ==
  ASSUME RInv, PgmCall
  PROVE  RInv'
  <1>1. PgmOK /\ LogOK BY DEF RInv, Types
  <1>2. PgmOK' /\ pgm'.stmt = pgm.stmt BY <1>1 DEF PgmCall, PgmOK
  <1>3. /\ LogOK' /\ log'.labels = log.labels /\ log'.byhand = log.byhand
        /\ log'.refused = log.refused /\ log'.shown = log.shown
    <2>1. CASE pgm.mem BY <1>1, <2>1 DEF PgmCall, LogOK
    <2>2. CASE ~pgm.mem
      <3>1. PICK e : log' = [log EXCEPT !.told = @ \/ Told(db2, pgm.stmt, e)]
        BY <2>2 DEF PgmCall
      <3>2. Told(db2, pgm.stmt, e) \in BOOLEAN BY DEF Told
      <3> QED BY <1>1, <3>1, <3>2 DEF LogOK
    <2> QED BY <2>1, <2>2
  <1> QED BY <1>2, <1>3, PgmQuiet DEF PgmCall, InCall

LEMMA PgmBeginKeeps ==
  ASSUME RInv, PgmBegin
  PROVE  RInv'
  <1>0. /\ pc = "conn" /\ at \in Nat \ {0} /\ db2 \in Handles
        /\ ConnOK /\ WorkOK /\ LogOK /\ Statements
    BY DEF RInv, Types, Positions, PgmBegin, Child, InCall, Handles
  <1>1. PICK a \in (IF InMemory(conn.type) THEN {Outcome(db2, 0, "ok")} ELSE NewStmt(db2, conn.hdbc)) :
          \E p \in (IF InMemory(conn.type) \/ a.ans # "ok" THEN {a.ans} ELSE Answers(a.db2, a.h)) :
            LET r     == RcOf(a.db2, a.h, p)
                named == HasAttr(N[at], "name")
            IN  /\ db2' = a.db2
                /\ rc' = r
                /\ out' = out \o ErrorOf(a.db2, a.h, p) \o
                          (IF r = "ok" /\ named THEN Beg ELSE <<>>)
                /\ pgm' = [NoPgm EXCEPT !.stmt = a.h, !.mem = InMemory(conn.type),
                                        !.begun = r = "ok" /\ named, !.step = 1, !.max = DeepestIn(at)]
                /\ log' = [log EXCEPT !.ran = @ \cup {at}, !.told = @ \/ Told(a.db2, a.h, p),
                                      !.lost = @ \/ Lost(a.h, a.ans)]
                /\ pc' = IF r = "ok" THEN "params" ELSE "pgmend"
                /\ at' = IF r = "ok" THEN at + 1 ELSE at
    BY ZenonT(60) DEF PgmBegin
  <1>2. /\ a.db2 \in Handles
        /\ \A x \in Slots : x # a.h => SameKinds(db2, a.db2, x)
        /\ a.h # 0 => a.db2[a.h].kind = "stmt"
        /\ a.h = 0 => a.db2 = db2
    <2>1. CASE InMemory(conn.type)
      BY <1>0, <1>1, <2>1 DEF Outcome, SameKinds
    <2>2. CASE ~InMemory(conn.type)
      BY <1>0, <1>1, <2>2, NewStmtFacts DEF ConnOK
    <2> QED BY <2>1, <2>2
  <1>3. PgmOK' /\ pgm'.stmt = a.h BY <1>1 DEF PgmOK, NoPgm
  <1>4. /\ LogOK' /\ log'.labels = log.labels /\ log'.byhand = log.byhand
        /\ log'.refused = log.refused /\ log'.shown = log.shown
    <2>1. LogOK' BY <1>0, <1>1, ZenonT(60) DEF LogOK, Told
    <2>2. /\ log'.labels = log.labels /\ log'.byhand = log.byhand
          /\ log'.refused = log.refused /\ log'.shown = log.shown
      BY <1>0, <1>1 DEF LogOK
    <2> QED BY <2>1, <2>2
  <1>5. ConnOK' /\ conn'.hdbc = conn.hdbc /\ conn'.keep = conn.keep
    BY <1>0 DEF PgmBegin, ConnOK
  <1>6. WorkOK' BY <1>0 DEF PgmBegin, WorkOK
  <1>7. Working /\ Working' /\ Positions' /\ ErrorTold'
    BY <1>0, <1>1 DEF Working, Positions, ErrorTold, InCall
  <1>8. Statements'
    <2> SUFFICES ASSUME NEW x \in HandleNums, a.db2[x].kind = "stmt"
                 PROVE  x \in log.shown \/ Owned(x)'
      BY <1>1, <1>4 DEF Statements
    <2>1. HandleNums \subseteq Slots BY TableAssumption DEF HandleNums, Slots
    <2>2. CASE x = a.h BY <1>1, <1>3, <2>2 DEF Owned, InCall
    <2>3. CASE x # a.h
      <3>1. db2[x].kind = "stmt" BY <1>2, <2>1, <2>3 DEF SameKinds
      <3>2. ~Owned(x) BY <1>0 DEF Owned, InCall
      <3> QED BY <1>0, <3>1, <3>2 DEF Statements
    <2> QED BY <2>2, <2>3
  <1>9. \A x \in Slots : db2'[x].kind = "dbc" => db2[x].kind = "dbc" \/ x = conn'.hdbc
    <2> SUFFICES ASSUME NEW x \in Slots, a.db2[x].kind = "dbc" PROVE db2[x].kind = "dbc"
      BY <1>1
    <2>1. CASE x = a.h BY <1>2, <2>1, TableAssumption DEF Slots
    <2>2. CASE x # a.h BY <1>2, <2>2 DEF SameKinds
    <2> QED BY <2>1, <2>2
  <1>10. UNCHANGED <<given, reqs, nodes, pool>> BY DEF PgmBegin
  <1>11. db2' \in Handles BY <1>1, <1>2
  <1> QED BY <1>3, <1>4, <1>5, <1>6, <1>7, <1>8, <1>9, <1>10, <1>11, ChildStep

\* A child that returns: at the level of the connection again, or at its job log.
LEMMA ReturnFacts ==
  ASSUME NEW r, NEW i \in Nat, Return(r, i)
  PROVE  /\ pc' \in {"joblog", "conn"} /\ (pc' = "conn" => rc' # "error")
         /\ Working' /\ Positions' /\ ErrorTold'
         /\ \A h : ~Owned(h)'
  <1>1. pc' \in {"joblog", "conn"} /\ (pc' = "conn" => rc' # "error") /\ at' = i + 1
    BY DEF Return
  <1>2. at' \in Nat \ {0} BY <1>1
  <1> QED BY <1>1, <1>2 DEF Working, Positions, ErrorTold, InCall, Owned

LEMMA PgmEndKeeps ==
  ASSUME RInv, PgmEnd
  PROVE  RInv'
  <1>0. /\ pc = "pgmend" /\ db2 \in Handles /\ conn.last \in Nat
        /\ ConnOK /\ WorkOK /\ PgmOK /\ LogOK /\ Statements
    BY DEF RInv, Types, PgmEnd, Handles, ConnOK
  <1>1. /\ db2' = Db2FreeStmt(db2, pgm.stmt)
        /\ \E s : log' = [log EXCEPT !.stray = s]
        /\ Return(rc, conn.last)
        /\ UNCHANGED <<given, reqs, nodes, conn, pool, work, pgm>>
    BY DEF PgmEnd
  <1>2. /\ db2' \in Handles
        /\ \A x \in Slots : SameKinds(db2, db2', x)
        /\ \A x \in Slots : db2'[x].kind = "stmt" => x # pgm.stmt
    BY <1>0, <1>1, FreeStmtFacts
  <1>3. /\ LogOK' /\ log'.labels = log.labels /\ log'.byhand = log.byhand
        /\ log'.refused = log.refused /\ log'.shown = log.shown
    BY <1>0, <1>1 DEF LogOK
  <1>4. ConnOK' /\ WorkOK' /\ PgmOK' /\ conn'.hdbc = conn.hdbc /\ conn'.keep = conn.keep
    BY <1>0, <1>1 DEF ConnOK, WorkOK, PgmOK
  <1>5. Working' /\ Positions' /\ ErrorTold' BY <1>0, <1>1, ReturnFacts
  <1>6. Statements'
    <2> SUFFICES ASSUME NEW x \in HandleNums, db2'[x].kind = "stmt" PROVE x \in log.shown
      BY <1>3 DEF Statements
    <2>1. x \in Slots BY TableAssumption DEF HandleNums, Slots
    <2>2. db2[x].kind = "stmt" /\ x # pgm.stmt BY <1>2, <2>1 DEF SameKinds
    <2>3. ~Owned(x) BY <1>0, <2>2 DEF Owned
    <2> QED BY <1>0, <2>2, <2>3 DEF Statements
  <1>7. \A x \in Slots : db2'[x].kind = "dbc" => db2[x].kind = "dbc" \/ x = conn'.hdbc
    BY <1>2 DEF SameKinds
  <1>8. Working BY <1>0 DEF Working
  <1> QED BY <1>1, <1>2, <1>3, <1>4, <1>5, <1>6, <1>7, <1>8, ChildStep

LEMMA PgmKeeps ==
  ASSUME RInv, PgmNext
  PROVE  RInv'
  BY PgmBeginKeeps, WalkKeeps, PgmCallKeeps, PgmEndKeeps DEF PgmNext

-----------------------------------------------------------------------------
(* A command                                                                 *)

LEMMA CmdBeginKeeps ==
  ASSUME RInv, CmdBegin
  PROVE  RInv'
  <1> DEFINE output == HasAttr(N[at], "rexx") \/ HasAttr(N[at], "qsh")
  <1>0. /\ pc = "conn" /\ at \in Nat \ {0} /\ db2 \in Handles
        /\ ConnOK /\ PgmOK /\ LogOK /\ Statements
    BY DEF RInv, Types, Positions, CmdBegin, Child, InCall, Handles
  <1>o. PICK o \in (IF output /\ InMemory(conn.type) THEN Delayed
                    ELSE {Outcome(db2, conn.hdbc, "ok")}) :
          \E a \in (IF output THEN NewStmt(o.db2, o.h) ELSE {Outcome(o.db2, 0, "ok")}) :
            /\ db2' = a.db2
            /\ conn' = [conn EXCEPT !.hdbc = o.h, !.last = at]
            /\ work' = [NoWork EXCEPT !.node = at, !.rows = a.h, !.mem = InMemory(conn.type) /\ ~output]
            /\ log' = [log EXCEPT !.ran = @ \cup {at}, !.refused = @ \/ o.ans # "ok"]
    BY ZenonT(60) DEF CmdBegin
  <1>a. PICK a \in (IF output THEN NewStmt(o.db2, o.h) ELSE {Outcome(o.db2, 0, "ok")}) :
          /\ db2' = a.db2
          /\ conn' = [conn EXCEPT !.hdbc = o.h, !.last = at]
          /\ work' = [NoWork EXCEPT !.node = at, !.rows = a.h, !.mem = InMemory(conn.type) /\ ~output]
          /\ log' = [log EXCEPT !.ran = @ \cup {at}, !.refused = @ \/ o.ans # "ok"]
    BY <1>o
  <1>2. pc' = "cmd" /\ UNCHANGED <<given, reqs, nodes, at, pool, pgm>> BY DEF CmdBegin
  <1>3. /\ o.db2 \in Handles /\ o.h \in Slots
        /\ o.h = conn.hdbc \/ conn.hdbc = 0
        /\ \A x \in Slots : /\ o.db2[x].kind = "stmt" => db2[x].kind = "stmt"
                            /\ o.db2[x].kind = "dbc" => db2[x].kind = "dbc" \/ x = o.h
    <2>1. CASE output /\ InMemory(conn.type)
      BY <1>0, <1>o, <2>1, DelayedFacts, TableAssumption DEF ConnOK, SameKinds, Slots
    <2>2. CASE ~(output /\ InMemory(conn.type))
      BY <1>0, <1>o, <2>2 DEF Outcome, ConnOK
    <2> QED BY <2>1, <2>2
  <1>4. /\ a.db2 \in Handles
        /\ \A x \in Slots : /\ a.db2[x].kind = "stmt" => o.db2[x].kind = "stmt" \/ x = a.h
                            /\ a.db2[x].kind = "dbc" => o.db2[x].kind = "dbc"
    <2>1. CASE output
      BY <1>a, <1>3, <2>1, NewStmtFacts DEF SameKinds
    <2>2. CASE ~output
      BY <1>a, <1>3, <2>2 DEF Outcome
    <2> QED BY <2>1, <2>2
  <1> HIDE DEF output
  <1>5. WorkOK' /\ work'.rows = a.h BY <1>0, <1>a DEF WorkOK, NoWork
  <1>6. /\ LogOK' /\ log'.labels = log.labels /\ log'.byhand = log.byhand
        /\ (log.refused => log'.refused) /\ log'.shown = log.shown
    BY <1>0, <1>a DEF LogOK
  <1>7. ConnOK' /\ conn'.hdbc = o.h /\ conn'.keep = conn.keep
    BY <1>0, <1>a, <1>3 DEF ConnOK
  <1>8. PgmOK' BY <1>0, <1>2 DEF PgmOK
  <1>9. Working /\ Working' /\ Positions' /\ ErrorTold'
    BY <1>0, <1>2 DEF Working, Positions, ErrorTold, InCall
  <1>10. Statements'
    <2> SUFFICES ASSUME NEW x \in HandleNums, a.db2[x].kind = "stmt"
                 PROVE  x \in log.shown \/ Owned(x)'
      BY <1>a, <1>6 DEF Statements
    <2>1. HandleNums \subseteq Slots BY TableAssumption DEF HandleNums, Slots
    <2>2. CASE x = a.h BY <1>2, <1>5, <2>2 DEF Owned
    <2>3. CASE x # a.h
      <3>1. db2[x].kind = "stmt" BY <1>3, <1>4, <2>1, <2>3
      <3>2. ~Owned(x) BY <1>0 DEF Owned, InCall
      <3> QED BY <1>0, <3>1, <3>2 DEF Statements
    <2> QED BY <2>2, <2>3
  <1>11. \A x \in Slots : db2'[x].kind = "dbc" => db2[x].kind = "dbc" \/ x = conn'.hdbc
    BY <1>a, <1>3, <1>4, <1>7
  <1>12. db2' \in Handles BY <1>a, <1>4
  <1> QED BY <1>2, <1>3, <1>5, <1>6, <1>7, <1>8, <1>9, <1>10, <1>11, <1>12, ChildStep

LEMMA CmdRunKeeps ==
  ASSUME RInv, CmdRun
  PROVE  RInv'
  <1>0. /\ pc = "cmd" /\ at \in Nat \ {0} /\ db2 \in Handles
        /\ ConnOK /\ WorkOK /\ PgmOK /\ LogOK /\ Statements
    BY DEF RInv, Types, Positions, CmdRun, InCall, Handles
  <1>1. PICK a \in NewStmt(db2, conn.hdbc) :
          /\ db2' = a.db2
          /\ work' = [work EXCEPT !.stmt = a.h]
          /\ \/ log' = log
             \/ \E e : log' = [log EXCEPT !.told = @ \/ Told(a.db2, a.h, e),
                                          !.lost = @ \/ Lost(a.h, a.ans)]
    BY Zenon DEF CmdRun
  <1>2. pc' = "output" /\ UNCHANGED <<given, reqs, nodes, at, conn, pool, pgm>>
    BY DEF CmdRun
  <1>3. /\ a.db2 \in Handles
        /\ \A x \in Slots : x # a.h => SameKinds(db2, a.db2, x)
        /\ a.h # 0 => a.db2[a.h].kind = "stmt"
        /\ a.h = 0 => a.db2 = db2
    BY <1>0, NewStmtFacts DEF ConnOK
  <1>4. WorkOK' /\ work'.stmt = a.h /\ work'.rows = work.rows BY <1>0, <1>1 DEF WorkOK
  <1>5. /\ LogOK' /\ log'.labels = log.labels /\ log'.byhand = log.byhand
        /\ log'.refused = log.refused /\ log'.shown = log.shown
    BY <1>0, <1>1 DEF LogOK, Told
  <1>6. ConnOK' /\ PgmOK' /\ conn' = conn BY <1>0, <1>2 DEF ConnOK, PgmOK
  <1>7. Working /\ Working' /\ Positions' /\ ErrorTold'
    BY <1>0, <1>2 DEF Working, Positions, ErrorTold, InCall
  <1>8. Statements'
    <2> SUFFICES ASSUME NEW x \in HandleNums, a.db2[x].kind = "stmt"
                 PROVE  x \in log.shown \/ Owned(x)'
      BY <1>1, <1>5 DEF Statements
    <2>1. HandleNums \subseteq Slots BY TableAssumption DEF HandleNums, Slots
    <2>2. CASE x = a.h BY <1>2, <1>4, <2>2 DEF Owned
    <2>3. CASE x # a.h
      <3>1. db2[x].kind = "stmt" BY <1>3, <2>1, <2>3 DEF SameKinds
      <3>2. Owned(x) => Owned(x)' BY <1>0, <1>2, <1>4 DEF Owned, InCall
      <3> QED BY <1>0, <3>1, <3>2 DEF Statements
    <2> QED BY <2>2, <2>3
  <1>9. \A x \in Slots : db2'[x].kind = "dbc" => db2[x].kind = "dbc" \/ x = conn'.hdbc
    <2> SUFFICES ASSUME NEW x \in Slots, a.db2[x].kind = "dbc" PROVE db2[x].kind = "dbc"
      BY <1>1
    <2>1. CASE x = a.h BY <1>3, <2>1, TableAssumption DEF Slots
    <2>2. CASE x # a.h BY <1>3, <2>2 DEF SameKinds
    <2> QED BY <2>1, <2>2
  <1>10. db2' \in Handles BY <1>1, <1>3
  <1> QED BY <1>2, <1>4, <1>5, <1>6, <1>7, <1>8, <1>9, <1>10, ChildStep

LEMMA CmdOutputKeeps ==
  ASSUME RInv, CmdOutput
  PROVE  RInv'
  <1>0. pc = "output" /\ at \in Nat \ {0} /\ ConnOK /\ WorkOK /\ PgmOK /\ LogOK
    BY DEF RInv, Types, Positions, CmdOutput, InCall
  <1>1. pc' = "cmdend" /\ UNCHANGED <<given, reqs, nodes, at, conn, pool, db2, work, pgm>>
    BY DEF CmdOutput
  <1>2. \/ log' = log
        \/ \E known \in BOOLEAN : log' = [log EXCEPT !.told = @ \/ known]
    BY Zenon DEF CmdOutput
  <1>3. /\ LogOK' /\ log'.labels = log.labels /\ log'.byhand = log.byhand
        /\ log'.refused = log.refused /\ log'.shown = log.shown
    BY <1>0, <1>2 DEF LogOK
  <1>4. ConnOK' /\ WorkOK' /\ PgmOK' BY <1>0, <1>1 DEF ConnOK, WorkOK, PgmOK
  <1>5. Working /\ Working' /\ Positions' /\ ErrorTold'
    BY <1>0, <1>1 DEF Working, Positions, ErrorTold, InCall
  <1>6. \A h \in HandleNums : Owned(h) => Owned(h)'
    BY <1>0, <1>1 DEF Owned, InCall
  <1> QED BY <1>1, <1>3, <1>4, <1>5, <1>6, QuietStep

LEMMA CmdEndKeeps ==
  ASSUME RInv, CmdEnd
  PROVE  RInv'
  <1> DEFINE d == IF work.stmt # 0 THEN Db2FreeStmt(db2, work.stmt) ELSE db2
             e == IF work.rows # 0 THEN Db2FreeStmt(d, work.rows) ELSE d
  <1>0. /\ pc = "cmdend" /\ db2 \in Handles /\ work.node \in Nat
        /\ ConnOK /\ WorkOK /\ PgmOK /\ LogOK /\ Statements
    BY DEF RInv, Types, CmdEnd, Handles, WorkOK
  <1>1. /\ db2' = e /\ Return(rc, work.node)
        /\ UNCHANGED <<given, reqs, nodes, conn, pool, work, pgm, log>>
    BY DEF CmdEnd
  <1>2. /\ d \in Handles
        /\ \A x \in Slots : SameKinds(db2, d, x)
        /\ \A x \in HandleNums : d[x].kind = "stmt" => x # work.stmt
    BY <1>0, FreeStmtFacts, TableAssumption DEF SameKinds, HandleNums, Slots
  <1> HIDE DEF d
  <1>3. /\ e \in Handles
        /\ \A x \in Slots : SameKinds(d, e, x)
        /\ \A x \in HandleNums : e[x].kind = "stmt" => x # work.rows
    BY <1>2, FreeStmtFacts, TableAssumption DEF SameKinds, HandleNums, Slots
  <1> HIDE DEF e
  <1>4. LogOK' /\ ConnOK' /\ WorkOK' /\ PgmOK' BY <1>0, <1>1 DEF LogOK, ConnOK, WorkOK, PgmOK
  <1>5. Working' /\ Positions' /\ ErrorTold' BY <1>0, <1>1, ReturnFacts
  <1>6. Statements'
    <2> SUFFICES ASSUME NEW x \in HandleNums, e[x].kind = "stmt" PROVE x \in log.shown
      BY <1>1 DEF Statements
    <2>1. x \in Slots BY TableAssumption DEF HandleNums, Slots
    <2>2. db2[x].kind = "stmt" /\ x \notin {work.stmt, work.rows}
      BY <1>2, <1>3, <2>1 DEF SameKinds
    <2>3. ~Owned(x) BY <1>0, <2>2 DEF Owned, InCall
    <2> QED BY <1>0, <2>2, <2>3 DEF Statements
  <1>7. \A x \in Slots : db2'[x].kind = "dbc" => db2[x].kind = "dbc" \/ x = conn'.hdbc
    BY <1>1, <1>2, <1>3 DEF SameKinds
  <1>8. Working BY <1>0 DEF Working
  <1> QED BY <1>1, <1>3, <1>4, <1>5, <1>6, <1>7, <1>8, ChildStep

LEMMA CmdKeeps ==
  ASSUME RInv, CmdNext
  PROVE  RInv'
  BY CmdBeginKeeps, CmdRunKeeps, CmdOutputKeeps, CmdEndKeeps DEF CmdNext

-----------------------------------------------------------------------------
(* A query                                                                   *)

LEMMA QueryBeginKeeps ==
  ASSUME RInv, QueryBegin
  PROVE  RInv'
  <1> DEFINE given_h == NumberOr0(N[at], "handle")
             meta    == AttrOr(N[at], "stmt", "") \in MetaQueries
  <1>0. /\ pc = "conn" /\ at \in Nat \ {0} /\ db2 \in Handles
        /\ ConnOK /\ WorkOK /\ PgmOK /\ LogOK /\ Statements
    BY DEF RInv, Types, Positions, QueryBegin, Child, InCall, Handles
  <1>o. PICK o \in Delayed :
          \E a \in (IF given_h # 0 THEN {Outcome(o.db2, given_h, o.ans)} ELSE NewStmt(o.db2, o.h)) :
            /\ conn' = [conn EXCEPT !.hdbc = o.h, !.last = at]
            /\ \/ /\ db2' = o.db2
                  /\ log' = [log EXCEPT !.ran = @ \cup {at}, !.refused = @ \/ o.ans # "ok"]
                  /\ \E r : Return(r, at)
                  /\ work' = work
               \/ /\ db2' = a.db2
                  /\ work' = [NoWork EXCEPT !.node = at, !.stmt = a.h, !.close = ~conn.keep,
                                            !.meta = meta]
                  /\ pc' \in {"fetch", "parms", "prepare"}
                  /\ log' = [log EXCEPT !.ran = @ \cup {at}, !.shown = @ \cup ({a.h} \ {0}),
                                        !.lost = @ \/ Lost(a.h, a.ans), !.refused = @ \/ o.ans # "ok"]
                  /\ at' = at + 1
    <2> DEFINE text == AttrOr(N[at], "stmt", "")
               step == CASE text = "" -> "fetch"
                         [] text \in MetaQueries ->
                              IF Is(at + 1, "beg", "parm") THEN "parms" ELSE "fetch"
                         [] OTHER -> "prepare"
    <2>1. step \in {"fetch", "parms", "prepare"} BY Zenon
    <2> HIDE DEF step
    <2> DEFINE A(o)    == IF given_h # 0 THEN {Outcome(o.db2, given_h, o.ans)} ELSE NewStmt(o.db2, o.h)
               None(o) == /\ db2' = o.db2
                          /\ conn' = [conn EXCEPT !.hdbc = o.h, !.last = at]
                          /\ log' = [log EXCEPT !.ran = @ \cup {at}, !.refused = @ \/ o.ans # "ok"]
                          /\ Return(o.ans, at)
                          /\ UNCHANGED <<out, work>>
               Job(o)  == /\ db2' = o.db2
                          /\ conn' = [conn EXCEPT !.hdbc = o.h, !.last = at]
                          /\ out' = out \o Beg \o Item \o End
                          /\ log' = [log EXCEPT !.ran = @ \cup {at}, !.refused = @ \/ o.ans # "ok"]
                          /\ Return("error", at)
                          /\ UNCHANGED work
               Begun(o, a) ==
                 /\ db2' = a.db2
                 /\ conn' = [conn EXCEPT !.hdbc = o.h, !.last = at]
                 /\ work' = [NoWork EXCEPT !.node = at, !.stmt = a.h, !.close = ~conn.keep,
                                           !.meta = text \in MetaQueries]
                 /\ rc' = a.ans
                 /\ out' = out \o Beg
                 /\ pc' = step
                 /\ log' = [log EXCEPT !.ran = @ \cup {at}, !.shown = @ \cup ({a.h} \ {0}),
                                       !.lost = @ \/ Lost(a.h, a.ans), !.refused = @ \/ o.ans # "ok"]
                 /\ at' = at + 1
    <2>2. \E o \in Delayed : \E a \in A(o) :
            \/ text = "" /\ given_h = 0 /\ None(o)
            \/ text = "joblog" /\ Job(o)
            \/ text # "joblog" /\ (text # "" \/ given_h # 0) /\ Begun(o, a)
      BY Zenon DEF QueryBegin, step
    <2> HIDE DEF text, None, Job, Begun, A
    <2>3. PICK o \in Delayed : \E a \in A(o) : None(o) \/ Job(o) \/ Begun(o, a) BY Zenon, <2>2
    <2>4. ASSUME NEW a \in A(o), None(o) \/ Job(o) \/ Begun(o, a)
          PROVE  /\ conn' = [conn EXCEPT !.hdbc = o.h, !.last = at]
                 /\ \/ /\ db2' = o.db2
                       /\ log' = [log EXCEPT !.ran = @ \cup {at}, !.refused = @ \/ o.ans # "ok"]
                       /\ \E r : Return(r, at)
                       /\ work' = work
                    \/ /\ db2' = a.db2
                       /\ work' = [NoWork EXCEPT !.node = at, !.stmt = a.h, !.close = ~conn.keep,
                                                 !.meta = meta]
                       /\ pc' \in {"fetch", "parms", "prepare"}
                       /\ log' = [log EXCEPT !.ran = @ \cup {at}, !.shown = @ \cup ({a.h} \ {0}),
                                             !.lost = @ \/ Lost(a.h, a.ans),
                                             !.refused = @ \/ o.ans # "ok"]
                       /\ at' = at + 1
      <3>1. CASE None(o) BY Zenon, <3>1 DEF None
      <3>2. CASE Job(o) BY Zenon, <3>2 DEF Job
      <3>3. CASE Begun(o, a) BY Zenon, <2>1, <3>3 DEF Begun, text
      <3> QED BY <2>4, <3>1, <3>2, <3>3
    <2> QED BY Zenon, <2>3, <2>4 DEF A
  <1> HIDE DEF given_h, meta
  <1>a. PICK a \in (IF given_h # 0 THEN {Outcome(o.db2, given_h, o.ans)} ELSE NewStmt(o.db2, o.h)) :
          /\ conn' = [conn EXCEPT !.hdbc = o.h, !.last = at]
          /\ \/ /\ db2' = o.db2
                /\ log' = [log EXCEPT !.ran = @ \cup {at}, !.refused = @ \/ o.ans # "ok"]
                /\ \E r : Return(r, at)
                /\ work' = work
             \/ /\ db2' = a.db2
                /\ work' = [NoWork EXCEPT !.node = at, !.stmt = a.h, !.close = ~conn.keep,
                                          !.meta = meta]
                /\ pc' \in {"fetch", "parms", "prepare"}
                /\ log' = [log EXCEPT !.ran = @ \cup {at}, !.shown = @ \cup ({a.h} \ {0}),
                                      !.lost = @ \/ Lost(a.h, a.ans), !.refused = @ \/ o.ans # "ok"]
                /\ at' = at + 1
    BY <1>o
  <1>1. UNCHANGED <<given, reqs, nodes, pool, pgm>> BY ZenonT(60) DEF QueryBegin
  <1>2. /\ o.db2 \in Handles /\ o.h \in Slots
        /\ o.h = conn.hdbc \/ conn.hdbc = 0
        /\ \A x \in HandleNums : /\ o.db2[x].kind = "stmt" => db2[x].kind = "stmt"
                                 /\ o.db2[x].kind = "dbc" => db2[x].kind = "dbc" \/ x = o.h
        /\ \A x \in Slots : o.db2[x].kind = "dbc" => db2[x].kind = "dbc" \/ x = o.h
    BY <1>0, DelayedFacts, TableAssumption DEF ConnOK, SameKinds, Slots, HandleNums
  <1>3. /\ a.db2 \in Handles
        /\ \A x \in Slots : /\ a.db2[x].kind = "stmt" => o.db2[x].kind = "stmt" \/ x = a.h
                            /\ a.db2[x].kind = "dbc" => o.db2[x].kind = "dbc"
    <2>1. CASE given_h # 0
      <3>1. a.db2 = o.db2 BY <2>1 DEF Outcome
      <3> QED BY <1>2, <3>1
    <2>2. CASE given_h = 0
      <3>1. a \in NewStmt(o.db2, o.h) BY <2>2
      <3>2. /\ a.db2 \in Handles
            /\ \A x \in Slots : x # a.h => SameKinds(o.db2, a.db2, x)
            /\ a.h # 0 => a.db2[a.h].kind = "stmt"
            /\ a.h = 0 => a.db2 = o.db2
        BY <1>2, <3>1, NewStmtFacts
      <3> QED BY <3>2 DEF SameKinds
    <2> QED BY <2>1, <2>2
  <1>4. ConnOK' /\ conn'.hdbc = o.h /\ conn'.keep = conn.keep BY <1>0, <1>a, <1>2 DEF ConnOK
  <1>5. PgmOK' BY <1>0, <1>1 DEF PgmOK
  <1>6. HandleNums \subseteq Slots /\ 0 \notin HandleNums
    BY TableAssumption DEF HandleNums, Slots
  <1>7. \A x \in HandleNums : ~Owned(x) BY <1>0 DEF Owned, InCall
  <1>8. CASE /\ db2' = o.db2
             /\ log' = [log EXCEPT !.ran = @ \cup {at}, !.refused = @ \/ o.ans # "ok"]
             /\ \E r : Return(r, at)
             /\ work' = work
    <2>1. /\ LogOK' /\ log'.labels = log.labels /\ log'.byhand = log.byhand
          /\ (log.refused => log'.refused) /\ log'.shown = log.shown
      BY <1>0, <1>8 DEF LogOK
    <2>2. WorkOK' BY <1>0, <1>8 DEF WorkOK
    <2>3. Working' /\ Positions' /\ ErrorTold' BY <1>0, <1>8, ReturnFacts
    <2>4. Statements' BY <1>0, <1>2, <1>7, <1>8, <2>1 DEF Statements
    <2>5. Working BY <1>0 DEF Working
    <2>6. \A x \in Slots : db2'[x].kind = "dbc" => db2[x].kind = "dbc" \/ x = conn'.hdbc
      BY <1>2, <1>4, <1>8
    <2>7. db2' \in Handles BY <1>2, <1>8
    <2> QED BY <1>1, <1>2, <1>4, <1>5, <2>1, <2>2, <2>3, <2>4, <2>5, <2>6, <2>7, ChildStep
  <1>9. CASE /\ db2' = a.db2
             /\ work' = [NoWork EXCEPT !.node = at, !.stmt = a.h, !.close = ~conn.keep, !.meta = meta]
             /\ pc' \in {"fetch", "parms", "prepare"}
             /\ log' = [log EXCEPT !.ran = @ \cup {at}, !.shown = @ \cup ({a.h} \ {0}),
                                   !.lost = @ \/ Lost(a.h, a.ans), !.refused = @ \/ o.ans # "ok"]
             /\ at' = at + 1
    <2>1. /\ LogOK' /\ log'.labels = log.labels /\ log'.byhand = log.byhand
          /\ (log.refused => log'.refused) /\ log'.shown = log.shown \cup ({a.h} \ {0})
      BY <1>0, <1>9 DEF LogOK
    <2>2. WorkOK' BY <1>0, <1>9 DEF WorkOK, NoWork, ConnOK
    <2>3. Working /\ Working' /\ Positions' /\ ErrorTold'
      BY <1>0, <1>9 DEF Working, Positions, ErrorTold, InCall
    <2>4. Statements' BY <1>0, <1>2, <1>3, <1>6, <1>7, <1>9, <2>1 DEF Statements
    <2>6. \A x \in Slots : db2'[x].kind = "dbc" => db2[x].kind = "dbc" \/ x = conn'.hdbc
      BY <1>2, <1>3, <1>4, <1>9
    <2>7. db2' \in Handles BY <1>3, <1>9
    <2> QED BY <1>1, <1>2, <1>4, <1>5, <2>1, <2>2, <2>3, <2>4, <2>6, <2>7, ChildStep
  <1> QED BY <1>a, <1>8, <1>9

LEMMA QueryPrepareKeeps ==
  ASSUME RInv, QueryPrepare
  PROVE  RInv'
  <1>0. pc = "prepare" /\ at \in Nat \ {0} /\ ConnOK /\ WorkOK /\ PgmOK /\ LogOK
    BY DEF RInv, Types, Positions, QueryPrepare, InCall
  <1>1. /\ pc' \in {"parms", "execute"}
        /\ UNCHANGED <<given, reqs, nodes, at, conn, pool, db2, work, pgm>>
    BY Zenon DEF QueryPrepare
  <1>2. \E p, n : log' = [log EXCEPT !.told = @ \/ Told(db2, work.stmt, p) \/ Told(db2, work.stmt, n)]
    BY Zenon DEF QueryPrepare
  <1>3. /\ LogOK' /\ log'.labels = log.labels /\ log'.byhand = log.byhand
        /\ log'.refused = log.refused /\ log'.shown = log.shown
    BY <1>0, <1>2 DEF LogOK, Told
  <1>4. ConnOK' /\ WorkOK' /\ PgmOK' BY <1>0, <1>1 DEF ConnOK, WorkOK, PgmOK
  <1>5. Working /\ Working' /\ Positions' /\ ErrorTold'
    BY <1>0, <1>1 DEF Working, Positions, ErrorTold, InCall
  <1>6. \A h \in HandleNums : ~Owned(h) BY <1>0 DEF Owned, InCall
  <1> QED BY <1>1, <1>3, <1>4, <1>5, <1>6, QuietStep

LEMMA QueryParmKeeps ==
  ASSUME RInv, QueryParm
  PROVE  RInv'
  <1>0. pc = "parms" /\ at \in Nat \ {0} /\ ConnOK /\ WorkOK /\ PgmOK /\ LogOK
    BY DEF RInv, Types, Positions, QueryParm, InCall
  <1>1. /\ pc' \in {"parms", "execute"} /\ at' = at + 1
        /\ UNCHANGED <<given, reqs, nodes, conn, pool, db2, pgm, log>>
    BY DEF QueryParm
  <1>2. PICK node \in {at, work.node}, next \in {at + 1, work.next} :
          work' = [work EXCEPT !.max = Deepest, !.node = node, !.next = next]
    BY DEF QueryParm
  <1>3. WorkOK'
    <2>1. node \in Nat /\ next \in Nat BY <1>0 DEF WorkOK
    <2> QED BY <1>0, <1>2, <2>1 DEF WorkOK
  <1>4. ConnOK' /\ PgmOK' /\ LogOK' BY <1>0, <1>1 DEF ConnOK, PgmOK, LogOK
  <1>5. Working /\ Working' /\ Positions' /\ ErrorTold'
    BY <1>0, <1>1 DEF Working, Positions, ErrorTold, InCall
  <1>6. \A h \in HandleNums : ~Owned(h) BY <1>0 DEF Owned, InCall
  <1> QED BY <1>1, <1>3, <1>4, <1>5, <1>6, QuietStep

LEMMA QueryParmsStopKeeps ==
  ASSUME RInv, QueryParmsStop
  PROVE  RInv'
  <1>0. /\ pc = "parms" /\ at \in Nat \ {0} /\ work.node \in Nat
        /\ ConnOK /\ WorkOK /\ PgmOK /\ LogOK
    BY DEF RInv, Types, Positions, QueryParmsStop, InCall, WorkOK
  <1>1. UNCHANGED <<given, reqs, nodes, conn, pool, db2, work, pgm, log>>
    BY DEF QueryParmsStop
  <1>2. ConnOK' /\ WorkOK' /\ PgmOK' /\ LogOK' BY <1>0, <1>1 DEF ConnOK, WorkOK, PgmOK, LogOK
  <1>3. Working' /\ Positions' /\ ErrorTold'
    <2>1. CASE Return(rc, work.node) BY <1>0, <2>1, ReturnFacts
    <2>2. CASE pc' = "execute" /\ at' = at
      BY <1>0, <2>2 DEF Working, Positions, ErrorTold, InCall
    <2> QED BY <2>1, <2>2 DEF QueryParmsStop
  <1>4. Working /\ \A h \in HandleNums : ~Owned(h) BY <1>0 DEF Working, Owned, InCall
  <1> QED BY <1>1, <1>2, <1>3, <1>4, QuietStep

LEMMA QueryExecuteKeeps ==
  ASSUME RInv, QueryExecute
  PROVE  RInv'
  <1>0. /\ pc = "execute" /\ at \in Nat \ {0} /\ work.node \in Nat /\ work.next \in Nat
        /\ ConnOK /\ WorkOK /\ PgmOK /\ LogOK
    BY DEF RInv, Types, Positions, QueryExecute, InCall, WorkOK
  <1>1. UNCHANGED <<given, reqs, nodes, conn, pool, db2, work, pgm>>
    BY DEF QueryExecute
  <1>2. \E e : log' = [log EXCEPT !.told = @ \/ Told(db2, work.stmt, e)]
    BY Zenon DEF QueryExecute
  <1>3. /\ LogOK' /\ log'.labels = log.labels /\ log'.byhand = log.byhand
        /\ log'.refused = log.refused /\ log'.shown = log.shown
    BY <1>0, <1>2 DEF LogOK, Told
  <1>4. ConnOK' /\ WorkOK' /\ PgmOK' BY <1>0, <1>1 DEF ConnOK, WorkOK, PgmOK
  <1>5. Working' /\ Positions' /\ ErrorTold'
    <2>1. CASE Return("error", work.node) BY <1>0, <2>1, ReturnFacts
    <2>2. CASE /\ pc' = "fetch"
               /\ at' = IF work.next # 0 THEN work.next
                        ELSE IF work.max # 0 \/ (work.meta /\ Is(at, "beg", "parm")) THEN at + 1
                        ELSE at
      BY <1>0, <2>2 DEF Working, Positions, ErrorTold, InCall
    <2> QED BY <2>1, <2>2 DEF QueryExecute
  <1>6. Working /\ \A h \in HandleNums : ~Owned(h) BY <1>0 DEF Working, Owned, InCall
  <1> QED BY <1>1, <1>3, <1>4, <1>5, <1>6, QuietStep

\* The statement that stops being shown is one the query will free.
LEMMA FetchKeeps ==
  ASSUME RInv, Fetch
  PROVE  RInv'
  <1>0. /\ pc = "fetch" /\ at \in Nat \ {0} /\ db2 \in Handles
        /\ ConnOK /\ WorkOK /\ PgmOK /\ LogOK /\ Statements
    BY DEF RInv, Types, Positions, Fetch, InFetches, InCall, Handles
  <1>1. pc' = pc /\ at' = at + 1 /\ UNCHANGED <<given, reqs, nodes, conn, pool, db2, pgm>>
    BY DEF Fetch
  <1>2. /\ WorkOK' /\ work'.stmt = work.stmt /\ (work.close => work'.close)
        /\ LogOK' /\ log'.labels = log.labels /\ log'.byhand = log.byhand
        /\ log'.refused = log.refused
        /\ \A x \in log.shown : x \in log'.shown \/ (x = work.stmt /\ work'.close)
    <2>1. ASSUME NEW c,
                 log' = [log EXCEPT !.ran = @ \cup {at}, !.told = @ \/ Told(db2, work.stmt, c)],
                 work' = [work EXCEPT !.max = Deepest, !.node = at, !.rows = 1, !.next = 0]
          PROVE  /\ WorkOK' /\ work'.stmt = work.stmt /\ (work.close => work'.close)
                 /\ LogOK' /\ log'.labels = log.labels /\ log'.byhand = log.byhand
                 /\ log'.refused = log.refused
                 /\ \A x \in log.shown : x \in log'.shown \/ (x = work.stmt /\ work'.close)
      <3>1. WorkOK' /\ work'.stmt = work.stmt /\ (work.close => work'.close)
        BY <1>0, <2>1 DEF WorkOK
      <3>2. /\ LogOK' /\ log'.labels = log.labels /\ log'.byhand = log.byhand
            /\ log'.refused = log.refused /\ log'.shown = log.shown
        BY <1>0, <2>1 DEF LogOK, Told
      <3> QED BY <3>1, <3>2
    <2>2. ASSUME NEW f,
                 work' = [work EXCEPT !.max = Deepest, !.node = at, !.rows = 1, !.next = 0,
                                      !.close = @ \/ Ended(f)],
                 log' = [log EXCEPT !.ran = @ \cup {at},
                                    !.shown = IF f.by \in {"nodata", "error"} THEN @ \ {work.stmt} ELSE @]
          PROVE  /\ WorkOK' /\ work'.stmt = work.stmt /\ (work.close => work'.close)
                 /\ LogOK' /\ log'.labels = log.labels /\ log'.byhand = log.byhand
                 /\ log'.refused = log.refused
                 /\ \A x \in log.shown : x \in log'.shown \/ (x = work.stmt /\ work'.close)
      BY <1>0, <2>2 DEF WorkOK, LogOK, Ended
    <2>3. \/ \E c : /\ log' = [log EXCEPT !.ran = @ \cup {at}, !.told = @ \/ Told(db2, work.stmt, c)]
                    /\ work' = [work EXCEPT !.max = Deepest, !.node = at, !.rows = 1, !.next = 0]
          \/ \E f : /\ work' = [work EXCEPT !.max = Deepest, !.node = at, !.rows = 1, !.next = 0,
                                            !.close = @ \/ Ended(f)]
                    /\ log' = [log EXCEPT !.ran = @ \cup {at},
                                          !.shown = IF f.by \in {"nodata", "error"}
                                                    THEN @ \ {work.stmt} ELSE @]
      BY Zenon DEF Fetch
    <2> QED BY <2>1, <2>2, <2>3
  <1>3. ConnOK' /\ PgmOK' BY <1>0, <1>1 DEF ConnOK, PgmOK
  <1>4. Working /\ Working' /\ Positions' /\ ErrorTold'
    BY <1>0, <1>1 DEF Working, Positions, ErrorTold, InCall
  <1>5. Statements'
    <2> SUFFICES ASSUME NEW x \in HandleNums, db2[x].kind = "stmt" PROVE x \in log'.shown \/ Owned(x)'
      BY <1>1 DEF Statements
    <2>1. CASE x \in log.shown BY <1>0, <1>1, <1>2, <2>1 DEF Owned
    <2>2. CASE Owned(x) BY <1>0, <1>1, <1>2, <2>2 DEF Owned, InCall
    <2> QED BY <1>0, <2>1, <2>2 DEF Statements
  <1>6. db2' \in Handles BY <1>0, <1>1
  <1> QED BY <1>1, <1>2, <1>3, <1>4, <1>5, <1>6, ChildStep

LEMMA FetchPassKeeps ==
  ASSUME RInv, FetchPass
  PROVE  RInv'
  <1>0. pc = "fetch" /\ at \in Nat \ {0} /\ ConnOK /\ WorkOK /\ PgmOK /\ LogOK
    BY DEF RInv, Types, Positions, FetchPass, InFetches, InCall
  <1>1. /\ pc' \in {"fetch", "queried"} /\ at' = at + 1
        /\ UNCHANGED <<given, reqs, nodes, conn, pool, db2, pgm>>
    BY DEF FetchPass
  <1>2. /\ \E node \in {at, work.node} :
             work' = [work EXCEPT !.max = Deepest, !.rows = 1, !.node = node]
        /\ \/ log' = log
           \/ log' = [log EXCEPT !.ran = @ \cup {at}]
    BY DEF FetchPass
  <1>3. WorkOK' /\ work'.stmt = work.stmt /\ work'.close = work.close
    BY <1>0, <1>2, ZenonT(60) DEF WorkOK
  <1>4. /\ LogOK' /\ log'.labels = log.labels /\ log'.byhand = log.byhand
        /\ log'.refused = log.refused /\ log'.shown = log.shown
    BY <1>0, <1>2 DEF LogOK
  <1>5. ConnOK' /\ PgmOK' BY <1>0, <1>1 DEF ConnOK, PgmOK
  <1>6. Working /\ Working' /\ Positions' /\ ErrorTold'
    BY <1>0, <1>1 DEF Working, Positions, ErrorTold, InCall
  <1>7. \A h \in HandleNums : Owned(h) => Owned(h)'
    BY <1>0, <1>1, <1>3 DEF Owned, InCall
  <1> QED BY <1>1, <1>3, <1>4, <1>5, <1>6, <1>7, QuietStep

LEMMA QueryEndKeeps ==
  ASSUME RInv, QueryEnd
  PROVE  RInv'
  <1>0. /\ pc \in {"fetch", "queried"} /\ db2 \in Handles /\ work.node \in Nat
        /\ ConnOK /\ WorkOK /\ PgmOK /\ LogOK /\ Statements
    BY DEF RInv, Types, QueryEnd, Handles, WorkOK
  <1>1. /\ db2' = IF work.stmt # 0 /\ work.close THEN Db2FreeStmt(db2, work.stmt) ELSE db2
        /\ log' = [log EXCEPT !.shown = {h \in @ : Db2Alive(db2', h)}]
        /\ Return(rc, work.node)
        /\ UNCHANGED <<given, reqs, nodes, conn, pool, work, pgm>>
    BY DEF QueryEnd
  <1>2. /\ db2' \in Handles
        /\ \A x \in Slots : SameKinds(db2, db2', x)
        /\ \A x \in HandleNums : db2'[x].kind = "stmt" => ~(x = work.stmt /\ work.close)
    <2>1. CASE work.stmt # 0 /\ work.close
      <3>1. db2' = Db2FreeStmt(db2, work.stmt) BY <1>1, <2>1
      <3>2. /\ db2' \in Handles
            /\ \A x \in Slots : SameKinds(db2, db2', x)
            /\ \A x \in Slots : db2'[x].kind = "stmt" => x # work.stmt
        BY <1>0, <3>1, FreeStmtFacts
      <3>3. HandleNums \subseteq Slots BY TableAssumption DEF HandleNums, Slots
      <3> QED BY <3>2, <3>3
    <2>2. CASE ~(work.stmt # 0 /\ work.close)
      BY <1>0, <1>1, <2>2, TableAssumption DEF SameKinds, HandleNums, Slots
    <2> QED BY <2>1, <2>2
  <1>3. /\ LogOK' /\ log'.labels = log.labels /\ log'.byhand = log.byhand
        /\ log'.refused = log.refused /\ log'.shown = {h \in log.shown : Db2Alive(db2', h)}
    BY <1>0, <1>1 DEF LogOK
  <1>4. ConnOK' /\ WorkOK' /\ PgmOK' BY <1>0, <1>1 DEF ConnOK, WorkOK, PgmOK
  <1>5. Working' /\ Positions' /\ ErrorTold' BY <1>0, <1>1, ReturnFacts
  <1>6. Statements'
    <2> SUFFICES ASSUME NEW x \in HandleNums, db2'[x].kind = "stmt" PROVE x \in log'.shown
      BY DEF Statements
    <2>1. x \in Slots BY TableAssumption DEF HandleNums, Slots
    <2>2. db2[x].kind = "stmt" /\ ~(x = work.stmt /\ work.close) BY <1>2, <2>1 DEF SameKinds
    <2>3. ~Owned(x) BY <1>0, <2>2 DEF Owned, InCall
    <2>4. x \in log.shown BY <1>0, <2>2, <2>3 DEF Statements
    <2> QED BY <1>3, <2>4 DEF Db2Alive
  <1>7. \A x \in Slots : db2'[x].kind = "dbc" => db2[x].kind = "dbc" \/ x = conn'.hdbc
    BY <1>2 DEF SameKinds
  <1>8. Working BY <1>0 DEF Working
  <1> QED BY <1>1, <1>2, <1>3, <1>4, <1>5, <1>6, <1>7, <1>8, ChildStep

LEMMA QueryKeeps ==
  ASSUME RInv, QueryNext
  PROVE  RInv'
  BY QueryBeginKeeps, QueryPrepareKeeps, QueryParmKeeps, QueryParmsStopKeeps, QueryExecuteKeeps,
     FetchKeeps, FetchPassKeeps, QueryEndKeeps DEF QueryNext

-----------------------------------------------------------------------------
(* Connections                                                               *)

\* The node the run is at is one of the list.
LEMMA AtNode ==
  ASSUME IsList(nodes), at \in Nat \ {0}, NEW key, NEW elem, Is(at, key, elem)
  PROVE  at \in DOMAIN nodes /\ nodes[at].key = key /\ nodes[at].elem = elem
  BY ListFacts DEF Is, N

\* The connection of an element is the client's, the one kept for "*mem", one that its
\* end will close, or one that ConnectionsReturned leaves out.
LEMMA BegunConnections ==
  ASSUME RInv, ConnBegin
  PROVE  Connections'
  <1> DEFINE type == ConnType(N[at])
             ways == IF given # 0 THEN {Outcome(db2, given, "ok")}
                     ELSE IF type = "memory" THEN {Outcome(db2, 0, "ok")}
                     ELSE IF type = "pool" /\ pool # 0 THEN {Outcome(db2, pool, "ok")}
                     ELSE Opened
  <1>0. /\ pc = "script" /\ at \in Nat \ {0} /\ Is(at, "beg", "connect") /\ db2 \in Handles
        /\ IsList(nodes) /\ ConnOK /\ LogOK /\ Labels /\ Connections /\ pool \in Slots /\ given \in Slots
    BY TableAssumption DEF RInv, Types, Positions, ConnBegin, InCall, Handles, Slots
  <1>1. PICK o \in ways :
          /\ db2' = o.db2
          /\ conn' = [hdbc |-> o.h, type |-> type, keep |-> given # 0 \/ type # "set",
                      last |-> at, max |-> DeepestIn(at)]
          /\ pool' = IF type = "pool" /\ o.h # 0 /\ o.db2[o.h].connected THEN o.h ELSE pool
          /\ log' = [log EXCEPT !.told = @ \/ Told(o.db2, o.h, o.ans),
                                !.lost = @ \/ Lost(o.h, o.ans),
                                !.refused = @ \/ o.ans # "ok"]
    BY ZenonT(60) DEF ConnBegin
  <1>2. pc' = "conn" /\ UNCHANGED <<given, nodes>> BY ZenonT(60) DEF ConnBegin
  <1>3. conn'.hdbc = o.h /\ conn'.keep = (given # 0 \/ type # "set") BY <1>1
  <1>4. /\ log'.labels = log.labels /\ log'.byhand = log.byhand
        /\ log'.refused = (log.refused \/ o.ans # "ok")
    BY <1>0, <1>1 DEF LogOK
  <1>5. type \in {"set", "pool", "memory"} BY DEF ConnType
  <1>6. type = "memory" => log.labels \ {"*mem"} # {}
    <2> SUFFICES ASSUME type = "memory" PROVE log.labels \ {"*mem"} # {} OBVIOUS
    <2>1. HasAttr(N[at], "qual") /\ Attr(N[at], "qual") # "*mem" BY DEF ConnType
    <2>2. at \in DOMAIN nodes /\ nodes[at].elem = "connect" BY <1>0, AtNode
    <2>3. Attr(nodes[at], "qual") \in LabelsOf(nodes) BY <2>1, <2>2 DEF LabelsOf, N
    <2> QED BY <1>0, <2>1, <2>3 DEF Labels, N
  <1>7. type = "pool" => log.labels # {}
    <2> SUFFICES ASSUME type = "pool" PROVE log.labels # {} OBVIOUS
    <2>1. HasAttr(N[at], "qual") BY DEF ConnType
    <2>2. at \in DOMAIN nodes /\ nodes[at].elem = "connect" BY <1>0, AtNode
    <2>3. Attr(nodes[at], "qual") \in LabelsOf(nodes) BY <2>1, <2>2 DEF LabelsOf, N
    <2> QED BY <1>0, <2>3 DEF Labels
  <1>8. given # 0 => type = "set" BY DEF ConnType
  <1> HIDE DEF type
  <1>9. HandleNums \subseteq Slots /\ 0 \notin HandleNums
    BY TableAssumption DEF HandleNums, Slots
  <1> SUFFICES ASSUME ~Excused'
               PROVE  /\ \A c \in HandleNums : o.db2[c].kind = "dbc" =>
                           \/ c \in {given, pool'}
                           \/ c = o.h /\ ~conn'.keep
                      /\ conn'.keep => o.h # 0 /\ o.h \in {given, pool'}
    BY <1>1, <1>2, <1>3 DEF Connections, Working
  <1>10. ~Excused /\ type # "memory" /\ (type = "pool" => o.ans = "ok")
    BY <1>0, <1>4, <1>6, <1>7 DEF Excused, LogOK
  <1>11. \A c \in HandleNums : db2[c].kind = "dbc" => c \in {given, pool}
    BY <1>0, <1>10 DEF Connections, Working
  <1>12. CASE given # 0
    <2>1. o = Outcome(db2, given, "ok") BY <1>12
    <2>2. o.db2 = db2 /\ o.h = given /\ pool' = pool BY <1>1, <1>8, <1>12, <2>1 DEF Outcome
    <2> QED BY <1>11, <1>12, <2>2
  <1>13. CASE given = 0 /\ type = "pool" /\ pool # 0
    <2>1. o = Outcome(db2, pool, "ok") BY <1>13
    <2>2. o.db2 = db2 /\ o.h = pool /\ pool' = pool BY <1>1, <1>13, <2>1 DEF Outcome
    <2> QED BY <1>11, <1>13, <2>2
  <1>14. CASE given = 0 /\ (type = "set" \/ (type = "pool" /\ pool = 0))
    <2>1. o \in Opened BY <1>14
    <2>2. /\ \A x \in Slots : x # o.h => SameKinds(db2, o.db2, x)
          /\ o.ans = "ok" => o.h # 0 /\ o.db2[o.h].connected
      BY <1>0, <2>1, OpenedFacts
    <2>3. CASE type = "set"
      <3>1. pool' = pool /\ ~conn'.keep BY <1>1, <1>3, <1>14, <2>3
      <3> QED BY <1>9, <1>11, <2>2, <3>1 DEF SameKinds
    <2>4. CASE type = "pool"
      <3>1. o.h # 0 /\ pool' = o.h /\ pool = 0 BY <1>1, <1>10, <1>14, <2>2, <2>4
      <3>2. \A c \in HandleNums : db2[c].kind # "dbc" BY <1>9, <1>11, <1>14, <3>1
      <3> QED BY <1>9, <2>2, <3>1, <3>2 DEF SameKinds
    <2> QED BY <1>14, <2>3, <2>4
  <1> QED BY <1>5, <1>10, <1>12, <1>13, <1>14

LEMMA ConnBeginKeeps ==
  ASSUME RInv, ConnBegin
  PROVE  RInv'
  <1> DEFINE type == ConnType(N[at])
             ways == IF given # 0 THEN {Outcome(db2, given, "ok")}
                     ELSE IF type = "memory" THEN {Outcome(db2, 0, "ok")}
                     ELSE IF type = "pool" /\ pool # 0 THEN {Outcome(db2, pool, "ok")}
                     ELSE Opened
  <1>0. /\ pc = "script" /\ at \in Nat \ {0} /\ db2 \in Handles /\ Types
        /\ LogOK /\ WorkOK /\ PgmOK /\ Labels /\ Statements /\ pool \in Slots
        /\ given \in Slots /\ 0 \in Slots
    BY TableAssumption DEF RInv, Types, Positions, ConnBegin, InCall, Handles, Slots
  <1>1. PICK o \in ways :
          /\ db2' = o.db2
          /\ conn' = [hdbc |-> o.h, type |-> type, keep |-> given # 0 \/ type # "set",
                      last |-> at, max |-> DeepestIn(at)]
          /\ pool' = IF type = "pool" /\ o.h # 0 /\ o.db2[o.h].connected THEN o.h ELSE pool
          /\ rc' = RcOf(o.db2, o.h, o.ans)
          /\ log' = [log EXCEPT !.told = @ \/ Told(o.db2, o.h, o.ans),
                                !.lost = @ \/ Lost(o.h, o.ans),
                                !.refused = @ \/ o.ans # "ok"]
    BY ZenonT(60) DEF ConnBegin
  <1>2. pc' = "conn" /\ at' = at + 1 /\ UNCHANGED <<given, reqs, nodes, work, pgm>>
    BY ZenonT(60) DEF ConnBegin
  <1>3. /\ o.db2 \in Handles /\ o.h \in Slots
        /\ \A x \in Slots : o.db2[x].kind = "stmt" => db2[x].kind = "stmt"
    <2>1. CASE o \in {Outcome(db2, given, "ok"), Outcome(db2, 0, "ok"), Outcome(db2, pool, "ok")}
      BY <1>0, <2>1 DEF Outcome
    <2>2. CASE o \in Opened
      <3>1. /\ o.db2 \in Handles /\ o.h \in Slots
            /\ \A x \in Slots : x # o.h => SameKinds(db2, o.db2, x)
            /\ o.h # 0 => o.db2[o.h].kind = "dbc"
            /\ o.h = 0 => o.db2 = db2
        BY <1>0, <2>2, OpenedFacts
      <3> QED BY <3>1 DEF SameKinds
    <2> QED BY <2>1, <2>2
  <1> HIDE DEF type
  <1>4. /\ LogOK' /\ log'.labels = log.labels /\ log'.byhand = log.byhand
        /\ log'.shown = log.shown /\ log'.told = (log.told \/ Told(o.db2, o.h, o.ans))
    BY <1>0, <1>1 DEF LogOK, Told
  <1>5. ConnOK' BY <1>0, <1>1, <1>3 DEF ConnOK
  <1>6. WorkOK' /\ PgmOK' BY <1>0, <1>2 DEF WorkOK, PgmOK
  <1>7. Types'
    BY <1>0, <1>1, <1>2, <1>3, <1>4, <1>5, <1>6 DEF Types, Handles
  <1>8. Positions' BY <1>0, <1>2 DEF Positions, InCall
  <1>9. Labels' BY <1>0, <1>2, <1>4 DEF Labels, LabelsOf, ClosesAll
  <1>10. Statements'
    <2>1. \A h \in HandleNums : ~Owned(h) BY <1>0 DEF Owned, InCall
    <2>2. HandleNums \subseteq Slots BY TableAssumption DEF HandleNums, Slots
    <2> QED BY <1>0, <1>1, <1>3, <1>4, <2>1, <2>2 DEF Statements
  <1>11. ErrorTold' BY <1>1, <1>2, <1>4 DEF ErrorTold, RcOf
  <1> QED BY <1>7, <1>8, <1>9, <1>10, <1>11, BegunConnections DEF RInv

LEMMA ConnPassKeeps ==
  ASSUME RInv, ConnPass
  PROVE  RInv'
  <1>0. /\ pc = "conn" /\ rc = "ok" /\ at \in Nat \ {0}
        /\ ConnOK /\ WorkOK /\ PgmOK /\ LogOK
    BY DEF RInv, Types, Positions, ConnPass, InCall
  <1>1. /\ pc' \in {"bye", "conn"} /\ at' = at + 1
        /\ UNCHANGED <<given, reqs, nodes, rc, pool, db2, work, pgm, log>>
        /\ \E last \in {at, conn.last} : conn' = [conn EXCEPT !.last = last]
    <2>1. conn = [conn EXCEPT !.last = conn.last] BY <1>0 DEF ConnOK
    <2> QED BY <2>1 DEF ConnPass
  <1>2. ConnOK' /\ conn'.hdbc = conn.hdbc /\ conn'.keep = conn.keep
    BY <1>0, <1>1 DEF ConnOK
  <1>3. WorkOK' /\ PgmOK' /\ LogOK' BY <1>0, <1>1 DEF WorkOK, PgmOK, LogOK
  <1>4. Working /\ Working' /\ Positions' /\ ErrorTold'
    BY <1>0, <1>1 DEF Working, Positions, ErrorTold, InCall
  <1>5. \A h \in HandleNums : ~Owned(h) BY <1>0 DEF Owned, InCall
  <1> QED BY <1>1, <1>2, <1>3, <1>4, <1>5, QuietStep

\* What the request opened is closed, whichever step failed.
LEMMA ConnEndKeeps ==
  ASSUME RInv, ConnEnd
  PROVE  RInv'
  <1>0. /\ pc \in {"bye", "conn"} /\ db2 \in Handles /\ Types
        /\ ConnOK /\ WorkOK /\ PgmOK /\ LogOK /\ Labels /\ Connections /\ Statements /\ ErrorTold
    BY DEF RInv, Types, ConnEnd, Handles
  <1>1. /\ db2' = IF conn.hdbc # 0 /\ ~conn.keep
                  THEN Db2FreeDbc(Db2Disconnect(db2, conn.hdbc), conn.hdbc) ELSE db2
        /\ log' = [log EXCEPT !.shown = {h \in @ : Db2Alive(db2', h)}]
        /\ pc' = "script" /\ at' = conn.last + 1
        /\ UNCHANGED <<given, reqs, nodes, rc, conn, pool, work, pgm>>
    BY DEF ConnEnd, Kept
  <1>2. HandleNums \subseteq Slots /\ 0 \notin HandleNums
    BY TableAssumption DEF HandleNums, Slots
  <1>3. /\ db2' \in Handles
        /\ \A x \in Slots : SameKinds(db2, db2', x)
        /\ \A x \in HandleNums : db2'[x].kind = "dbc" => ~(x = conn.hdbc /\ ~conn.keep)
    <2>1. CASE conn.hdbc # 0 /\ ~conn.keep
      <3>1. db2' = Db2FreeDbc(Db2Disconnect(db2, conn.hdbc), conn.hdbc) BY <1>1, <2>1
      <3>2. /\ db2' \in Handles
            /\ \A x \in Slots : SameKinds(db2, db2', x)
            /\ db2'[conn.hdbc].kind # "dbc"
        BY <1>0, <3>1, FreeConnFacts DEF ConnOK
      <3> QED BY <3>2
    <2>2. CASE ~(conn.hdbc # 0 /\ ~conn.keep)
      <3>1. db2' = db2 BY <1>1, <2>2
      <3>2. \A x \in HandleNums : ~(x = conn.hdbc /\ ~conn.keep) BY <1>2, <2>2
      <3> QED BY <1>0, <3>1, <3>2 DEF SameKinds
    <2> QED BY <2>1, <2>2
  <1>4. /\ LogOK' /\ log'.labels = log.labels /\ log'.byhand = log.byhand
        /\ log'.refused = log.refused /\ log'.told = log.told
        /\ log'.shown = {h \in log.shown : Db2Alive(db2', h)}
    BY <1>0, <1>1 DEF LogOK
  <1>5. Types'
    <2>1. ConnOK' /\ WorkOK' /\ PgmOK' BY <1>0, <1>1 DEF ConnOK, WorkOK, PgmOK
    <2> QED BY <1>0, <1>1, <1>3, <1>4, <2>1 DEF Types, Handles
  <1>6. Positions' BY <1>0, <1>1 DEF Positions, InCall, ConnOK
  <1>7. Labels' BY <1>0, <1>1, <1>4 DEF Labels, LabelsOf, ClosesAll
  <1>8. Connections'
    <2> SUFFICES ASSUME ~Excused', NEW c \in HandleNums, db2'[c].kind = "dbc"
                 PROVE  c \in {given, pool}
      BY <1>1 DEF Connections, Working
    <2>1. ~Excused BY <1>4 DEF Excused
    <2>2. db2[c].kind = "dbc" /\ ~(c = conn.hdbc /\ ~conn.keep) BY <1>2, <1>3 DEF SameKinds
    <2> QED BY <1>0, <2>1, <2>2 DEF Connections
  <1>9. Statements'
    <2> SUFFICES ASSUME NEW x \in HandleNums, db2'[x].kind = "stmt" PROVE x \in log'.shown
      BY DEF Statements
    <2>1. db2[x].kind = "stmt" BY <1>2, <1>3 DEF SameKinds
    <2>2. ~Owned(x) BY <1>0 DEF Owned, InCall
    <2>3. x \in log.shown BY <1>0, <2>1, <2>2 DEF Statements
    <2> QED BY <1>4, <2>3 DEF Db2Alive
  <1>10. ErrorTold' BY <1>0, <1>1, <1>4 DEF ErrorTold
  <1> QED BY <1>5, <1>6, <1>7, <1>8, <1>9, <1>10 DEF RInv

LEMMA JoblogKeeps ==
  ASSUME RInv, Joblog
  PROVE  RInv'
  <1>0. /\ pc = "joblog" /\ at \in Nat \ {0} /\ db2 \in Handles
        /\ ConnOK /\ WorkOK /\ PgmOK /\ LogOK /\ Statements
    BY DEF RInv, Types, Positions, Joblog, InCall, Handles
  <1>1. PICK o \in Delayed :
          /\ db2' = o.db2
          /\ conn' = [conn EXCEPT !.hdbc = o.h]
          /\ log' = [log EXCEPT !.told = TRUE, !.refused = @ \/ o.ans # "ok"]
    BY ZenonT(60) DEF Joblog
  <1>2. pc' = "conn" /\ UNCHANGED <<given, reqs, nodes, at, rc, pool, work, pgm>>
    BY DEF Joblog
  <1>3. /\ o.db2 \in Handles /\ o.h \in Slots
        /\ o.h = conn.hdbc \/ conn.hdbc = 0
        /\ \A x \in HandleNums : o.db2[x].kind = "stmt" => db2[x].kind = "stmt"
        /\ \A x \in Slots : o.db2[x].kind = "dbc" => db2[x].kind = "dbc" \/ x = o.h
    BY <1>0, DelayedFacts, TableAssumption DEF ConnOK, SameKinds, Slots, HandleNums
  <1>4. /\ LogOK' /\ log'.labels = log.labels /\ log'.byhand = log.byhand
        /\ (log.refused => log'.refused) /\ log'.shown = log.shown /\ log'.told
    BY <1>0, <1>1 DEF LogOK
  <1>5. ConnOK' /\ conn'.hdbc = o.h /\ conn'.keep = conn.keep BY <1>0, <1>1, <1>3 DEF ConnOK
  <1>6. WorkOK' /\ PgmOK' BY <1>0, <1>2 DEF WorkOK, PgmOK
  <1>7. Working /\ Working' /\ Positions' /\ ErrorTold'
    BY <1>0, <1>2, <1>4 DEF Working, Positions, ErrorTold, InCall
  <1>8. Statements'
    <2>1. \A h \in HandleNums : ~Owned(h) BY <1>0 DEF Owned, InCall
    <2> QED BY <1>0, <1>1, <1>3, <1>4, <2>1 DEF Statements
  <1>9. \A x \in Slots : db2'[x].kind = "dbc" => db2[x].kind = "dbc" \/ x = conn'.hdbc
    BY <1>1, <1>3, <1>5
  <1>10. db2' \in Handles BY <1>1, <1>3
  <1> QED BY <1>2, <1>3, <1>4, <1>5, <1>6, <1>7, <1>8, <1>9, <1>10, ChildStep

LEMMA AdminKeeps ==
  ASSUME RInv, Admin
  PROVE  RInv'
  <1>0. /\ pc = "conn" /\ at \in Nat \ {0} /\ ConnOK /\ WorkOK /\ PgmOK /\ LogOK
    BY DEF RInv, Types, Positions, Admin, Child, InCall
  <1>1. /\ conn' = [conn EXCEPT !.last = at]
        /\ log' = [log EXCEPT !.ran = @ \cup {at}]
        /\ Return("ok", at + 1)
        /\ UNCHANGED <<given, reqs, nodes, pool, db2, work, pgm>>
    BY DEF Admin
  <1>2. ConnOK' /\ conn'.hdbc = conn.hdbc /\ conn'.keep = conn.keep BY <1>0, <1>1 DEF ConnOK
  <1>3. /\ LogOK' /\ log'.labels = log.labels /\ log'.byhand = log.byhand
        /\ log'.refused = log.refused /\ log'.shown = log.shown
    BY <1>0, <1>1 DEF LogOK
  <1>4. WorkOK' /\ PgmOK' BY <1>0, <1>1 DEF WorkOK, PgmOK
  <1>5. at + 1 \in Nat BY <1>0
  <1>6. Working' /\ Positions' /\ ErrorTold' BY <1>1, <1>5, ReturnFacts
  <1>7. Working /\ \A h \in HandleNums : ~Owned(h) BY <1>0 DEF Working, Owned, InCall
  <1> QED BY <1>1, <1>2, <1>3, <1>4, <1>6, <1>7, QuietStep

LEMMA FreeDbcFacts ==
  ASSUME NEW d \in Handles, NEW h
  PROVE  /\ Db2FreeDbc(d, h) \in Handles
         /\ \A x \in Slots : SameKinds(d, Db2FreeDbc(d, h), x)
  <1>1. Db2Free \in Db2Handle /\ Db2Free.kind = "free"
    BY TableAssumption DEF Db2Free, Db2Handle, Slots
  <1> DEFINE e == [d EXCEPT ![h] = Db2Free]
  <1>2. e \in Handles /\ \A x \in Slots : e[x] = IF x = h THEN Db2Free ELSE d[x]
    BY <1>1 DEF Handles
  <1>3. Db2FreeDbc(d, h) \in {e, d} BY DEF Db2FreeDbc
  <1> HIDE DEF e
  <1> QED BY <1>1, <1>2, <1>3 DEF SameKinds

\* A request that forgets its connection is one that ConnectionsReturned leaves out.
LEMMA CloseKeeps ==
  ASSUME RInv, Close
  PROVE  RInv'
  <1> DEFINE h    == NumberOr0(N[at], "handle")
             what == IF h = 0 THEN conn.hdbc ELSE h
             kind == IF h = 0 THEN "dbc" ELSE "stmt"
             ans  == IF db2[what].kind # kind \/ what = pool THEN "other"
                     ELSE IF kind = "dbc" /\ db2[what].connected THEN "error" ELSE "ok"
  <1>0. /\ pc = "conn" /\ at \in Nat \ {0} /\ Is(at, "beg", "close") /\ db2 \in Handles /\ Types
        /\ IsList(nodes) /\ ConnOK /\ WorkOK /\ PgmOK /\ LogOK /\ Labels /\ Statements
        /\ 0 \in Slots
    <2>1. Child("beg", "close") BY ZenonT(60) DEF Close
    <2> QED BY <2>1, TableAssumption DEF RInv, Types, Positions, Child, InCall, Handles, Slots
  <1>1. /\ db2' = IF ans # "ok" THEN db2
                  ELSE IF h = 0 THEN Db2FreeDbc(db2, what) ELSE Db2FreeStmt(db2, h)
        /\ conn' = [conn EXCEPT !.last = at, !.hdbc = IF h = 0 THEN 0 ELSE @]
        /\ log' = [log EXCEPT !.ran = @ \cup {at}, !.stray = @ \/ what = 0,
                              !.told = @ \/ Told(db2', what, ans),
                              !.shown = {x \in @ : Db2Alive(db2', x)}]
        /\ Return(RcOf(db2', what, ans), at)
        /\ UNCHANGED <<given, reqs, nodes, pool, work, pgm>>
    BY ZenonT(60) DEF Close
  <1>2. h = 0 => ClosesAll(nodes)
    BY <1>0, AtNode DEF ClosesAll, N
  <1> HIDE DEF h, what, kind, ans
  <1>3. db2' \in Handles /\ \A x \in Slots : SameKinds(db2, db2', x)
    <2>1. db2' \in {db2, Db2FreeDbc(db2, what), Db2FreeStmt(db2, h)} BY <1>1
    <2>2. CASE db2' = db2 BY <1>0, <2>2 DEF SameKinds
    <2>3. CASE db2' = Db2FreeDbc(db2, what) BY <1>0, <2>3, FreeDbcFacts
    <2>4. CASE db2' = Db2FreeStmt(db2, h) BY <1>0, <2>4, FreeStmtFacts
    <2> QED BY <2>1, <2>2, <2>3, <2>4
  <1>4. /\ LogOK' /\ log'.labels = log.labels /\ log'.byhand = log.byhand
        /\ log'.refused = log.refused /\ log'.shown = {x \in log.shown : Db2Alive(db2', x)}
    BY <1>0, <1>1 DEF LogOK, Told
  <1>5. /\ ConnOK' /\ conn'.keep = conn.keep
        /\ conn'.hdbc = IF h = 0 THEN 0 ELSE conn.hdbc
    BY <1>0, <1>1 DEF ConnOK
  <1>6. WorkOK' /\ PgmOK' BY <1>0, <1>1 DEF WorkOK, PgmOK
  <1>7. Working' /\ Positions' /\ ErrorTold' BY <1>0, <1>1, ReturnFacts
  <1>8. Statements'
    <2> SUFFICES ASSUME NEW x \in HandleNums, db2'[x].kind = "stmt" PROVE x \in log'.shown
      BY DEF Statements
    <2>1. x \in Slots BY TableAssumption DEF HandleNums, Slots
    <2>2. db2[x].kind = "stmt" BY <1>3, <2>1 DEF SameKinds
    <2>3. ~Owned(x) BY <1>0 DEF Owned, InCall
    <2>4. x \in log.shown BY <1>0, <2>2, <2>3 DEF Statements
    <2> QED BY <1>4, <2>4 DEF Db2Alive
  <1>9. Working BY <1>0 DEF Working
  <1>10. CASE h # 0
    <2>1. conn'.hdbc = conn.hdbc BY <1>5, <1>10
    <2>2. \A x \in Slots : db2'[x].kind = "dbc" => db2[x].kind = "dbc" \/ x = conn'.hdbc
      BY <1>3 DEF SameKinds
    <2> QED BY <1>1, <1>3, <1>4, <1>5, <1>6, <1>7, <1>8, <1>9, <2>1, <2>2, ChildStep
  <1>11. CASE h = 0
    <2>1. log'.byhand BY <1>0, <1>2, <1>4, <1>11 DEF Labels
    <2>2. Connections' BY <2>1 DEF Connections, Excused
    <2>3. Types' BY <1>0, <1>1, <1>3, <1>4, <1>5, <1>6 DEF Types, Handles
    <2>4. Labels' BY <1>0, <1>1, <1>4 DEF Labels, LabelsOf, ClosesAll
    <2> QED BY <1>7, <1>8, <2>2, <2>3, <2>4 DEF RInv
  <1> QED BY <1>10, <1>11

LEMMA ConnKeeps ==
  ASSUME RInv, ConnNext
  PROVE  RInv'
  BY ConnBeginKeeps, ConnPassKeeps, ConnEndKeeps, JoblogKeeps, CloseKeeps, AdminKeeps DEF ConnNext

-----------------------------------------------------------------------------
(* Requests                                                                  *)

\* Outside a connection's run: what the steps between requests keep.
LEMMA RequestStep ==
  ASSUME RInv, ~Working, ~Working', UNCHANGED <<given, pool, db2>>,
         Types', Positions', Labels', ErrorTold',
         log.labels \subseteq log'.labels, log.byhand => log'.byhand,
         log'.refused = log.refused, log'.shown = log.shown
  PROVE  RInv'
  <1>1. Connections'
    <2> SUFFICES ASSUME ~Excused', NEW c \in HandleNums, db2[c].kind = "dbc"
                 PROVE  c \in {given, pool}
      BY DEF Connections
    <2>1. ~Excused BY DEF Excused
    <2> QED BY <2>1 DEF RInv, Connections
  <1>2. Statements'
    <2>1. \A h : ~Owned(h)
      <3>1. pc \in {"idle", "script", "answered"} BY DEF Working
      <3> QED BY <3>1 DEF Owned, InCall
    <2> QED BY <2>1 DEF RInv, Statements
  <1> QED BY <1>1, <1>2 DEF RInv

LEMMA BeginRequestKeeps ==
  ASSUME RInv, BeginRequest
  PROVE  RInv'
  <1>0. /\ pc = "idle" /\ reqs # <<>> /\ reqs \in Seq(DOMAIN Documents) /\ Types /\ LogOK
    BY DEF RInv, Types, BeginRequest
  <1>1. /\ pc' = "script" /\ at' = 1 /\ rc' = "ok"
        /\ nodes' = NodesOf(Documents[Head(reqs)])
        /\ log' = [log EXCEPT !.labels = @ \cup LabelsOf(nodes'), !.byhand = @ \/ ClosesAll(nodes'),
                              !.ran = {}, !.told = FALSE, !.lost = FALSE, !.stray = FALSE]
        /\ UNCHANGED <<given, reqs, conn, pool, db2, work, pgm>>
    BY DEF BeginRequest
  <1>2. IsList(nodes')
    <2>1. Head(reqs) \in DOMAIN Documents BY <1>0
    <2>2. Len(Documents[Head(reqs)]) \in Nat BY <2>1, RequestsAssumption
    <2> QED BY <1>1, <2>2, NodesOfList
  <1>3. ClosesAll(nodes') \in BOOLEAN BY DEF ClosesAll
  <1>4. /\ LogOK' /\ log'.labels = log.labels \cup LabelsOf(nodes')
        /\ log'.byhand = (log.byhand \/ ClosesAll(nodes'))
        /\ log'.refused = log.refused /\ log'.shown = log.shown
    BY <1>0, <1>1, <1>3 DEF LogOK
  <1>5. ConnOK' /\ WorkOK' /\ PgmOK' BY <1>0, <1>1 DEF Types, ConnOK, WorkOK, PgmOK
  <1>6. Types' BY <1>0, <1>1, <1>2, <1>4, <1>5 DEF Types
  <1>7. Positions' BY <1>1 DEF Positions
  <1>8. Labels'
    <2>1. LabelsOf(nodes') = LabelsOf(nodes)' /\ ClosesAll(nodes') = ClosesAll(nodes)'
      BY DEF LabelsOf, ClosesAll
    <2> QED BY <1>4, <2>1 DEF Labels
  <1>9. ErrorTold' BY <1>1 DEF ErrorTold
  <1>10. ~Working /\ ~Working' BY <1>0, <1>1 DEF Working
  <1> QED BY <1>1, <1>4, <1>6, <1>7, <1>8, <1>9, <1>10, RequestStep

LEMMA RequestKeeps ==
  ASSUME RInv, RequestNext
  PROVE  RInv'
  <1>0. LogOK /\ ConnOK /\ WorkOK /\ PgmOK /\ Types BY DEF RInv, Types
  <1>1. CASE EmptyRequest
    <2>1. /\ pc = "idle" /\ reqs # <<>> /\ reqs' = Tail(reqs)
          /\ UNCHANGED <<given, nodes, pc, at, rc, conn, pool, db2, out, work, pgm, log>>
      BY <1>1 DEF EmptyRequest
    <2>2. reqs' \in Seq(DOMAIN Documents) BY <1>0, <2>1 DEF Types
    <2>3. ConnOK' /\ WorkOK' /\ PgmOK' /\ LogOK' BY <1>0, <2>1 DEF ConnOK, WorkOK, PgmOK, LogOK
    <2>4. Types' BY <1>0, <2>1, <2>2, <2>3 DEF Types
    <2>5. Positions' /\ Labels' /\ ErrorTold' BY <2>1 DEF Positions, Labels, ErrorTold
    <2>6. ~Working /\ ~Working' BY <2>1 DEF Working
    <2> QED BY <2>1, <2>4, <2>5, <2>6, RequestStep
  <1>2. CASE SkipNode
    <2>1. /\ pc = "script" /\ rc = "ok" /\ at' = at + 1 /\ at \in Nat \ {0}
          /\ UNCHANGED <<given, reqs, nodes, pc, rc, conn, pool, db2, out, work, pgm, log>>
      BY <1>2 DEF SkipNode, RInv, Positions, InCall
    <2>2. ConnOK' /\ WorkOK' /\ PgmOK' /\ LogOK' BY <1>0, <2>1 DEF ConnOK, WorkOK, PgmOK, LogOK
    <2>3. Types' BY <1>0, <2>1, <2>2 DEF Types
    <2>4. Positions' /\ ErrorTold' BY <2>1 DEF Positions, ErrorTold, InCall
    <2>5. Labels' BY <2>1 DEF RInv, Labels, LabelsOf, ClosesAll
    <2>6. ~Working /\ ~Working' BY <2>1 DEF Working
    <2> QED BY <2>1, <2>3, <2>4, <2>5, <2>6, RequestStep
  <1>3. CASE EndScript
    <2>1. /\ pc = "script" /\ pc' = "answered" /\ at \in Nat \ {0}
          /\ UNCHANGED <<given, reqs, nodes, at, rc, conn, pool, db2, work, pgm, log>>
      BY <1>3 DEF EndScript, RInv, Positions, InCall
    <2>2. ConnOK' /\ WorkOK' /\ PgmOK' /\ LogOK' BY <1>0, <2>1 DEF ConnOK, WorkOK, PgmOK, LogOK
    <2>3. Types' BY <1>0, <2>1, <2>2 DEF Types
    <2>4. Positions' BY <2>1 DEF Positions
    <2>5. ErrorTold' BY <2>1 DEF RInv, ErrorTold
    <2>6. Labels' BY <2>1 DEF RInv, Labels, LabelsOf, ClosesAll
    <2>7. ~Working /\ ~Working' BY <2>1 DEF Working
    <2> QED BY <2>1, <2>3, <2>4, <2>5, <2>6, <2>7, RequestStep
  <1>4. CASE EndRequest
    <2>1. /\ pc = "answered" /\ reqs' = Tail(reqs) /\ pc' = "idle" /\ nodes' = <<>>
          /\ conn' = NoConn /\ work' = NoWork /\ pgm' = NoPgm
          /\ UNCHANGED <<given, at, rc, pool, db2, log>>
      BY <1>4 DEF EndRequest
    <2>2. reqs' \in Seq(DOMAIN Documents) BY <1>0, <2>1 DEF Types
    <2>3. ConnOK' /\ WorkOK' /\ PgmOK' /\ LogOK'
      BY <1>0, <2>1, TableAssumption DEF ConnOK, WorkOK, PgmOK, LogOK, NoConn, NoWork, NoPgm, Slots
    <2>4. IsList(nodes') BY <2>1, ShortLists
    <2>5. Types' BY <1>0, <2>1, <2>2, <2>3, <2>4 DEF Types
    <2>6. Positions' /\ Labels' /\ ErrorTold' BY <2>1 DEF Positions, Labels, ErrorTold
    <2>7. ~Working /\ ~Working' BY <2>1 DEF Working
    <2> QED BY <2>1, <2>5, <2>6, <2>7, RequestStep
  <1> QED BY <1>1, <1>2, <1>3, <1>4, BeginRequestKeeps DEF RequestNext

-----------------------------------------------------------------------------
(* The theorems                                                              *)

LEMMA InitRInv ==
  ASSUME Init
  PROVE  RInv
  <1>1. PICK s \in Scripts : reqs = s.docs /\ given = IF s.given THEN 2 ELSE 0
    BY DEF Init
  <1> DEFINE none == [h \in Slots |-> Db2Free]
  <1>2. /\ db2 = IF given = 0 THEN none ELSE Db2Connect(Db2NewDbc(none, given), given)
        /\ nodes = <<>> /\ pc = "idle" /\ at = 0 /\ rc = "ok" /\ pool = 0
        /\ conn = NoConn /\ work = NoWork /\ pgm = NoPgm /\ log = NewLog
    BY DEF Init
  <1>3. reqs \in Seq(DOMAIN Documents) /\ given \in {0, 2} BY <1>1, RequestsAssumption
  <1>4. 0 \in Slots /\ 2 \in Slots BY TableAssumption DEF Slots
  <1>5. none \in Handles /\ \A h \in Slots : none[h].kind = "free"
    BY <1>4 DEF Handles, Db2Handle, Db2Free
  <1>6. db2 \in Handles /\ \A h \in Slots : db2[h].kind # "free" => h = given /\ db2[h].kind = "dbc"
    <2>1. CASE given = 0 BY <1>2, <1>5, <2>1
    <2>2. CASE given = 2
      <3> HIDE DEF none
      <3>1. Db2NewDbc(none, 2) \in Handles
            /\ \A h \in Slots : Db2NewDbc(none, 2)[h].kind # "free" => h = 2 /\ Db2NewDbc(none, 2)[h].kind = "dbc"
        BY <1>4, <1>5 DEF Db2NewDbc, Handles, Db2Handle
      <3> DEFINE new == Db2NewDbc(none, 2)
      <3>2. new \in Handles BY <3>1
      <3>3. \A h \in Slots : new[h].kind # "free" => h = 2 /\ new[h].kind = "dbc" BY <3>1
      <3>4. db2 = Db2Connect(new, 2) BY <1>2, <2>2
      <3> HIDE DEF new
      <3>5. /\ Db2Connect(new, 2) \in Handles
            /\ \A h \in Slots : Db2Connect(new, 2)[h].kind = new[h].kind
        BY <1>4, <3>2 DEF Db2Connect, Handles, Db2Handle
      <3> QED BY <2>2, <3>3, <3>4, <3>5
    <2> QED BY <1>3, <2>1, <2>2
  <1> HIDE DEF none
  <1>7. ConnOK /\ WorkOK /\ PgmOK /\ LogOK
    BY <1>2, <1>4 DEF ConnOK, WorkOK, PgmOK, LogOK, NoConn, NoWork, NoPgm, NewLog
  <1>8. Types BY <1>2, <1>3, <1>4, <1>6, <1>7, ShortLists DEF Types, Handles
  <1>9. Positions /\ Labels /\ ErrorTold BY <1>2 DEF Positions, Labels, ErrorTold
  <1>10. HandleNums \subseteq Slots BY TableAssumption DEF HandleNums, Slots
  <1>11. Connections BY <1>2, <1>6, <1>10 DEF Connections, Working
  <1>12. Statements BY <1>6, <1>10 DEF Statements
  <1> QED BY <1>8, <1>9, <1>11, <1>12 DEF RInv

LEMMA QuietRInv ==
  ASSUME RInv, UNCHANGED vars
  PROVE  RInv'
  BY DEF RInv, vars, Types, ConnOK, WorkOK, PgmOK, LogOK, Positions, Labels, LabelsOf, ClosesAll,
         Connections, Excused, Working, Statements, Owned, ErrorTold

LEMMA NextRInv ==
  ASSUME RInv, [Next]_vars
  PROVE  RInv'
  BY RequestKeeps, ConnKeeps, QueryKeeps, CmdKeeps, PgmKeeps, QuietRInv DEF Next, Done

\* Every state of every run of requests has the inductive invariant.
THEOREM RequestsInvariant == Spec => []RInv
  BY InitRInv, NextRInv, PTL DEF Spec

\* Whatever the documents say, whichever of their steps DB2 refuses and however many
\* requests came before, no connection is left behind by a request but the client's
\* own, the one kept under its key, and those of the cases the property names.
THEOREM EveryConnectionReturned == Spec => []ConnectionsReturned
  <1>1. RInv => ConnectionsReturned
    BY DEF RInv, Connections, ConnectionsReturned, Excused, Working
  <1> QED BY <1>1, RequestsInvariant, PTL

\* A statement that outlives its request was shown to the client, with rows left.
THEOREM EveryStatementReported == Spec => []StatementsReported
  <1>1. RInv => StatementsReported
    BY DEF RInv, Statements, Owned, InCall, StatementsReported
  <1> QED BY <1>1, RequestsInvariant, PTL

\* A request that ends with an error shows one, or the job log: what EveryElementRuns
\* says of errors.
THEOREM EveryErrorTold == Spec => [](pc = "answered" /\ rc = "error" => log.told)
  <1>1. RInv => (pc = "answered" /\ rc = "error" => log.told)
    BY DEF RInv, ErrorTold
  <1> QED BY <1>1, RequestsInvariant, PTL

-----------------------------------------------------------------------------
(* The arguments of a call                                                   *)

IsLayout(l) ==
  /\ l = [max |-> l.max, pos |-> l.pos, vpos |-> l.vpos, argc |-> l.argc, parmc |-> l.parmc,
          retstart |-> l.retstart, args |-> l.args]
  /\ l.argc \in Nat

\* While there are registers for the arguments: what PaseToIle_proofs shows of one layout
\* after another, and the structures that are open began before the position.  (Beyond
\* them the registers reach into the data, and so does the start of a structure by value.)
Laid(l, frames) ==
  /\ IsLayout(l) /\ IsList(frames)
  /\ \A i \in DOMAIN frames : frames[i].left \in Nat \ {0}
  /\ l.argc < MaxArgs =>
       Good(l) /\ \A i \in DOMAIN frames : frames[i].start \in Nat /\ frames[i].start <= l.pos

\* The first walk over the parameters is over nodes of the document.
WalkInv ==
  /\ pc # "idle" => nodes = NodesOf(Documents[Head(reqs)])
  /\ pc = "params" /\ pgm.step = 1 => at \in Nat \ {0}
  /\ pgm.step # 3 => Laid(pgm.layout, pgm.frames)

LEMMA AddedFacts ==
  ASSUME NEW l, IsLayout(l), NEW by, NEW size \in Nat
  PROVE  /\ IsLayout(Added(l, by, size))
         /\ l.argc <= Added(l, by, size).argc
         /\ l.pos \in Nat => l.pos <= Added(l, by, size).pos
  <1> DEFINE m == IF size > 0 THEN Grow(l, size) ELSE l
             p == Place(m, TRUE, by, size)
  <1>1. IsLayout(m) /\ m.argc = l.argc /\ m.pos = l.pos
    <2>1. m \in {l, [l EXCEPT !.max = RoundUp(l.max + size, Block)]} BY DEF Grow
    <2>2. ASSUME NEW x PROVE LET k == [l EXCEPT !.max = x]
                             IN  IsLayout(k) /\ k.argc = l.argc /\ k.pos = l.pos
      BY DEF IsLayout
    <2> QED BY <2>1, <2>2
  <1>2. Added(l, by, size) = p BY DEF Added
  <1> HIDE DEF m
  <1>3. CASE by \in ByRef
    <2>1. p = PlaceByRef(m, TRUE, by, size) BY <1>3 DEF Place, ByRef
    <2> DEFINE reg == NextRegister(m)
               v == Register(reg + 1)
               g == m.args \cup {Arg(by, reg, m.pos, size)}
    <2>2. p = [m EXCEPT !.vpos = v, !.argc = reg + 1, !.parmc = @ + 1, !.pos = @ + size, !.args = g]
      BY <1>1, <2>1 DEF PlaceByRef, IsLayout
    <2>3. reg \in Nat /\ m.argc <= reg + 1 BY <1>1 DEF NextRegister, IsLayout
    <2> HIDE DEF reg, v, g, p
    <2> DEFINE q == m.parmc + 1
               o == m.pos + size
    <2>4. p = [max |-> m.max, pos |-> o, vpos |-> v, argc |-> reg + 1, parmc |-> q,
               retstart |-> m.retstart, args |-> g]
      BY <1>1, <2>2 DEF IsLayout
    <2> HIDE DEF q, o
    <2>5. IsLayout(p) /\ p.argc = reg + 1 /\ p.pos = o BY <2>3, <2>4 DEF IsLayout
    <2>6. m.pos \in Nat => m.pos <= o BY DEF o
    <2> QED BY <1>1, <1>2, <2>3, <2>5, <2>6
  <1>4. CASE by \notin ByRef /\ by = "value"
    <2>1. p = PlaceByValue(m, TRUE, size) BY <1>4 DEF Place
    <2> DEFINE where == Aligned(m.vpos, size)
               reg == IF where + size > Register(m.argc + 1) THEN m.argc + 1 ELSE m.argc
               g == m.args \cup {Arg("value", reg, where, size)}
    <2>2. p = [m EXCEPT !.vpos = where + size, !.argc = reg, !.parmc = @ + 1, !.args = g]
      BY <1>1, <2>1 DEF PlaceByValue, IsLayout
    <2>3. reg \in Nat /\ m.argc <= reg BY <1>1 DEF IsLayout
    <2> HIDE DEF where, reg, g, p
    <2>4. IsLayout(p) /\ p.argc = reg /\ p.pos = m.pos BY <1>1, <2>2, <2>3 DEF IsLayout
    <2> QED BY <1>1, <1>2, <2>3, <2>4 DEF IsLayout
  <1>5. CASE by \notin ByRef /\ by # "value"
    <2>1. \E s : p = [m EXCEPT !.retstart = s, !.pos = @ + size]
      <3>1. m = [m EXCEPT !.retstart = m.retstart] BY <1>1 DEF IsLayout
      <3>2. CASE by = "return" BY <1>1, <1>5, <3>2 DEF Place, PlaceReturn, IsLayout
      <3>3. CASE by # "return"
        <4>1. p = [m EXCEPT !.pos = @ + size] BY <1>5, <3>3 DEF Place, NextSpill
        <4>2. p = [m EXCEPT !.retstart = m.retstart, !.pos = @ + size] BY <1>1, <4>1 DEF IsLayout
        <4> QED BY <4>2
      <3> QED BY <3>2, <3>3
    <2> HIDE DEF p
    <2>2. IsLayout(p) /\ p.argc = m.argc /\ p.pos = m.pos + size BY <1>1, <2>1 DEF IsLayout
    <2> QED BY <1>1, <1>2, <2>2 DEF IsLayout
  <1> QED BY <1>3, <1>4, <1>5

LEMMA CopyFacts ==
  ASSUME NEW l, IsLayout(l), NEW len
  PROVE  /\ IsLayout(CopiedOnce(l, len)) /\ CopiedOnce(l, len).argc = l.argc
         /\ CopiedOnce(l, len).pos = l.pos + len /\ CopiedOnce(l, len).vpos = l.vpos
  <1> DEFINE m == Grow(l, len)
  <1>1. IsLayout(m) /\ m.argc = l.argc /\ m.pos = l.pos /\ m.vpos = l.vpos
    <2>1. m \in {l, [l EXCEPT !.max = RoundUp(l.max + len, Block)]} BY DEF Grow
    <2>2. ASSUME NEW x PROVE LET k == [l EXCEPT !.max = x]
                             IN  IsLayout(k) /\ k.argc = l.argc /\ k.pos = l.pos /\ k.vpos = l.vpos
      BY DEF IsLayout
    <2> QED BY <2>1, <2>2
  <1>2. CopiedOnce(l, len) = [m EXCEPT !.pos = @ + len] BY DEF CopiedOnce, NextSpill
  <1> HIDE DEF m
  <1> QED BY <1>1, <1>2 DEF IsLayout

\* However many copies of whatever length, the arguments written stay as they were.
LEMMA CopiedFacts ==
  ASSUME NEW l, IsLayout(l), NEW len, NEW dim \in Nat \ {0}
  PROVE  /\ IsLayout(Copied(l, len, dim)) /\ Copied(l, len, dim).argc = l.argc
         /\ Copied(l, len, dim).vpos = l.vpos
         /\ l.pos \in Int /\ len \in Int => Copied(l, len, dim).pos = l.pos + (dim - 1) * len
         /\ len \in Nat /\ Good(l) => Good(Copied(l, len, dim)) /\ l.pos <= Copied(l, len, dim).pos
  <1> DEFINE Fine(m, k) == /\ IsLayout(m) /\ m.argc = l.argc /\ m.vpos = l.vpos
                           /\ l.pos \in Int /\ len \in Int => m.pos = l.pos + k * len
                           /\ len \in Nat /\ Good(l) => Good(m) /\ l.pos <= m.pos
             n == dim - 1
             Makes(f, k) == f = [i \in 0 .. k |-> IF i = 0 THEN l ELSE CopiedOnce(f[i - 1], len)]
  <1>1. n \in Nat OBVIOUS
  <1>2. Fine(l, 0) BY DEF Good, LayoutType
  <1>3. ASSUME NEW k \in Nat, NEW m, Fine(m, k) PROVE Fine(CopiedOnce(m, len), k + 1)
    <2> DEFINE c == CopiedOnce(m, len)
    <2>1. IsLayout(c) /\ c.argc = l.argc /\ c.vpos = l.vpos /\ c.pos = m.pos + len
      BY <1>3, CopyFacts
    <2>2. ASSUME len \in Nat, Good(l) PROVE Good(c) /\ l.pos <= c.pos
      <3>1. Good(m) /\ l.pos <= m.pos BY <1>3, <2>2
      <3>2. Good(c) BY <2>2, <3>1, CopiedKeeps
      <3>3. l.pos \in Nat /\ m.pos \in Nat BY <2>2, <3>1 DEF Good, LayoutType
      <3> HIDE DEF c
      <3> QED BY <2>1, <2>2, <3>1, <3>2, <3>3
    <2>3. ASSUME l.pos \in Int, len \in Int PROVE c.pos = l.pos + (k + 1) * len
      <3>1. m.pos = l.pos + k * len /\ k * len \in Int BY <1>3, <2>3
      <3>2. (k + 1) * len = k * len + len BY <2>3
      <3> HIDE DEF c
      <3> QED BY <2>1, <2>3, <3>1, <3>2
    <2> QED BY <2>1, <2>2, <2>3
  <1>4. Copied(l, len, dim) = (CHOOSE f : Makes(f, n))[n] BY DEF Copied
  <1> HIDE DEF Fine, n
  <1>5. \A k \in Nat : \E f : Makes(f, k) /\ Fine(f[k], k)
    <2> SUFFICES ASSUME \E k \in Nat : ~(\E f : Makes(f, k) /\ Fine(f[k], k)) PROVE FALSE
      OBVIOUS
    <2> DEFINE T == {k \in Nat : ~(\E f : Makes(f, k) /\ Fine(f[k], k))}
    <2>1. PICK k \in T : \A j \in T : ~(<<j, k>> \in OpToRel(<, Nat))
      BY NatLessThanWellFounded, WFMin
    <2>2. k # 0
      <3> DEFINE f == [i \in 0 .. 0 |-> l]
      <3>1. Makes(f, 0) /\ f[0] = l OBVIOUS
      <3>2. \E h : Makes(h, 0) /\ Fine(h[0], 0) BY <1>2, <3>1
      <3> HIDE DEF Makes
      <3> QED BY <3>2, <2>1
    <2>3. k - 1 \in Nat /\ k - 1 < k BY <2>2
    <2>4. k - 1 \notin T BY <2>1, <2>3 DEF OpToRel
    <2>5. PICK f : Makes(f, k - 1) /\ Fine(f[k - 1], k - 1) BY <2>3, <2>4
    <2> DEFINE g == [i \in 0 .. k |-> IF i = k THEN CopiedOnce(f[k - 1], len) ELSE f[i]]
    <2>6. Makes(g, k)
      <3>1. ASSUME NEW i \in 0 .. k PROVE g[i] = IF i = 0 THEN l ELSE CopiedOnce(g[i - 1], len)
        <4>1. CASE i = k
          <5>1. g[k] = CopiedOnce(f[k - 1], len) OBVIOUS
          <5>2. g[k - 1] = f[k - 1] BY <2>2
          <5> QED BY <4>1, <5>1, <5>2, <2>2
        <4>2. CASE i # k
          <5>1. i \in 0 .. k - 1 BY <4>2
          <5>2. f[i] = IF i = 0 THEN l ELSE CopiedOnce(f[i - 1], len) BY <5>1, <2>5
          <5>3. g[i] = f[i] BY <4>2
          <5>4. i # 0 => g[i - 1] = f[i - 1] BY <5>1
          <5> QED BY <5>2, <5>3, <5>4
        <4> QED BY <4>1, <4>2
      <3> QED BY <3>1
    <2>7. Fine(g[k], k)
      <3>1. Fine(CopiedOnce(f[k - 1], len), k - 1 + 1) BY <2>3, <2>5, <1>3
      <3>2. k - 1 + 1 = k /\ g[k] = CopiedOnce(f[k - 1], len) BY <2>3
      <3> HIDE DEF Fine, g
      <3> QED BY <3>1, <3>2
    <2> QED BY <2>1, <2>6, <2>7
  <1>6. \A f, h : Makes(f, n) /\ Makes(h, n) => f = h
    <2> SUFFICES ASSUME NEW f, NEW h, Makes(f, n), Makes(h, n) PROVE f = h OBVIOUS
    <2> DEFINE T == {k \in 0 .. n : f[k] # h[k]}
    <2>1. T = {}
      <3> SUFFICES ASSUME T # {} PROVE FALSE OBVIOUS
      <3>0. T \subseteq Nat BY <1>1
      <3>1. PICK k \in T : \A j \in T : ~(<<j, k>> \in OpToRel(<, Nat))
        BY <3>0, NatLessThanWellFounded, WFMin
      <3>2. k \in 0 .. n BY <3>1
      <3>3. f[k] = (IF k = 0 THEN l ELSE CopiedOnce(f[k - 1], len)) BY <3>2
      <3>4. h[k] = (IF k = 0 THEN l ELSE CopiedOnce(h[k - 1], len)) BY <3>2
      <3>5. k # 0 BY <3>1, <3>3, <3>4
      <3>6. k - 1 \in 0 .. n /\ k - 1 \in Nat /\ k \in Nat /\ k - 1 < k BY <1>1, <3>2, <3>5
      <3>7. k - 1 \notin T BY <3>1, <3>6 DEF OpToRel
      <3>8. f[k - 1] = h[k - 1] BY <3>6, <3>7
      <3> QED BY <3>1, <3>3, <3>4, <3>8
    <2> QED BY <2>1
  <1>7. PICK f : Makes(f, n) /\ Fine(f[n], n) BY <1>1, <1>5
  <1> HIDE DEF Makes
  <1>8. (CHOOSE g : Makes(g, n)) = f BY <1>6, <1>7
  <1>9. Fine(Copied(l, len, dim), n) BY <1>4, <1>7, <1>8
  <1> QED BY <1>1, <1>9 DEF Fine, n

\* The size of a value of the document is a number, and what By says of it is a kind.
LEMMA SizeFacts ==
  ASSUME NEW type, type.len \in Int, type.len >= 1, type.vary \in Nat, NEW dim \in Nat
  PROVE  TypeSize(type, dim) \in Nat
  <1> DEFINE one == CASE type.typ \in {"i", "u"} -> IntSize(type.len)
                      [] type.typ = "f" -> IF type.len = 4 THEN 4 ELSE 8
                      [] type.typ = "p" -> type.len \div 2 + 1
                      [] type.typ = "a" /\ type.vary \in {2, 4} -> type.len + type.vary
                      [] OTHER -> type.len
  <1>1. IntSize(type.len) \in Nat BY DEF IntSize
  <1>2. one \in Nat BY <1>1
  <1>3. TypeSize(type, dim) = dim * one BY DEF TypeSize
  <1> HIDE DEF one
  <1> QED BY <1>2, <1>3

LEMMA AppendedList ==
  ASSUME NEW s, IsList(s), NEW x
  PROVE  /\ IsList(Append(s, x))
         /\ \A i \in DOMAIN Append(s, x) :
              Append(s, x)[i] = x \/ (i \in DOMAIN s /\ Append(s, x)[i] = s[i])
  <1>1. PICK S : s \in Seq(S) BY DEF IsList
  <1>2. s \in Seq(S \cup {x}) BY <1>1
  <1>3. /\ Append(s, x) \in Seq(S \cup {x})
        /\ Len(s) \in Nat /\ DOMAIN s = 1 .. Len(s)
        /\ Len(Append(s, x)) = Len(s) + 1 /\ DOMAIN Append(s, x) = 1 .. Len(Append(s, x))
        /\ \A i \in 1 .. Len(s) : Append(s, x)[i] = s[i]
        /\ Append(s, x)[Len(s) + 1] = x
    BY <1>2, AppendProperties, LenProperties
  <1> QED BY <1>3 DEF IsList

LEMMA PoppedList ==
  ASSUME NEW s, IsList(s), s # <<>>
  PROVE  /\ Len(s) \in DOMAIN s
         /\ IsList(SubSeq(s, 1, Len(s) - 1))
         /\ \A i \in DOMAIN SubSeq(s, 1, Len(s) - 1) :
              i \in DOMAIN s /\ SubSeq(s, 1, Len(s) - 1)[i] = s[i]
  <1>1. PICK S : s \in Seq(S) BY DEF IsList
  <1>2. Len(s) \in Nat \ {0} /\ DOMAIN s = 1 .. Len(s) BY <1>1, EmptySeq, LenProperties
  <1> DEFINE p == SubSeq(s, 1, Len(s) - 1)
  <1>3. p = [i \in 1 .. Len(s) - 1 |-> s[i]] BY <1>1, <1>2
  <1>4. Len(s) - 1 \in Nat BY <1>2
  <1> HIDE DEF p
  <1>5. IsList(p) BY <1>3, <1>4, ListOf
  <1> QED BY <1>2, <1>3, <1>5 DEF p

-----------------------------------------------------------------------------
(* Each step of the first walk                                               *)

\* What a document says of the lengths and dimensions of a node.
LEMMA NodeFacts ==
  ASSUME RInv, WalkInv, NEW elem, NEW key, Walking(1, key, elem)
  PROVE  /\ DimOf(N[at]) \in Nat \ {0}
         /\ TypeOf(N[at]).len \in Int /\ TypeOf(N[at]).vary \in Nat
         /\ at \in Nat \ {0} /\ Laid(pgm.layout, pgm.frames)
  <1>1. pc = "params" /\ pgm.step = 1 /\ Is(at, key, elem) BY DEF Walking
  <1>2. /\ IsList(nodes) /\ at \in Nat \ {0} /\ nodes = NodesOf(Documents[Head(reqs)])
        /\ reqs # <<>> /\ reqs \in Seq(DOMAIN Documents) /\ Laid(pgm.layout, pgm.frames)
    BY <1>1 DEF RInv, Types, WalkInv
  <1>3. at \in DOMAIN nodes BY <1>1, <1>2, AtNode
  <1>4. Head(reqs) \in DOMAIN Documents BY <1>2
  <1>5. /\ AttrOr(N[at], "dim", 1) \in Int
        /\ TypeOf(N[at]).len \in Int /\ TypeOf(N[at]).vary \in Nat
    BY <1>2, <1>3, <1>4, NumbersAssumption DEF N
  <1>6. DimOf(N[at]) \in Nat \ {0} BY <1>5 DEF DimOf
  <1> QED BY <1>2, <1>5, <1>6

LEMMA AddedLaid ==
  ASSUME NEW l, NEW frames, Laid(l, frames), NEW by \in Kinds, NEW size \in Nat,
         by = "value" => size <= ValueMax
  PROVE  Laid(Added(l, by, size), frames)
  <1> DEFINE m == Added(l, by, size)
  <1>1. IsLayout(l) /\ IsLayout(m) /\ l.argc <= m.argc /\ (l.pos \in Nat => l.pos <= m.pos)
    BY AddedFacts DEF Laid
  <1>2. ASSUME m.argc < MaxArgs
        PROVE  Good(m) /\ \A i \in DOMAIN frames : frames[i].start \in Nat /\ frames[i].start <= m.pos
    <2>1. l.argc < MaxArgs BY <1>1, <1>2 DEF IsLayout, MaxArgs
    <2>2. Good(l) /\ \A i \in DOMAIN frames : frames[i].start \in Nat /\ frames[i].start <= l.pos
      BY <2>1 DEF Laid
    <2>3. Good(m) BY <2>2, AddedKeeps
    <2>4. l.pos \in Nat /\ m.pos \in Nat /\ l.pos <= m.pos BY <1>1, <2>2, <2>3 DEF Good, LayoutType
    <2> HIDE DEF m
    <2> QED BY <2>2, <2>3, <2>4
  <1> QED BY <1>1, <1>2 DEF Laid

\* A structure begins at the position or, by value, in the registers, which lie before it.
LEMMA BegunLaid ==
  ASSUME NEW l, NEW frames, Laid(l, frames), NEW by \in Kinds, NEW f,
         f.left \in Nat \ {0}, f.start = Where(l, by, 0)
  PROVE  Laid(Added(l, by, 0), Append(frames, f))
  <1> DEFINE m == Added(l, by, 0)
             more == Append(frames, f)
  <1>1. by = "value" => 0 <= ValueMax BY Offsets
  <1>2. Laid(m, frames) BY <1>1, AddedLaid
  <1>3. /\ IsList(more)
        /\ \A i \in DOMAIN more : more[i] = f \/ (i \in DOMAIN frames /\ more[i] = frames[i])
    BY AppendedList DEF Laid
  <1>4. IsLayout(l) /\ l.argc <= m.argc /\ (l.pos \in Nat => l.pos <= m.pos)
    BY AddedFacts DEF Laid
  <1>5. ASSUME m.argc < MaxArgs PROVE f.start \in Nat /\ f.start <= m.pos
    <2>1. l.argc < MaxArgs /\ l.argc \in Nat BY <1>2, <1>4, <1>5 DEF Laid, IsLayout, MaxArgs
    <2>2. Good(l) /\ Good(m) BY <1>2, <1>5, <2>1 DEF Laid
    <2>3. /\ l.pos \in Nat /\ m.pos \in Nat /\ l.pos <= m.pos /\ SpillTop <= l.pos
          /\ l.vpos \in Nat /\ l.vpos <= Register(l.argc + 1)
      BY <1>4, <2>2 DEF Good, LayoutType, Enough, Cursor
    <2>4. CASE by = "value"
      <3>1. f.start = l.vpos BY <2>4 DEF Where, Aligned
      <3>2. Register(l.argc + 1) <= SpillTop /\ Register(l.argc + 1) \in Nat /\ SpillTop \in Nat
        <4>1. Register(MaxArgs) <= SpillTop /\ SpillTop \in Nat /\ MaxArgs = 159 BY Offsets DEF MaxArgs
        <4>2. /\ Register(l.argc + 1) = 16 + 16 * (l.argc + 1) /\ Register(MaxArgs) = 16 + 16 * 159
          BY <4>1 DEF Register, ArgvTop, Pointer
        <4> QED BY <2>1, <4>1, <4>2
      <3> QED BY <2>3, <3>1, <3>2
    <2>5. CASE by # "value" BY <2>3, <2>5 DEF Where
    <2> QED BY <2>4, <2>5
  <1> HIDE DEF m, more
  <1>6. \A i \in DOMAIN more : more[i].left \in Nat \ {0} BY <1>2, <1>3 DEF Laid
  <1>7. ASSUME m.argc < MaxArgs
        PROVE  Good(m) /\ \A i \in DOMAIN more : more[i].start \in Nat /\ more[i].start <= m.pos
    BY <1>2, <1>3, <1>5, <1>7 DEF Laid
  <1>8. Laid(m, more) BY <1>2, <1>3, <1>6, <1>7 DEF Laid
  <1> QED BY <1>8 DEF m, more

\* The image between the start of the structure and the position is copied.
LEMMA EndedLaid ==
  ASSUME NEW l, NEW frames, Laid(l, frames), frames # <<>>, NEW len,
         len = l.pos - frames[Len(frames)].start
  PROVE  Laid(Copied(l, len, frames[Len(frames)].left), SubSeq(frames, 1, Len(frames) - 1))
  <1> DEFINE dim == frames[Len(frames)].left
             less == SubSeq(frames, 1, Len(frames) - 1)
             m == Copied(l, len, dim)
  <1>1. /\ Len(frames) \in DOMAIN frames /\ IsList(less)
        /\ \A i \in DOMAIN less : i \in DOMAIN frames /\ less[i] = frames[i]
    BY PoppedList DEF Laid
  <1>2. IsLayout(l) /\ dim \in Nat \ {0} BY <1>1 DEF Laid
  <1> HIDE DEF dim, less
  <1>3. /\ IsLayout(m) /\ m.argc = l.argc
        /\ len \in Nat /\ Good(l) => Good(m) /\ l.pos <= m.pos
    BY <1>2, CopiedFacts
  <1> HIDE DEF m
  <1>4. \A i \in DOMAIN less : less[i].left \in Nat \ {0} BY <1>1 DEF Laid
  <1>5. ASSUME m.argc < MaxArgs
        PROVE  Good(m) /\ \A i \in DOMAIN less : less[i].start \in Nat /\ less[i].start <= m.pos
    <2>1. Good(l) /\ \A i \in DOMAIN frames : frames[i].start \in Nat /\ frames[i].start <= l.pos
      BY <1>3, <1>5 DEF Laid
    <2>2. l.pos \in Nat /\ len \in Nat BY <1>1, <2>1 DEF Good, LayoutType
    <2>3. Good(m) /\ l.pos <= m.pos BY <1>3, <2>1, <2>2
    <2>4. m.pos \in Nat BY <2>3 DEF Good, LayoutType
    <2> QED BY <1>1, <2>1, <2>2, <2>3, <2>4
  <1>6. Laid(m, less) BY <1>1, <1>3, <1>4, <1>5 DEF Laid
  <1> QED BY <1>6 DEF m, dim, less

\* A step that leaves the document, and either the layout or the first walk.
LEMMA WalkQuiet ==
  ASSUME WalkInv, pc # "idle", UNCHANGED <<nodes, reqs>>,
         pc' = "params" /\ pgm'.step = 1 => at' \in Nat \ {0},
         pgm'.step # 3 => pgm.step # 3 /\ pgm'.layout = pgm.layout /\ pgm'.frames = pgm.frames
  PROVE  WalkInv'
  <1>1. pgm'.step # 3 => Laid(pgm'.layout, pgm'.frames) BY DEF WalkInv
  <1> QED BY <1>1 DEF WalkInv

\* A step of the first walk: the new layout is laid out for the structures open then.
LEMMA WalkStep ==
  ASSUME WalkInv, pc # "idle", UNCHANGED <<nodes, reqs>>, at \in Nat \ {0}, at' = at + 1,
         Laid(pgm'.layout, pgm'.frames)
  PROVE  WalkInv'
  <1>1. at' \in Nat \ {0} OBVIOUS
  <1> QED BY <1>1 DEF WalkInv

LEMMA DataInWalk ==
  ASSUME RInv, WalkInv, DataIn
  PROVE  WalkInv'
  <1> DEFINE type == TypeOf(N[at])
             size == TypeSize(type, DimOf(N[at]))
             by   == By(AttrOr(N[at], "by", ""), size, InDs)
  <1>1. Walking(1, "beg", "s") BY DEF DataIn
  <1>2. /\ DimOf(N[at]) \in Nat \ {0} /\ type.len \in Int /\ type.vary \in Nat
        /\ at \in Nat \ {0} /\ Laid(pgm.layout, pgm.frames)
    BY <1>1, NodeFacts
  <1>3. PgmOK /\ pc # "idle" BY <1>1 DEF RInv, Types, Walking
  <1>4. at' = at + 1 /\ UNCHANGED <<nodes, reqs>> BY DEF DataIn
  <1>5. CASE type.len < 1
    <2>1. pgm' = pgm BY <1>5 DEF DataIn
    <2> QED BY <1>2, <1>3, <1>4, <2>1, WalkStep
  <1>6. CASE ~(type.len < 1)
    <2>1. \E w : pgm' = [pgm EXCEPT !.layout = Added(@, by, size), !.written = w]
      BY <1>6 DEF DataIn
    <2>2. size \in Nat
      <3>1. type.len >= 1 /\ DimOf(N[at]) \in Nat BY <1>2, <1>6
      <3> QED BY <1>2, <3>1, SizeFacts
    <2> HIDE DEF size
    <2>3. InDs \in BOOLEAN BY DEF InDs
    <2>4. by \in Kinds /\ (by = "value" => size <= ValueMax) BY <2>2, <2>3, ByValueFits
    <2> HIDE DEF by
    <2>5. pgm'.layout = Added(pgm.layout, by, size) /\ pgm'.frames = pgm.frames
      BY <1>3, <2>1 DEF PgmOK
    <2>6. Laid(pgm'.layout, pgm'.frames) BY <1>2, <2>2, <2>4, <2>5, AddedLaid
    <2> QED BY <1>2, <1>3, <1>4, <2>6, WalkStep
  <1> QED BY <1>5, <1>6

LEMMA DsInWalk ==
  ASSUME RInv, WalkInv, DsIn
  PROVE  WalkInv'
  <1> DEFINE by    == By(AttrOr(N[at], "by", ""), 0, InDs)
             start == Where(pgm.layout, by, 0)
             f     == FrameOf(at, DimOf(N[at]), start)
  <1>1. Walking(1, "beg", "ds") BY DEF DsIn
  <1>2. /\ DimOf(N[at]) \in Nat \ {0}
        /\ at \in Nat \ {0} /\ Laid(pgm.layout, pgm.frames)
    BY <1>1, NodeFacts
  <1>3. PgmOK /\ pc # "idle" BY <1>1 DEF RInv, Types, Walking
  <1>4. /\ at' = at + 1 /\ UNCHANGED <<nodes, reqs>>
        /\ pgm' = [pgm EXCEPT !.layout = Added(@, by, 0), !.frames = Append(@, f)]
    BY DEF DsIn, PlaceDs, StartOf
  <1>5. f.left \in Nat \ {0} /\ f.start = start BY <1>2 DEF FrameOf
  <1>6. by \in Kinds
    <2>1. InDs \in BOOLEAN BY DEF InDs
    <2> QED BY <2>1, ByValueFits
  <1> HIDE DEF by, f
  <1>7. pgm'.layout = Added(pgm.layout, by, 0) /\ pgm'.frames = Append(pgm.frames, f)
    BY <1>3, <1>4 DEF PgmOK
  <1>8. Laid(pgm'.layout, pgm'.frames) BY <1>2, <1>5, <1>6, <1>7, BegunLaid
  <1> QED BY <1>2, <1>3, <1>4, <1>8, WalkStep

LEMMA EndDsInWalk ==
  ASSUME RInv, WalkInv, EndDsIn
  PROVE  WalkInv'
  <1> DEFINE len == pgm.layout.pos - Top.start
  <1>1. Walking(1, "end", "ds") /\ pgm.frames # <<>> BY DEF EndDsIn, InDs
  <1>2. at \in Nat \ {0} /\ Laid(pgm.layout, pgm.frames) BY <1>1, NodeFacts
  <1>3. PgmOK /\ pc # "idle" BY <1>1 DEF RInv, Types, Walking
  <1>4. /\ at' = at + 1 /\ UNCHANGED <<nodes, reqs>>
        /\ \E w : pgm' = [pgm EXCEPT !.layout = Copied(pgm.layout, len, Top.left),
                                     !.written = w, !.frames = Popped]
    BY DEF EndDsIn
  <1>5. pgm'.layout = Copied(pgm.layout, len, Top.left) /\ pgm'.frames = Popped
    BY <1>3, <1>4 DEF PgmOK
  <1>6. Laid(pgm'.layout, pgm'.frames) BY <1>1, <1>2, <1>5, EndedLaid DEF Top, Popped
  <1> QED BY <1>2, <1>3, <1>4, <1>6, WalkStep

\* The other steps of a program's call: before it the layout is new, and behind the call the
\* first walk is over.
LEMMA PgmNextWalk ==
  ASSUME RInv, WalkInv, PgmNext
  PROVE  WalkInv'
  <1>0. PgmOK BY DEF RInv, Types
  <1>1. CASE PgmBegin
    <2>1. pc = "conn" /\ at \in Nat \ {0} /\ UNCHANGED <<nodes, reqs>>
      BY <1>1 DEF PgmBegin, Child, RInv, Positions, InCall
    <2>2. /\ pc' = "params" => at' = at + 1
          /\ pgm'.layout = NewLayout /\ pgm'.frames = <<>>
      <3>1. PICK a \in (IF InMemory(conn.type) THEN {Outcome(db2, 0, "ok")} ELSE NewStmt(db2, conn.hdbc)) :
              \E p \in (IF InMemory(conn.type) \/ a.ans # "ok" THEN {a.ans} ELSE Answers(a.db2, a.h)) :
                LET r     == RcOf(a.db2, a.h, p)
                    named == HasAttr(N[at], "name")
                IN  /\ pgm' = [NoPgm EXCEPT !.stmt = a.h, !.mem = InMemory(conn.type),
                                            !.begun = r = "ok" /\ named, !.step = 1,
                                            !.max = DeepestIn(at)]
                    /\ pc' = IF r = "ok" THEN "params" ELSE "pgmend"
                    /\ at' = IF r = "ok" THEN at + 1 ELSE at
        BY ZenonT(60), <1>1 DEF PgmBegin
      <3> QED BY <3>1 DEF NoPgm
    <2>3. Laid(NewLayout, <<>>)
      <3>1. IsLayout(NewLayout) BY InitGood DEF IsLayout, Good, LayoutType
      <3> QED BY <3>1, InitGood, ShortLists DEF Laid
    <2>4. pc' = "params" => at' \in Nat \ {0} BY <2>1, <2>2
    <2> QED BY <2>1, <2>2, <2>3, <2>4 DEF WalkInv
  <1>2. CASE PassParam
    <2>1. pc = "params" /\ UNCHANGED <<nodes, reqs, pgm>> /\ at' = at + 1 BY <1>2 DEF PassParam
    <2>2. pgm.step = 1 => at' \in Nat \ {0} BY <2>1 DEF WalkInv
    <2> QED BY <2>1, <2>2, WalkQuiet
  <1>3. CASE ParamsEnd
    <2>1. pc = "params" /\ UNCHANGED <<nodes, reqs>> /\ pc' # "params" BY <1>3 DEF ParamsEnd
    <2>2. pgm'.step = pgm.step /\ pgm'.layout = pgm.layout /\ pgm'.frames = <<>>
      BY <1>0, <1>3 DEF ParamsEnd, PgmOK
    <2>3. pgm.step # 3 => Laid(pgm'.layout, <<>>) BY <2>2, ShortLists DEF WalkInv, Laid
    <2> QED BY <2>1, <2>2, <2>3 DEF WalkInv
  <1>4. CASE PgmCall
    <2>1. pc = "pgmcall" /\ UNCHANGED <<nodes, reqs>> BY <1>4 DEF PgmCall
    <2>2. pgm'.step = 3 \/ (pgm' = pgm /\ pc' = "pgmend") BY <1>0, <1>4 DEF PgmCall, PgmOK
    <2> QED BY <2>1, <2>2, WalkQuiet
  <1>5. CASE PgmEnd
    <2>1. pc = "pgmend" /\ UNCHANGED <<nodes, reqs, pgm>> /\ pc' # "params"
      BY <1>5 DEF PgmEnd, Return
    <2> QED BY <2>1, WalkQuiet
  <1>6. CASE DataOut
    <2>1. pc = "params" /\ UNCHANGED <<nodes, reqs>> /\ pgm.step = 3 BY <1>6 DEF DataOut, Walking
    <2>2. pgm'.step = 3 BY <1>0, <1>6, <2>1 DEF DataOut, PgmOK
    <2> QED BY <2>1, <2>2, WalkQuiet
  <1>7. CASE DsOut
    <2>1. pc = "params" /\ UNCHANGED <<nodes, reqs>> /\ pgm.step = 3 BY <1>7 DEF DsOut, Walking
    <2>2. pgm'.step = 3 BY <1>0, <1>7, <2>1 DEF DsOut, PgmOK
    <2> QED BY <2>1, <2>2, WalkQuiet
  <1>8. CASE EndDsNext
    <2>1. pc = "params" /\ UNCHANGED <<nodes, reqs>> /\ pgm.step = 3 BY <1>8 DEF EndDsNext, Walking
    <2>2. pgm'.step = 3 BY <1>0, <1>8, <2>1 DEF EndDsNext, PgmOK
    <2> QED BY <2>1, <2>2, WalkQuiet
  <1>9. CASE EndDsLast
    <2>1. pc = "params" /\ UNCHANGED <<nodes, reqs>> /\ pgm.step = 3 BY <1>9 DEF EndDsLast, Walking
    <2>2. pgm'.step = 3 BY <1>0, <1>9, <2>1 DEF EndDsLast, PgmOK
    <2> QED BY <2>1, <2>2, WalkQuiet
  <1> QED
    BY <1>1, <1>2, <1>3, <1>4, <1>5, <1>6, <1>7, <1>8, <1>9, DataInWalk, DsInWalk, EndDsInWalk
    DEF PgmNext

\* Queries, commands, connections: not the call of a program.
LEMMA OtherWalk ==
  ASSUME RInv, WalkInv, ConnNext \/ QueryNext \/ CmdNext
  PROVE  WalkInv'
  <1>1. pc # "idle" /\ pc' # "params" /\ UNCHANGED <<nodes, reqs, pgm>>
    <2>1. CASE ConnNext
      BY <2>1 DEF ConnNext, ConnBegin, ConnPass, ConnEnd, Joblog, Close, Admin, Child, Return
    <2>2. CASE QueryNext
      <3>1. CASE QueryBegin
        <4> DEFINE text == AttrOr(N[at], "stmt", "")
                   step == CASE text = "" -> "fetch"
                             [] text \in MetaQueries ->
                                  IF Is(at + 1, "beg", "parm") THEN "parms" ELSE "fetch"
                             [] OTHER -> "prepare"
        <4>1. step \in {"fetch", "parms", "prepare"} BY Zenon
        <4> HIDE DEF step
        <4>2. (\E r : Return(r, at)) \/ pc' = step BY Zenon, <3>1 DEF QueryBegin, step
        <4>3. pc' # "params" BY <4>1, <4>2 DEF Return
        <4> QED BY <3>1, <4>3 DEF QueryBegin, Child
      <3>2. CASE QueryPrepare \/ QueryParm \/ QueryParmsStop \/ QueryExecute
        BY <3>2 DEF QueryPrepare, QueryParm, QueryParmsStop, QueryExecute, Return
      <3>3. CASE Fetch \/ FetchPass \/ QueryEnd
        BY <3>3 DEF Fetch, FetchPass, InFetches, QueryEnd, Return
      <3> QED BY <2>2, <3>1, <3>2, <3>3 DEF QueryNext
    <2>3. CASE CmdNext
      BY <2>3 DEF CmdNext, CmdBegin, CmdRun, CmdOutput, CmdEnd, Child, Return
    <2> QED BY <2>1, <2>2, <2>3
  <1> QED BY <1>1, WalkQuiet

\* A request: the walk begins with a call and is over when another request comes.
LEMMA RequestWalk ==
  ASSUME RInv, WalkInv, RequestNext
  PROVE  WalkInv'
  <1>1. CASE BeginRequest
    <2>1. /\ nodes' = NodesOf(Documents[Head(reqs)]) /\ pc' = "script"
          /\ UNCHANGED <<reqs, pgm>>
      BY <1>1 DEF BeginRequest
    <2> QED BY <2>1 DEF WalkInv
  <1>2. CASE EmptyRequest
    <2>1. pc = "idle" /\ UNCHANGED <<nodes, pc, at, pgm>> BY <1>2 DEF EmptyRequest
    <2> QED BY <2>1 DEF WalkInv
  <1>3. CASE SkipNode
    <2>1. pc = "script" /\ UNCHANGED <<nodes, reqs, pc, pgm>> BY <1>3 DEF SkipNode
    <2> QED BY <2>1, WalkQuiet
  <1>4. CASE EndScript
    <2>1. pc = "script" /\ UNCHANGED <<nodes, reqs, pgm>> /\ pc' = "answered" BY <1>4 DEF EndScript
    <2> QED BY <2>1, WalkQuiet
  <1>5. CASE EndRequest
    <2>1. pc' = "idle" /\ pgm' = NoPgm BY <1>5 DEF EndRequest
    <2>2. Laid(NewLayout, <<>>)
      <3>1. IsLayout(NewLayout) BY InitGood DEF IsLayout, Good, LayoutType
      <3> QED BY <3>1, InitGood, ShortLists DEF Laid
    <2> QED BY <2>1, <2>2 DEF WalkInv, NoPgm
  <1> QED BY <1>1, <1>2, <1>3, <1>4, <1>5 DEF RequestNext

\* Before the call of a program the arguments written are those of a good layout.
LEMMA WalkInvariant == Spec => []WalkInv
  <1>1. Init => WalkInv
    <2> SUFFICES ASSUME Init PROVE WalkInv OBVIOUS
    <2>1. pc = "idle" /\ pgm = NoPgm BY DEF Init
    <2>2. IsLayout(NewLayout) BY InitGood DEF IsLayout, Good, LayoutType
    <2>3. Laid(NewLayout, <<>>) BY <2>2, InitGood, ShortLists DEF Laid
    <2> QED BY <2>1, <2>3 DEF WalkInv, NoPgm
  <1>2. RInv /\ WalkInv /\ [Next]_vars => WalkInv'
    <2>1. ASSUME WalkInv, UNCHANGED vars PROVE WalkInv' BY <2>1 DEF vars, WalkInv
    <2> QED BY <2>1, RequestWalk, OtherWalk, PgmNextWalk DEF Next, Done
  <1> QED BY <1>1, <1>2, RequestsInvariant, PTL DEF Spec

\* Whatever parameters a document gives a program, in whatever structures, while there are
\* registers for them: no two arguments share a byte, and all lie in the memory allocated.
THEOREM EveryArgumentApart == Spec => []ArgumentsApart
  <1>1. WalkInv => ArgumentsApart
    <2> SUFFICES ASSUME WalkInv, pgm.step = 1, pgm.layout.argc < MaxArgs PROVE Apart(pgm.layout)
      BY DEF ArgumentsApart
    <2>1. Good(pgm.layout) BY DEF WalkInv, Laid
    <2> QED BY <2>1, GoodApart
  <1> QED BY <1>1, WalkInvariant, PTL

-----------------------------------------------------------------------------
(* The two walks over the parameters                                         *)

\* What the first walk has made before node i of the list n: the layout, the structures
\* open, the values written.
LooksAt(n, max, s, i) ==
  n[i].ord <= IF s.frames # <<>> THEN s.frames[Len(s.frames)].max ELSE max

NodeIs(n, i, key, elem) == i <= Len(n) /\ n[i].key = key /\ n[i].elem = elem

IsData(n, max, s, i) == NodeIs(n, i, "beg", "s") /\ LooksAt(n, max, s, i)
IsDs(n, max, s, i) == NodeIs(n, i, "beg", "ds") /\ LooksAt(n, max, s, i)
IsEnd(n, max, s, i) == s.frames # <<>> /\ NodeIs(n, i, "end", "ds") /\ LooksAt(n, max, s, i)
OverAt(n, max, s, i) ==
  i <= Len(n) => s.frames = <<>> /\ NodeIs(n, i, "end", "pgm") /\ LooksAt(n, max, s, i)

\* How a parameter, a structure is passed, and the size of a parameter.
SizeAt(n, i) == TypeSize(TypeOf(n[i]), DimOf(n[i]))
ByAt(n, s, i, size) == By(AttrOr(n[i], "by", ""), size, s.frames # <<>>)

DataStep(n, s, t, i) ==
  LET size == SizeAt(n, i)
      by   == ByAt(n, s, i, size)
  IN  /\ KnownType(TypeOf(n[i]))
      /\ t.layout = Added(s.layout, by, size)
      /\ t.frames = s.frames
      /\ t.written = s.written \cup
           {[node |-> i, pos |-> Where(s.layout, by, size),
             data |-> Stored(TypeOf(n[i]), ValueOf(n[i]))]}

DsStep(n, s, t, i) ==
  LET f == t.frames[Len(t.frames)]
  IN  /\ t.layout = Added(s.layout, ByAt(n, s, i, 0), 0)
      /\ t.written = s.written
      /\ t.frames = Append(s.frames, f)
      /\ f.node = i /\ f.left = DimOf(n[i])
      /\ f.max = IF i < Len(n) THEN n[i + 1].ord ELSE 0
      /\ f.start = Where(s.layout, ByAt(n, s, i, 0), 0)

EndStep(s, t) ==
  LET f   == s.frames[Len(s.frames)]
      len == s.layout.pos - f.start
      of  == {w \in s.written : w.pos >= f.start /\ w.pos < s.layout.pos}
  IN  /\ t.layout = Copied(s.layout, len, f.left)
      /\ t.written = s.written \cup CopiesOf(of, len, f.left)
      /\ t.frames = SubSeq(s.frames, 1, Len(s.frames) - 1)

StepOf(n, max, s, t, i) ==
  /\ ~OverAt(n, max, s, i)
  /\ IsData(n, max, s, i) => DataStep(n, s, t, i)
  /\ IsDs(n, max, s, i) => DsStep(n, s, t, i)
  /\ IsEnd(n, max, s, i) => EndStep(s, t)
  /\ ~IsData(n, max, s, i) /\ ~IsDs(n, max, s, i) /\ ~IsEnd(n, max, s, i) => t = s

\* A value written lies in the registers or in the data, before the position there.
Lies(w, l) ==
  /\ w = [node |-> w.node, pos |-> w.pos, data |-> w.data] /\ w.pos \in Nat
  /\ (w.pos < SpillTop /\ w.pos < l.vpos) \/ (SpillTop <= w.pos /\ w.pos < l.pos)

\* Values that lie from p to q, no two at one place.
Between(ws, p, q) ==
  \A w \in ws : /\ w = [node |-> w.node, pos |-> w.pos, data |-> w.data]
               /\ w.pos \in Nat /\ p <= w.pos /\ w.pos < q

Unique(ws) == \A v, w \in ws : v.pos = w.pos => v = w

\* What is always true of one of these snapshots.
Sound(s, a, i, n) ==
  /\ IsLayout(s.layout) /\ Good(s.layout) /\ s.layout.argc < MaxArgs
  /\ IsList(s.frames)
  /\ \A j \in DOMAIN s.frames :
       LET f == s.frames[j]
       IN  /\ f.node \in Nat /\ a <= f.node /\ f.node < i
           /\ f.left \in Nat \ {0} /\ f.left = DimOf(n[f.node])
           /\ f.start \in Nat /\ f.start <= s.layout.pos
           /\ f.left > 1 => SpillTop <= f.start
  /\ \A w \in s.written : Lies(w, s.layout)
  /\ Unique(s.written)

\* The structure at depth j opened after node b and has been open from there on: nothing moved
\* in the registers since, and what was written since lies behind its start.
Nested(H, n, max, i, j) ==
  LET f == H[i].frames[j]
      b == f.node
  IN  /\ IsDs(n, max, H[b], b) /\ Len(H[b].frames) = j - 1
      /\ f.left > 1 => f.start = H[b + 1].layout.pos
      /\ \A h \in DOMAIN H[i].frames : h < j => H[i].frames[h].node < b
      /\ \A k \in b + 1 .. i :
           /\ j \in DOMAIN H[k].frames /\ H[k].frames[j] = f
           /\ H[k].layout.vpos = H[i].layout.vpos /\ H[k].layout.argc = H[i].layout.argc
      /\ \A w \in H[i].written : w \in H[b].written \/ f.start <= w.pos

\* The first walk, from node a to node e.
Trail(H, n, max, a, e) ==
  /\ a \in Nat \ {0} /\ e \in Nat /\ a <= e
  /\ H[a].frames = <<>> /\ H[a].written = {}
  /\ H[a].layout.pos = SpillTop /\ H[a].layout.vpos = ArgvTop /\ H[a].layout.argc = 0
  /\ \A i \in a .. e : Sound(H[i], a, i, n)
  /\ \A i \in a .. e - 1 : StepOf(n, max, H[i], H[i + 1], i)
  /\ \A i \in a .. e : \A j \in DOMAIN H[i].frames : Nested(H, n, max, i, j)
  /\ \A i, k \in a .. e : i <= k => H[i].written \subseteq H[k].written

-----------------------------------------------------------------------------
\* The value found a distance further.
Shift(w, d) == [w EXCEPT !.pos = @ + d]

\* Where the structure at depth j begins; the parameters are depth 0.
From(frames, j) == IF j = 0 THEN 0 ELSE frames[j].start

\* Node c ends the structure f at depth j.
EndsAt(H, n, max, e, c, j, f) ==
  /\ c \in f.node + 1 .. e - 1
  /\ Len(H[c].frames) = j /\ H[c].frames[j] = f /\ IsEnd(n, max, H[c], c)

\* The elements of the structure at depth j that the second walk is through with: it is as much
\* further in the structure around it, and has read the values of each.
Passed(H, n, max, e, i, F, d, read, j) ==
  LET f  == H[i].frames[j]
      up == F[j].up
  IN  /\ up = 0 => d[j] = d[j - 1]
      /\ up > 0 => \E c : LET len == H[c].layout.pos - f.start
                          IN  /\ EndsAt(H, n, max, e, c, j, f)
                              /\ d[j] = d[j - 1] + up * len
                              /\ \A k \in 0 .. up - 1 : \A w \in H[c].written :
                                   f.start <= w.pos => Shift(w, d[j - 1] + k * len) \in read

\* What of the element of depth j that it is in has been read.
Reached(H, i, F, d, read, j) ==
  \A w \in H[IF j < Len(F) THEN F[j + 1].node ELSE i].written :
    From(H[i].frames, j) <= w.pos => Shift(w, d[j]) \in read

\* All of that element has been written.
Carried(H, a, e, i, d, written, j) ==
  \A k \in a .. e :
    j = 0 \/ (j \in DOMAIN H[k].frames /\ H[k].frames[j] = H[i].frames[j]) =>
      \A w \in H[k].written : From(H[i].frames, j) <= w.pos => Shift(w, d[j]) \in written

\* The second walk at node i, d[j] further at depth j than the first walk was.
Second(H, n, max, a, e, d, i, F, l, read, written) ==
  /\ i \in a .. e /\ IsList(F) /\ Len(F) = Len(H[i].frames)
  /\ \A j \in DOMAIN F :
       /\ F[j].node = H[i].frames[j].node /\ F[j].max = H[i].frames[j].max
       /\ F[j].up \in Nat /\ F[j].left \in Nat \ {0}
       /\ F[j].up + F[j].left = H[i].frames[j].left
  /\ d \in [0 .. Len(F) -> Nat] /\ d[0] = 0
  /\ IsLayout(l) /\ l.pos = H[i].layout.pos + d[Len(F)]
  /\ l.vpos = H[i].layout.vpos /\ l.argc = H[i].layout.argc
  /\ \A j \in 1 .. Len(F) : Passed(H, n, max, e, i, F, d, read, j)
  /\ \A j \in 0 .. Len(F) : Reached(H, i, F, d, read, j) /\ Carried(H, a, e, i, d, written, j)
  /\ read \subseteq written

-----------------------------------------------------------------------------
(* Positions                                                                 *)

\* A place moved by d, and a move after a move.
LEMMA ShiftFacts ==
  ASSUME NEW w, w = [node |-> w.node, pos |-> w.pos, data |-> w.data], w.pos \in Nat,
         NEW d \in Nat
  PROVE  /\ Shift(w, d) = [node |-> w.node, pos |-> w.pos + d, data |-> w.data]
         /\ Shift(w, d).pos = w.pos + d
         /\ Shift(w, 0) = w
         /\ \A x \in Nat : Shift(Shift(w, d), x) = Shift(w, d + x)
  <1>1. ASSUME NEW x \in Nat
        PROVE  Shift(w, x) = [node |-> w.node, pos |-> w.pos + x, data |-> w.data]
    BY DEF Shift
  <1>2. ASSUME NEW x \in Nat PROVE Shift(Shift(w, d), x) = Shift(w, d + x)
    <2> DEFINE u == Shift(w, d)
               p == w.pos + d
    <2>1. u = [node |-> w.node, pos |-> p, data |-> w.data] BY <1>1
    <2>2. d + x \in Nat /\ p \in Nat /\ p + x = w.pos + (d + x) OBVIOUS
    <2>3. Shift(w, d + x) = [node |-> w.node, pos |-> w.pos + (d + x), data |-> w.data]
      BY <1>1, <2>2
    <2> HIDE DEF u, p
    <2>4. Shift(u, x) = [node |-> w.node, pos |-> p + x, data |-> w.data] BY <2>1 DEF Shift
    <2>5. Shift(u, x) = Shift(w, d + x) BY <2>2, <2>3, <2>4
    <2> QED BY <2>5 DEF u
  <1>3. Shift(w, d) = [node |-> w.node, pos |-> w.pos + d, data |-> w.data] BY <1>1
  <1>4. Shift(w, 0) = w
    <2>1. Shift(w, 0) = [node |-> w.node, pos |-> w.pos + 0, data |-> w.data] BY <1>1
    <2>2. w.pos + 0 = w.pos OBVIOUS
    <2> QED BY <2>1, <2>2
  <1> QED BY <1>2, <1>3, <1>4

\* What the copies of a structure need of products.
LEMMA Products ==
  ASSUME NEW j \in Nat, NEW k \in Nat, j < k, NEW m \in Nat
  PROVE  /\ j * m \in Nat /\ k * m \in Nat
         /\ (j + 1) * m = j * m + m /\ (j + 1) * m <= k * m /\ m <= k * m
  <1>1. j * m \in Nat /\ k * m \in Nat /\ (k - j - 1) * m \in Nat OBVIOUS
  <1>2. (j + 1) * m = j * m + m OBVIOUS
  <1>3. k * m = (j + 1) * m + (k - j - 1) * m OBVIOUS
  <1> QED BY <1>1, <1>2, <1>3

\* Where the next parameter comes: it depends on the register and on what is in it, and the
\* position moves by the size of what is not passed by value.
NextArgc(vpos, argc) == IF vpos > Register(argc) THEN argc + 1 ELSE argc

ArgcAfter(vpos, argc, by, size) ==
  CASE by \in ByRef -> NextArgc(vpos, argc) + 1
    [] by = "value" -> IF Aligned(vpos, size) + size > Register(argc + 1) THEN argc + 1 ELSE argc
    [] OTHER -> argc

VposAfter(vpos, argc, by, size) ==
  CASE by \in ByRef -> Register(NextArgc(vpos, argc) + 1)
    [] by = "value" -> Aligned(vpos, size) + size
    [] OTHER -> vpos

\* Where Place leaves a layout: the spill grows by what is not by value, the vector by the rest.
LEMMA PlaceMoves ==
  ASSUME NEW l, IsLayout(l), NEW by \in Kinds, NEW size \in Nat, NEW keep \in BOOLEAN
  PROVE  LET m == Place(l, keep, by, size)
         IN  /\ IsLayout(m)
             /\ m.pos = IF by = "value" THEN l.pos ELSE l.pos + size
             /\ m.vpos = VposAfter(l.vpos, l.argc, by, size)
             /\ m.argc = ArgcAfter(l.vpos, l.argc, by, size)
  <1> DEFINE m == Place(l, keep, by, size)
  <1> SUFFICES /\ IsLayout(m)
               /\ m.pos = IF by = "value" THEN l.pos ELSE l.pos + size
               /\ m.vpos = VposAfter(l.vpos, l.argc, by, size)
               /\ m.argc = ArgcAfter(l.vpos, l.argc, by, size)
    OBVIOUS
  <1>1. CASE by \in ByRef
    <2>1. m = PlaceByRef(l, keep, by, size) BY <1>1 DEF Place, ByRef
    <2> DEFINE reg == NextArgc(l.vpos, l.argc)
               v == Register(reg + 1)
               g == IF keep THEN l.args \cup {Arg(by, reg, l.pos, size)} ELSE l.args
    <2>2. m = [l EXCEPT !.vpos = v, !.argc = reg + 1, !.parmc = @ + 1, !.pos = @ + size, !.args = g]
      BY <2>1 DEF PlaceByRef, IsLayout, NextRegister, NextArgc
    <2>3. reg + 1 \in Nat BY DEF NextArgc, IsLayout
    <2>4. /\ v = VposAfter(l.vpos, l.argc, by, size)
          /\ reg + 1 = ArgcAfter(l.vpos, l.argc, by, size)
          /\ by # "value"
      BY <1>1 DEF VposAfter, ArgcAfter, ByRef
    <2> HIDE DEF reg, v, g, m
    <2> DEFINE q == l.parmc + 1
               o == l.pos + size
    <2>5. m = [max |-> l.max, pos |-> o, vpos |-> v, argc |-> reg + 1, parmc |-> q,
               retstart |-> l.retstart, args |-> g]
      BY <2>2 DEF IsLayout
    <2> HIDE DEF q
    <2>6. IsLayout(m) /\ m.argc = reg + 1 /\ m.pos = o /\ m.vpos = v BY <2>3, <2>5 DEF IsLayout
    <2> QED BY <2>4, <2>6
  <1>2. CASE by \notin ByRef /\ by = "value"
    <2>1. m = PlaceByValue(l, keep, size) BY <1>2 DEF Place
    <2> DEFINE where == Aligned(l.vpos, size)
               reg == IF where + size > Register(l.argc + 1) THEN l.argc + 1 ELSE l.argc
               g == IF keep THEN l.args \cup {Arg("value", reg, where, size)} ELSE l.args
    <2>2. m = [l EXCEPT !.vpos = where + size, !.argc = reg, !.parmc = @ + 1, !.args = g]
      BY <2>1 DEF PlaceByValue, IsLayout
    <2>3. reg \in Nat BY DEF IsLayout
    <2>4. /\ where + size = VposAfter(l.vpos, l.argc, by, size)
          /\ reg = ArgcAfter(l.vpos, l.argc, by, size)
      BY <1>2 DEF VposAfter, ArgcAfter
    <2> DEFINE v == where + size
    <2> HIDE DEF where, reg, g, m, v
    <2> DEFINE q == l.parmc + 1
    <2>5. m = [max |-> l.max, pos |-> l.pos, vpos |-> v, argc |-> reg, parmc |-> q,
               retstart |-> l.retstart, args |-> g]
      BY <2>2 DEF IsLayout, v
    <2> HIDE DEF q
    <2>6. IsLayout(m) /\ m.argc = reg /\ m.pos = l.pos /\ m.vpos = v BY <2>3, <2>5 DEF IsLayout
    <2> QED BY <1>2, <2>4, <2>6 DEF v
  <1>3. CASE by \notin ByRef /\ by # "value"
    <2>1. \E s : m = [l EXCEPT !.retstart = s, !.pos = @ + size]
      <3>1. l = [l EXCEPT !.retstart = l.retstart] BY DEF IsLayout
      <3>2. CASE by = "return" BY <1>3, <3>2 DEF Place, PlaceReturn, IsLayout
      <3>3. CASE by # "return"
        <4>1. m = [l EXCEPT !.pos = @ + size] BY <1>3, <3>3 DEF Place, NextSpill
        <4>2. m = [l EXCEPT !.retstart = l.retstart, !.pos = @ + size] BY <4>1 DEF IsLayout
        <4> QED BY <4>2
      <3> QED BY <3>2, <3>3
    <2> HIDE DEF m
    <2>2. IsLayout(m) /\ m.argc = l.argc /\ m.vpos = l.vpos /\ m.pos = l.pos + size
      BY <2>1 DEF IsLayout
    <2> QED BY <1>3, <2>2 DEF VposAfter, ArgcAfter
  <1> QED BY <1>1, <1>2, <1>3

\* Where a value leaves a layout.
LEMMA AddedMoves ==
  ASSUME NEW l, IsLayout(l), NEW by \in Kinds, NEW size \in Nat
  PROVE  LET m == Added(l, by, size)
         IN  /\ IsLayout(m)
             /\ m.pos = IF by = "value" THEN l.pos ELSE l.pos + size
             /\ m.vpos = VposAfter(l.vpos, l.argc, by, size)
             /\ m.argc = ArgcAfter(l.vpos, l.argc, by, size)
  <1> DEFINE g == IF size > 0 THEN Grow(l, size) ELSE l
  <1>1. IsLayout(g) /\ g.argc = l.argc /\ g.pos = l.pos /\ g.vpos = l.vpos
    <2>1. g \in {l, [l EXCEPT !.max = RoundUp(l.max + size, Block)]} BY DEF Grow
    <2>2. ASSUME NEW x PROVE LET k == [l EXCEPT !.max = x]
                             IN  IsLayout(k) /\ k.argc = l.argc /\ k.pos = l.pos /\ k.vpos = l.vpos
      BY DEF IsLayout
    <2> QED BY <2>1, <2>2
  <1>2. Added(l, by, size) = Place(g, TRUE, by, size) BY DEF Added
  <1> HIDE DEF g
  <1>3. LET m == Place(g, TRUE, by, size)
        IN  /\ IsLayout(m)
            /\ m.pos = IF by = "value" THEN g.pos ELSE g.pos + size
            /\ m.vpos = VposAfter(g.vpos, g.argc, by, size)
            /\ m.argc = ArgcAfter(g.vpos, g.argc, by, size)
    BY <1>1, PlaceMoves
  <1> QED BY <1>1, <1>2, <1>3

\* While there are registers for the arguments they lie before the data.
LEMMA GoodBounds ==
  ASSUME NEW l, Good(l), l.argc < MaxArgs
  PROVE  /\ l.pos \in Nat /\ l.vpos \in Nat /\ l.argc \in Nat /\ SpillTop \in Nat
         /\ l.vpos <= SpillTop /\ SpillTop <= l.pos
         /\ l.vpos <= Register(l.argc + 1) /\ l.argc + 1 \in Nat
  <1>1. /\ l.pos \in Nat /\ l.vpos \in Nat /\ l.argc \in Nat /\ SpillTop <= l.pos
        /\ l.vpos <= Register(l.argc + 1)
    BY DEF Good, LayoutType, Enough, Cursor
  <1>2. Register(MaxArgs) <= SpillTop /\ SpillTop \in Nat /\ MaxArgs = 159 BY Offsets DEF MaxArgs
  <1>3. /\ Register(l.argc + 1) = 16 + 16 * (l.argc + 1) /\ Register(MaxArgs) = 16 + 16 * 159
    BY <1>2 DEF Register, ArgvTop, Pointer
  <1> QED BY <1>1, <1>2, <1>3

\* A value has a size.
LEMMA PositiveSize ==
  ASSUME NEW type, type.len \in Int, type.vary \in Nat, KnownType(type), NEW dim \in Nat \ {0}
  PROVE  TypeSize(type, dim) \in Nat \ {0}
  <1> DEFINE one == CASE type.typ \in {"i", "u"} -> IntSize(type.len)
                      [] type.typ = "f" -> IF type.len = 4 THEN 4 ELSE 8
                      [] type.typ = "p" -> type.len \div 2 + 1
                      [] type.typ = "a" /\ type.vary \in {2, 4} -> type.len + type.vary
                      [] OTHER -> type.len
  <1>1. IntSize(type.len) \in Nat \ {0} BY DEF IntSize
  <1>2. one \in Nat \ {0} BY <1>1 DEF KnownType
  <1>3. TypeSize(type, dim) = dim * one BY DEF TypeSize
  <1> HIDE DEF one
  <1>4. (dim - 1) * one \in Nat /\ dim * one = (dim - 1) * one + one BY <1>2
  <1> QED BY <1>2, <1>3, <1>4

-----------------------------------------------------------------------------
(* The first walk goes on                                                    *)

\* What a sound snapshot says, conjunct by conjunct.
LEMMA SoundFacts ==
  ASSUME NEW s, NEW a, NEW i, NEW n, Sound(s, a, i, n)
  PROVE  /\ s.layout.pos \in Nat /\ s.layout.vpos \in Nat /\ s.layout.argc \in Nat
         /\ SpillTop \in Nat /\ s.layout.vpos <= SpillTop /\ SpillTop <= s.layout.pos
         /\ IsLayout(s.layout) /\ Good(s.layout) /\ s.layout.argc < MaxArgs
         /\ IsList(s.frames) /\ Len(s.frames) \in Nat /\ DOMAIN s.frames = 1 .. Len(s.frames)
         /\ s.frames # <<>> => Len(s.frames) \in DOMAIN s.frames
         /\ s.frames = <<>> => Len(s.frames) = 0
         /\ Len(s.frames) = 0 => s.frames = <<>>
  <1>1. /\ IsLayout(s.layout) /\ Good(s.layout) /\ s.layout.argc < MaxArgs /\ IsList(s.frames)
    BY DEF Sound
  <1>2. /\ s.layout.pos \in Nat /\ s.layout.vpos \in Nat /\ s.layout.argc \in Nat
        /\ SpillTop \in Nat /\ s.layout.vpos <= SpillTop /\ SpillTop <= s.layout.pos
    BY <1>1, GoodBounds
  <1>3. Len(s.frames) \in Nat /\ DOMAIN s.frames = 1 .. Len(s.frames) BY <1>1, ListFacts
  <1>4. s.frames = <<>> => Len(s.frames) = 0 BY ShortLists
  <1>5. Len(s.frames) = 0 => s.frames = <<>>
    <2>1. PICK S : s.frames \in Seq(S) BY <1>1 DEF IsList
    <2> QED BY <2>1, EmptySeq
  <1>6. s.frames # <<>> => Len(s.frames) \in DOMAIN s.frames BY <1>3, <1>5
  <1> QED BY <1>1, <1>2, <1>3, <1>4, <1>5, <1>6

\* That a structure is nested depends on no snapshot outside the trail.
LEMMA NestedSame ==
  ASSUME NEW H, NEW G, NEW n, NEW max, NEW a \in Nat, NEW e \in Nat, NEW i \in a .. e,
         NEW j \in DOMAIN H[i].frames, Sound(H[i], a, i, n), Nested(H, n, max, i, j),
         \A k \in a .. e : G[k] = H[k]
  PROVE  Nested(G, n, max, i, j)
  <1> DEFINE f == H[i].frames[j]
             b == f.node
  <1>1. b \in a .. i - 1 BY DEF Sound
  <1>2. /\ IsDs(n, max, H[b], b) /\ Len(H[b].frames) = j - 1
        /\ f.left > 1 => f.start = H[b + 1].layout.pos
        /\ \A h \in DOMAIN H[i].frames : h < j => H[i].frames[h].node < b
        /\ \A k \in b + 1 .. i :
             /\ j \in DOMAIN H[k].frames /\ H[k].frames[j] = f
             /\ H[k].layout.vpos = H[i].layout.vpos /\ H[k].layout.argc = H[i].layout.argc
        /\ \A w \in H[i].written : w \in H[b].written \/ f.start <= w.pos
    BY DEF Nested
  <1>3. G[i] = H[i] OBVIOUS
  <1> HIDE DEF b
  <1>4. G[b] = H[b] /\ G[b + 1] = H[b + 1] /\ \A k \in b + 1 .. i : G[k] = H[k] BY <1>1
  <1>5. /\ IsDs(n, max, G[b], b) /\ Len(G[b].frames) = j - 1
        /\ f.left > 1 => f.start = G[b + 1].layout.pos
        /\ \A h \in DOMAIN G[i].frames : h < j => G[i].frames[h].node < b
        /\ \A k \in b + 1 .. i :
             /\ j \in DOMAIN G[k].frames /\ G[k].frames[j] = f
             /\ G[k].layout.vpos = G[i].layout.vpos /\ G[k].layout.argc = G[i].layout.argc
        /\ \A w \in G[i].written : w \in G[b].written \/ f.start <= w.pos
    BY <1>2, <1>3, <1>4
  <1>6. G[i].frames[j] = f BY <1>3
  <1> HIDE DEF f
  <1> QED BY <1>5, <1>6 DEF Nested, b

Longer(H, a, e, s) == [k \in a .. e + 1 |-> IF k = e + 1 THEN s ELSE H[k]]

\* Nothing has been made yet.
Fresh(s) ==
  /\ s.frames = <<>> /\ s.written = {}
  /\ s.layout.pos = SpillTop /\ s.layout.vpos = ArgvTop /\ s.layout.argc = 0

\* A first walk begins as a trail of one snapshot.
LEMMA TrailBegins ==
  ASSUME NEW n, NEW max, NEW a \in Nat \ {0}, NEW s, Sound(s, a, a, n), Fresh(s)
  PROVE  \E H : Trail(H, n, max, a, a) /\ H[a] = s
  <1> DEFINE H == [k \in a .. a |-> s]
  <1>1. H[a] = s OBVIOUS
  <1>2. \A i \in a .. a : i = a OBVIOUS
  <1>3. a .. a - 1 = {} OBVIOUS
  <1> HIDE DEF H
  <1>4. DOMAIN H[a].frames = {} BY <1>1 DEF Fresh
  <1>5. Trail(H, n, max, a, a) BY <1>1, <1>2, <1>3, <1>4 DEF Trail, Fresh
  <1> QED BY <1>1, <1>5

\* A trail and one step more.
LEMMA TrailExtends ==
  ASSUME NEW H, NEW n, NEW max, NEW a, NEW e, Trail(H, n, max, a, e),
         NEW s, StepOf(n, max, H[e], s, e), Sound(s, a, e + 1, n),
         H[e].written \subseteq s.written,
         \A j \in DOMAIN s.frames : Nested(Longer(H, a, e, s), n, max, e + 1, j)
  PROVE  Trail(Longer(H, a, e, s), n, max, a, e + 1) /\ Longer(H, a, e, s)[e + 1] = s
  <1> DEFINE G == Longer(H, a, e, s)
  <1>1. a \in Nat \ {0} /\ e \in Nat /\ a <= e BY DEF Trail
  <1>2. G[e + 1] = s /\ \A k \in a .. e : G[k] = H[k] BY <1>1 DEF Longer
  <1> HIDE DEF G
  <1>3. \A i \in a .. e + 1 : i \in a .. e \/ i = e + 1 BY <1>1
  <1>4. \A i \in a .. e + 1 : Sound(G[i], a, i, n) BY <1>2, <1>3 DEF Trail
  <1>5. \A i \in a .. e : StepOf(n, max, G[i], G[i + 1], i)
    <2> TAKE i \in a .. e
    <2>1. CASE i = e BY <1>1, <1>2, <2>1
    <2>2. CASE i # e
      <3>1. i \in a .. e - 1 /\ i + 1 \in a .. e BY <1>1, <2>2
      <3> QED BY <1>2, <3>1 DEF Trail
    <2> QED BY <2>1, <2>2
  <1>6. ASSUME NEW i \in a .. e + 1, NEW j \in DOMAIN G[i].frames
        PROVE  Nested(G, n, max, i, j)
    <2>1. CASE i = e + 1 BY <1>2, <2>1 DEF G
    <2>2. CASE i # e + 1
      <3>1. i \in a .. e /\ G[i] = H[i] BY <1>2, <1>3, <2>2
      <3>2. Sound(H[i], a, i, n) /\ Nested(H, n, max, i, j) BY <3>1 DEF Trail
      <3> QED BY <1>1, <1>2, <3>1, <3>2, NestedSame
    <2> QED BY <2>1, <2>2
  <1>7. \A i, k \in a .. e + 1 : i <= k => G[i].written \subseteq G[k].written
    <2> TAKE i, k \in a .. e + 1
    <2>0. HAVE i <= k
    <2>1. CASE k \in a .. e
      <3>1. i \in a .. e BY <1>1, <2>0, <2>1
      <3>2. H[i].written \subseteq H[k].written BY <2>0, <2>1, <3>1 DEF Trail
      <3> QED BY <1>2, <2>1, <3>1, <3>2
    <2>2. CASE k = e + 1 /\ i = e + 1 BY <2>2
    <2>3. CASE k = e + 1 /\ i \in a .. e
      <3>1. e \in a .. e /\ i <= e BY <1>1, <2>3
      <3>2. H[i].written \subseteq H[e].written BY <2>3, <3>1 DEF Trail
      <3> QED BY <1>2, <2>3, <3>2
    <2> QED BY <1>3, <2>1, <2>2, <2>3
  <1>8. G[a] = H[a] /\ e + 1 \in Nat /\ a <= e + 1 /\ e + 1 - 1 = e BY <1>1, <1>2
  <1>9. Trail(G, n, max, a, e + 1) BY <1>1, <1>4, <1>5, <1>6, <1>7, <1>8 DEF Trail
  <1> QED BY <1>2, <1>9 DEF G

\* A structure that stays open: nothing moves in the registers, and what is written lies behind
\* what was.
LEMMA NestedKept ==
  ASSUME NEW H, NEW n, NEW max, NEW a, NEW e, Trail(H, n, max, a, e), NEW s,
         NEW j \in DOMAIN H[e].frames, DOMAIN s.frames \subseteq Nat,
         j \in DOMAIN s.frames,
         \A h \in DOMAIN s.frames : h <= j => h \in DOMAIN H[e].frames /\ s.frames[h] = H[e].frames[h],
         s.layout.vpos = H[e].layout.vpos, s.layout.argc = H[e].layout.argc,
         \A w \in s.written : w \in H[e].written \/ (w.pos \in Nat /\ H[e].layout.pos <= w.pos)
  PROVE  Nested(Longer(H, a, e, s), n, max, e + 1, j)
  <1> DEFINE G == Longer(H, a, e, s)
             f == H[e].frames[j]
             b == f.node
  <1>1. a \in Nat \ {0} /\ e \in Nat /\ a <= e /\ e \in a .. e BY DEF Trail
  <1>2. G[e + 1] = s /\ \A k \in a .. e : G[k] = H[k] BY <1>1 DEF Longer
  <1>3. Sound(H[e], a, e, n) /\ Nested(H, n, max, e, j) BY <1>1 DEF Trail
  <1>4. /\ b \in a .. e - 1 /\ b \in Nat /\ f.start \in Nat /\ f.start <= H[e].layout.pos
        /\ H[e].layout.pos \in Nat
    <2>1. H[e].layout.pos \in Nat BY <1>3, SoundFacts
    <2>2. /\ b \in Nat /\ a <= b /\ b < e /\ f.start \in Nat /\ f.start <= H[e].layout.pos
      BY <1>3 DEF Sound
    <2> HIDE DEF b
    <2> QED BY <1>1, <2>1, <2>2
  <1>5. /\ IsDs(n, max, H[b], b) /\ Len(H[b].frames) = j - 1
        /\ f.left > 1 => f.start = H[b + 1].layout.pos
        /\ \A h \in DOMAIN H[e].frames : h < j => H[e].frames[h].node < b
        /\ \A k \in b + 1 .. e :
             /\ j \in DOMAIN H[k].frames /\ H[k].frames[j] = f
             /\ H[k].layout.vpos = H[e].layout.vpos /\ H[k].layout.argc = H[e].layout.argc
        /\ \A w \in H[e].written : w \in H[b].written \/ f.start <= w.pos
    BY <1>3 DEF Nested
  <1> HIDE DEF G, b
  <1>6. G[b] = H[b] /\ G[b + 1] = H[b + 1] BY <1>1, <1>2, <1>4
  <1>7. s.frames[j] = f BY <1>1
  <1>8. \A h \in DOMAIN s.frames : h < j => s.frames[h].node < b BY <1>5
  <1>9. ASSUME NEW k \in b + 1 .. e + 1
        PROVE  /\ j \in DOMAIN G[k].frames /\ G[k].frames[j] = f
               /\ G[k].layout.vpos = s.layout.vpos /\ G[k].layout.argc = s.layout.argc
    <2>1. CASE k = e + 1 BY <1>2, <1>7, <2>1
    <2>2. CASE k # e + 1
      <3>1. k \in b + 1 .. e /\ k \in a .. e BY <1>1, <1>4, <2>2
      <3> QED BY <1>2, <1>5, <3>1
    <2> QED BY <2>1, <2>2
  <1>10. ASSUME NEW w \in s.written PROVE w \in H[b].written \/ f.start <= w.pos
    <2>1. CASE w \in H[e].written BY <1>5, <2>1
    <2>2. CASE w.pos \in Nat /\ H[e].layout.pos <= w.pos BY <1>4, <2>2
    <2> QED BY <2>1, <2>2
  <1>11. /\ IsDs(n, max, G[b], b) /\ Len(G[b].frames) = j - 1
         /\ f.left > 1 => f.start = G[b + 1].layout.pos
         /\ \A h \in DOMAIN G[e + 1].frames : h < j => G[e + 1].frames[h].node < b
         /\ \A k \in b + 1 .. e + 1 :
              /\ j \in DOMAIN G[k].frames /\ G[k].frames[j] = f
              /\ G[k].layout.vpos = G[e + 1].layout.vpos /\ G[k].layout.argc = G[e + 1].layout.argc
         /\ \A w \in G[e + 1].written : w \in G[b].written \/ f.start <= w.pos
    BY <1>2, <1>5, <1>6, <1>8, <1>9, <1>10
  <1>12. G[e + 1].frames[j] = f BY <1>2, <1>7
  <1> HIDE DEF f
  <1>13. Nested(G, n, max, e + 1, j) BY <1>11, <1>12 DEF Nested, b
  <1> QED BY <1>13 DEF G

\* The vector grows with a parameter, whatever its kind.
LEMMA VposGrows ==
  ASSUME NEW l, Good(l), l.argc < MaxArgs, NEW by \in Kinds, NEW size \in Nat,
         by = "value" => size <= ValueMax
  PROVE  /\ VposAfter(l.vpos, l.argc, by, size) \in Nat
         /\ l.vpos <= VposAfter(l.vpos, l.argc, by, size)
         /\ by = "value" => l.vpos <= Aligned(l.vpos, size) /\ Aligned(l.vpos, size) \in Nat
  <1>1. /\ l.vpos \in Nat /\ l.argc \in Nat /\ l.vpos <= Register(l.argc + 1)
        /\ l.argc + 1 \in Nat
    BY GoodBounds
  <1>2. \A k \in Nat : Register(k) = 16 + 16 * k BY DEF Register, ArgvTop, Pointer
  <1>3. CASE by \in ByRef
    <2>1. VposAfter(l.vpos, l.argc, by, size) = Register(NextArgc(l.vpos, l.argc) + 1)
      BY <1>3 DEF VposAfter, ByRef
    <2>2. NextArgc(l.vpos, l.argc) \in {l.argc, l.argc + 1} BY DEF NextArgc
    <2>3. /\ NextArgc(l.vpos, l.argc) + 1 \in Nat
          /\ l.argc + 1 <= NextArgc(l.vpos, l.argc) + 1
      BY <1>1, <2>2
    <2>4. by # "value" BY <1>3 DEF ByRef
    <2> QED BY <1>1, <1>2, <2>1, <2>3, <2>4
  <1>4. CASE by = "value"
    <2>1. VposAfter(l.vpos, l.argc, by, size) = Aligned(l.vpos, size) + size
      BY <1>4 DEF VposAfter, ByRef
    <2>2. Aligned(l.vpos, size) \in Nat /\ l.vpos <= Aligned(l.vpos, size)
      BY <1>1, <1>4, AlignedBounds
    <2> QED BY <1>1, <2>1, <2>2
  <1>5. CASE by \notin ByRef /\ by # "value" BY <1>1, <1>5 DEF VposAfter
  <1> QED BY <1>3, <1>4, <1>5

\* What lies within a layout lies within a later one.
LEMMA LiesLater ==
  ASSUME NEW w, NEW l, NEW m, Lies(w, l), l.pos \in Nat, m.pos \in Nat, l.vpos \in Nat,
         m.vpos \in Nat, l.pos <= m.pos, l.vpos <= m.vpos
  PROVE  Lies(w, m)
  <1>1. SpillTop \in Nat BY Offsets
  <1> QED BY <1>1 DEF Lies

\* A parameter inside a structure is passed in it.
LEMMA ByFacts ==
  ASSUME NEW n, NEW s, NEW i, NEW size \in Nat
  PROVE  LET by == ByAt(n, s, i, size)
         IN  /\ by \in Kinds /\ (by = "value" => size <= ValueMax)
             /\ s.frames # <<>> => by = "in_ds"
             /\ by = "in_ds" => by # "value" /\ by \notin ByRef
  <1>1. (s.frames # <<>>) \in BOOLEAN OBVIOUS
  <1>2. s.frames # <<>> => ByAt(n, s, i, size) = "in_ds" BY DEF ByAt, By
  <1>3. "in_ds" # "value" /\ "in_ds" \notin ByRef BY DEF ByRef
  <1> QED BY <1>1, <1>2, <1>3, ByValueFits DEF ByAt

\* What a document says of a node.
Numbers(n, i) ==
  /\ DimOf(n[i]) \in Nat \ {0}
  /\ TypeOf(n[i]).len \in Int /\ TypeOf(n[i]).vary \in Nat

\* The first walk passes a node that places nothing.
LEMMA TrailPasses ==
  ASSUME NEW H, NEW n, NEW max, NEW a, NEW e, Trail(H, n, max, a, e),
         ~OverAt(n, max, H[e], e), ~IsData(n, max, H[e], e), ~IsDs(n, max, H[e], e),
         ~IsEnd(n, max, H[e], e)
  PROVE  \E G : Trail(G, n, max, a, e + 1) /\ G[e + 1] = H[e]
  <1> DEFINE s == H[e]
  <1>1. a \in Nat \ {0} /\ e \in Nat /\ a <= e /\ e \in a .. e BY DEF Trail
  <1>2. Sound(s, a, e, n) BY <1>1 DEF Trail
  <1>3. Sound(s, a, e + 1, n)
    <2>1. \A b \in Nat : b < e => b < e + 1 BY <1>1
    <2> HIDE DEF s
    <2> QED BY <1>2, <2>1 DEF Sound
  <1>4. StepOf(n, max, H[e], s, e) BY DEF StepOf
  <1>5. DOMAIN s.frames \subseteq Nat BY <1>2, ListFacts DEF Sound
  <1>6. ASSUME NEW j \in DOMAIN s.frames PROVE Nested(Longer(H, a, e, s), n, max, e + 1, j)
    BY <1>5, NestedKept
  <1> HIDE DEF s
  <1>7. Trail(Longer(H, a, e, s), n, max, a, e + 1) /\ Longer(H, a, e, s)[e + 1] = s
    BY <1>3, <1>4, <1>6, TrailExtends DEF s
  <1> QED BY <1>7 DEF s

\* The first walk places one value.
LEMMA TrailData ==
  ASSUME NEW H, NEW n, NEW max, NEW a, NEW e, Trail(H, n, max, a, e),
         ~OverAt(n, max, H[e], e), IsData(n, max, H[e], e), Numbers(n, e),
         NEW s, DataStep(n, H[e], s, e), Good(s.layout), s.layout.argc < MaxArgs
  PROVE  \E G : Trail(G, n, max, a, e + 1) /\ G[e + 1] = s
  <1> DEFINE r    == H[e]
             size == SizeAt(n, e)
             by   == ByAt(n, r, e, size)
             pos  == Where(r.layout, by, size)
             w0   == [node |-> e, pos |-> pos, data |-> Stored(TypeOf(n[e]), ValueOf(n[e]))]
  <1>1. a \in Nat \ {0} /\ e \in Nat /\ a <= e /\ e \in a .. e BY DEF Trail
  <1>2. Sound(r, a, e, n) BY <1>1 DEF Trail
  <1>3. /\ KnownType(TypeOf(n[e])) /\ s.layout = Added(r.layout, by, size)
        /\ s.frames = r.frames /\ s.written = r.written \cup {w0}
    BY DEF DataStep
  <1>4. size \in Nat /\ size # 0 BY <1>3, PositiveSize DEF Numbers, SizeAt
  <1> HIDE DEF r, size
  <1>5. /\ by \in Kinds /\ (by = "value" => size <= ValueMax)
        /\ r.frames # <<>> => by = "in_ds"
        /\ by = "in_ds" => by # "value" /\ by \notin ByRef
    BY <1>4, ByFacts
  <1>6. /\ r.layout.pos \in Nat /\ r.layout.vpos \in Nat /\ SpillTop \in Nat
        /\ r.layout.vpos <= SpillTop /\ SpillTop <= r.layout.pos
        /\ IsLayout(r.layout) /\ Good(r.layout) /\ r.layout.argc < MaxArgs
    BY <1>2, GoodBounds DEF Sound
  <1>7. /\ s.layout.pos \in Nat /\ s.layout.vpos \in Nat /\ s.layout.vpos <= SpillTop
    BY GoodBounds
  <1> HIDE DEF by
  <1>8. /\ IsLayout(s.layout)
        /\ s.layout.pos = IF by = "value" THEN r.layout.pos ELSE r.layout.pos + size
        /\ s.layout.vpos = VposAfter(r.layout.vpos, r.layout.argc, by, size)
        /\ s.layout.argc = ArgcAfter(r.layout.vpos, r.layout.argc, by, size)
    <2> DEFINE m == Added(r.layout, by, size)
    <2>1. /\ IsLayout(m)
          /\ m.pos = IF by = "value" THEN r.layout.pos ELSE r.layout.pos + size
          /\ m.vpos = VposAfter(r.layout.vpos, r.layout.argc, by, size)
          /\ m.argc = ArgcAfter(r.layout.vpos, r.layout.argc, by, size)
      BY <1>4, <1>5, <1>6, AddedMoves, ZenonT(60)
    <2> QED BY <1>3, <2>1
  <1>9. /\ r.layout.pos <= s.layout.pos /\ r.layout.vpos <= s.layout.vpos
        /\ by = "value" => r.layout.vpos <= pos /\ pos \in Nat /\ pos + size = s.layout.vpos
        /\ by # "value" => pos = r.layout.pos
    <2>1. r.layout.pos <= s.layout.pos BY <1>4, <1>6, <1>8
    <2>2. /\ r.layout.vpos <= s.layout.vpos
          /\ by = "value" => r.layout.vpos <= Aligned(r.layout.vpos, size)
                             /\ Aligned(r.layout.vpos, size) \in Nat
      BY <1>4, <1>5, <1>6, <1>8, VposGrows
    <2>3. by = "value" => pos = Aligned(r.layout.vpos, size) /\ pos + size = s.layout.vpos
      BY <1>8 DEF Where, VposAfter, ByRef
    <2>4. by # "value" => pos = r.layout.pos BY DEF Where
    <2> QED BY <2>1, <2>2, <2>3, <2>4
  <1> HIDE DEF pos
  <1>10. /\ pos \in Nat /\ Lies(w0, s.layout)
         /\ \A w \in r.written : w.pos # pos
    <2>1. w0.pos = pos /\ w0 = [node |-> w0.node, pos |-> w0.pos, data |-> w0.data] OBVIOUS
    <2>2. pos \in Nat BY <1>6, <1>9
    <2>3. (pos < SpillTop /\ pos < s.layout.vpos) \/ (SpillTop <= pos /\ pos < s.layout.pos)
      <3>1. CASE by = "value" BY <1>4, <1>6, <1>7, <1>9, <3>1
      <3>2. CASE by # "value" BY <1>4, <1>6, <1>7, <1>8, <1>9, <3>2
      <3> QED BY <3>1, <3>2
    <2>4. ASSUME NEW w \in r.written PROVE w.pos # pos
      <3>1. /\ w.pos \in Nat
            /\ (w.pos < SpillTop /\ w.pos < r.layout.vpos) \/ (SpillTop <= w.pos /\ w.pos < r.layout.pos)
        BY <1>2 DEF Sound, Lies
      <3>2. CASE by = "value" BY <1>4, <1>6, <1>7, <1>9, <3>1, <3>2
      <3>3. CASE by # "value" BY <1>6, <1>9, <3>1, <3>3
      <3> QED BY <3>2, <3>3
    <2> HIDE DEF w0
    <2> QED BY <2>1, <2>2, <2>3, <2>4 DEF Lies
  <1>11. w0.pos = pos OBVIOUS
  <1> HIDE DEF w0
  <1>12. \A w \in s.written : Lies(w, s.layout)
    <2> TAKE w \in s.written
    <2>1. CASE w = w0 BY <1>10, <2>1
    <2>2. CASE w \in r.written
      <3>1. Lies(w, r.layout) BY <1>2, <2>2 DEF Sound
      <3> QED BY <1>6, <1>7, <1>9, <3>1, LiesLater
    <2> QED BY <1>3, <2>1, <2>2
  <1>13. \A v, w \in s.written : v.pos = w.pos => v = w
    BY <1>2, <1>3, <1>10, <1>11 DEF Sound, Unique
  <1>14. Sound(s, a, e + 1, n)
    <2>1. \A b \in Nat : b < e => b < e + 1 BY <1>1
    <2>2. \A j \in DOMAIN s.frames :
            LET f == s.frames[j]
            IN  /\ f.node \in Nat /\ a <= f.node /\ f.node < e + 1 /\ f.left \in Nat \ {0} /\ f.left = DimOf(n[f.node])
                /\ f.start \in Nat /\ f.start <= s.layout.pos
                /\ f.left > 1 => SpillTop <= f.start
      BY <1>2, <1>3, <1>6, <1>7, <1>9, <2>1 DEF Sound
    <2>3. IsList(s.frames) BY <1>2, <1>3 DEF Sound
    <2> QED BY <1>8, <1>12, <1>13, <2>2, <2>3 DEF Sound, Unique
  <1>15. StepOf(n, max, H[e], s, e) BY DEF StepOf, IsData, IsDs, IsEnd, NodeIs
  <1>16. DOMAIN s.frames \subseteq Nat /\ (DOMAIN s.frames # {} => s.frames # <<>>)
    BY <1>2, <1>3, ListFacts DEF Sound
  <1>17. ASSUME NEW j \in DOMAIN s.frames PROVE Nested(Longer(H, a, e, s), n, max, e + 1, j)
    <2>1. by = "in_ds" BY <1>3, <1>5, <1>16
    <2>2. s.layout.vpos = r.layout.vpos /\ s.layout.argc = r.layout.argc
      BY <1>5, <1>8, <2>1 DEF VposAfter, ArgcAfter
    <2>3. \A w \in s.written : w \in r.written \/ (w.pos \in Nat /\ r.layout.pos <= w.pos)
      BY <1>3, <1>5, <1>6, <1>9, <1>11, <2>1
    <2> QED BY <1>3, <1>16, <2>2, <2>3, NestedKept DEF r
  <1>18. H[e].written \subseteq s.written BY <1>3 DEF r
  <1>19. Trail(Longer(H, a, e, s), n, max, a, e + 1) /\ Longer(H, a, e, s)[e + 1] = s
    BY <1>14, <1>15, <1>17, <1>18, TrailExtends
  <1> QED BY <1>19

\* A list and one frame more.
LEMMA GrownList ==
  ASSUME NEW s, IsList(s), NEW x
  PROVE  /\ IsList(Append(s, x)) /\ Len(s) \in Nat /\ Len(Append(s, x)) = Len(s) + 1
         /\ DOMAIN s = 1 .. Len(s) /\ DOMAIN Append(s, x) = 1 .. Len(s) + 1
         /\ \A i \in 1 .. Len(s) : Append(s, x)[i] = s[i]
         /\ Append(s, x)[Len(s) + 1] = x
  <1>1. PICK S : s \in Seq(S) BY DEF IsList
  <1>2. s \in Seq(S \cup {x}) BY <1>1
  <1>3. /\ Append(s, x) \in Seq(S \cup {x})
        /\ Len(s) \in Nat /\ DOMAIN s = 1 .. Len(s)
        /\ Len(Append(s, x)) = Len(s) + 1 /\ DOMAIN Append(s, x) = 1 .. Len(Append(s, x))
        /\ \A i \in 1 .. Len(s) : Append(s, x)[i] = s[i]
        /\ Append(s, x)[Len(s) + 1] = x
    BY <1>2, AppendProperties, LenProperties
  <1> QED BY <1>3 DEF IsList

\* A list and its last frame gone.
LEMMA ShrunkList ==
  ASSUME NEW s, IsList(s), s # <<>>
  PROVE  LET p == SubSeq(s, 1, Len(s) - 1)
         IN  /\ Len(s) \in Nat /\ Len(s) - 1 \in Nat /\ IsList(p) /\ Len(p) = Len(s) - 1
             /\ DOMAIN s = 1 .. Len(s) /\ DOMAIN p = 1 .. Len(s) - 1
             /\ \A i \in 1 .. Len(s) - 1 : p[i] = s[i]
  <1>1. PICK S : s \in Seq(S) BY DEF IsList
  <1>2. Len(s) \in Nat \ {0} /\ DOMAIN s = 1 .. Len(s) BY <1>1, EmptySeq, LenProperties
  <1> DEFINE p == SubSeq(s, 1, Len(s) - 1)
  <1>3. p = [i \in 1 .. Len(s) - 1 |-> s[i]] BY <1>1, <1>2
  <1>4. Len(s) - 1 \in Nat BY <1>2
  <1> HIDE DEF p
  <1>5. p = [i \in 1 .. Len(s) - 1 |-> p[i]] BY <1>3
  <1>6. IsList(p) /\ Len(p) = Len(s) - 1 BY <1>4, <1>5, ListOf
  <1> QED BY <1>2, <1>3, <1>4, <1>6 DEF p

\* A structure with several elements is not passed by value.
OneByValue(n, i) == AttrOr(n[i], "by", "") \in {"value", "const"} => DimOf(n[i]) = 1

\* The first walk enters a structure.
LEMMA TrailDs ==
  ASSUME NEW H, NEW n, NEW max, NEW a, NEW e, Trail(H, n, max, a, e),
         ~OverAt(n, max, H[e], e), IsDs(n, max, H[e], e), Numbers(n, e), OneByValue(n, e),
         NEW s, DsStep(n, H[e], s, e), Good(s.layout), s.layout.argc < MaxArgs
  PROVE  \E G : Trail(G, n, max, a, e + 1) /\ G[e + 1] = s
  <1> DEFINE r  == H[e]
             m  == Len(r.frames)
             by == ByAt(n, r, e, 0)
             f  == s.frames[Len(s.frames)]
  <1>1. a \in Nat \ {0} /\ e \in Nat /\ a <= e /\ e \in a .. e BY DEF Trail
  <1>2. Sound(r, a, e, n) BY <1>1 DEF Trail
  <1>3. /\ s.layout = Added(r.layout, by, 0) /\ s.written = r.written
        /\ s.frames = Append(r.frames, f)
        /\ f.node = e /\ f.left = DimOf(n[e]) /\ f.start = Where(r.layout, by, 0)
    BY DEF DsStep
  <1>4. /\ r.layout.pos \in Nat /\ r.layout.vpos \in Nat /\ SpillTop \in Nat
        /\ r.layout.vpos <= SpillTop /\ SpillTop <= r.layout.pos
        /\ IsLayout(r.layout) /\ Good(r.layout) /\ r.layout.argc < MaxArgs
        /\ IsList(r.frames)
    BY <1>2, SoundFacts
  <1>5. /\ s.layout.pos \in Nat /\ s.layout.vpos \in Nat /\ s.layout.vpos <= SpillTop
    BY GoodBounds
  <1>6. /\ by \in Kinds /\ (by = "value" => 0 <= ValueMax)
        /\ r.frames # <<>> => by = "in_ds"
        /\ by = "in_ds" => by # "value" /\ by \notin ByRef
    BY ByFacts
  <1>7. by = "value" => f.left = 1
    <2>1. by = "value" => AttrOr(n[e], "by", "") \in {"value", "const"} BY DEF ByAt, By
    <2> QED BY <1>3, <2>1 DEF OneByValue
  <1>8. f.left \in Nat \ {0} BY <1>3 DEF Numbers
  <1> HIDE DEF r, by, f
  <1>9. /\ IsLayout(s.layout) /\ s.layout.pos = r.layout.pos
        /\ s.layout.vpos = VposAfter(r.layout.vpos, r.layout.argc, by, 0)
        /\ s.layout.argc = ArgcAfter(r.layout.vpos, r.layout.argc, by, 0)
    <2> DEFINE z == 0
               k == Added(r.layout, by, z)
    <2>1. z \in Nat /\ r.layout.pos + z = r.layout.pos BY <1>4
    <2> HIDE DEF z
    <2>2. /\ IsLayout(k)
          /\ k.pos = IF by = "value" THEN r.layout.pos ELSE r.layout.pos + z
          /\ k.vpos = VposAfter(r.layout.vpos, r.layout.argc, by, z)
          /\ k.argc = ArgcAfter(r.layout.vpos, r.layout.argc, by, z)
      BY <1>4, <1>6, <2>1, AddedMoves
    <2> QED BY <1>3, <2>1, <2>2 DEF z
  <1>10. /\ r.layout.vpos <= s.layout.vpos
         /\ by = "value" => f.start = Aligned(r.layout.vpos, 0)
         /\ by # "value" => f.start = r.layout.pos
    BY <1>3, <1>4, <1>6, <1>9, VposGrows DEF Where
  <1>11. Aligned(r.layout.vpos, 0) = r.layout.vpos BY DEF Aligned
  <1>12. /\ f.start \in Nat /\ f.start <= s.layout.pos
         /\ f.left > 1 => f.start = r.layout.pos
    <2>1. CASE by = "value" BY <1>4, <1>7, <1>9, <1>10, <1>11, <2>1
    <2>2. CASE by # "value" BY <1>4, <1>9, <1>10, <2>2
    <2> QED BY <2>1, <2>2
  <1>13. /\ IsList(s.frames) /\ m \in Nat /\ Len(s.frames) = m + 1
         /\ DOMAIN r.frames = 1 .. m /\ DOMAIN s.frames = 1 .. m + 1
         /\ \A j \in 1 .. m : s.frames[j] = r.frames[j]
         /\ s.frames[m + 1] = f
    BY <1>3, <1>4, GrownList
  <1> HIDE DEF m
  <1>14. \A j \in DOMAIN s.frames : j = m + 1 \/ (j \in DOMAIN r.frames /\ s.frames[j] = r.frames[j])
    BY <1>13
  <1>15. Sound(s, a, e + 1, n)
    <2>1. ASSUME NEW j \in DOMAIN s.frames
          PROVE LET g == s.frames[j]
                IN  /\ g.node \in Nat /\ a <= g.node /\ g.node < e + 1
                    /\ g.left \in Nat \ {0} /\ g.left = DimOf(n[g.node])
                    /\ g.start \in Nat /\ g.start <= s.layout.pos
                    /\ g.left > 1 => SpillTop <= g.start
      <3>1. CASE j = m + 1
        <4>1. s.frames[j] = f BY <1>13, <3>1
        <4>2. f.node = e /\ f.left = DimOf(n[e]) /\ f.left \in Nat \ {0} BY <1>3, <1>8
        <4>3. e \in Nat /\ a <= e /\ e < e + 1 BY <1>1
        <4>4. f.left > 1 => SpillTop <= f.start BY <1>4, <1>12
        <4> QED BY <1>12, <4>1, <4>2, <4>3, <4>4
      <3>2. CASE j \in DOMAIN r.frames /\ s.frames[j] = r.frames[j]
        <4> DEFINE g == r.frames[j]
        <4>1. /\ g.node \in Nat /\ a <= g.node /\ g.node < e /\ g.left \in Nat \ {0}
              /\ g.left = DimOf(n[g.node]) /\ g.start \in Nat /\ g.start <= r.layout.pos
              /\ g.left > 1 => SpillTop <= g.start
          BY <1>2, <3>2 DEF Sound
        <4> HIDE DEF g
        <4>2. g.node < e + 1 BY <1>1, <4>1
        <4> QED BY <1>9, <3>2, <4>1, <4>2 DEF g
      <3> QED BY <1>14, <3>1, <3>2
    <2>2. \A w \in s.written : Lies(w, s.layout)
      <3> TAKE w \in s.written
      <3>1. Lies(w, r.layout) BY <1>2, <1>3 DEF Sound
      <3>2. r.layout.pos <= s.layout.pos BY <1>4, <1>9
      <3> QED BY <1>4, <1>5, <1>10, <3>1, <3>2, LiesLater
    <2>3. Unique(s.written) BY <1>2, <1>3 DEF Sound
    <2> QED BY <1>9, <1>13, <2>1, <2>2, <2>3 DEF Sound
  <1>16. StepOf(n, max, H[e], s, e) BY DEF StepOf, IsData, IsDs, IsEnd, NodeIs
  <1> DEFINE G == Longer(H, a, e, s)
  <1>17. G[e + 1] = s /\ \A k \in a .. e : G[k] = H[k] BY <1>1 DEF Longer
  <1>18. ASSUME NEW j \in DOMAIN s.frames PROVE Nested(G, n, max, e + 1, j)
    <2>1. CASE j = m + 1
      <3>1. G[e] = r BY <1>1, <1>17 DEF r
      <3> HIDE DEF G
      <3>2. IsDs(n, max, G[e], e) /\ Len(G[e].frames) = j - 1
        BY <1>13, <2>1, <3>1 DEF r, m
      <3>3. f.left > 1 => f.start = G[e + 1].layout.pos BY <1>9, <1>12, <1>17
      <3>4. \A h \in DOMAIN G[e + 1].frames : h < j => G[e + 1].frames[h].node < e
        <4>1. \A h \in DOMAIN s.frames : h < j => h \in DOMAIN r.frames /\ s.frames[h] = r.frames[h]
          BY <1>13, <2>1
        <4> QED BY <1>2, <1>17, <4>1 DEF Sound
      <3>5. \A k \in e + 1 .. e + 1 :
              /\ j \in DOMAIN G[k].frames /\ G[k].frames[j] = f
              /\ G[k].layout.vpos = G[e + 1].layout.vpos /\ G[k].layout.argc = G[e + 1].layout.argc
        <4>1. \A k \in e + 1 .. e + 1 : k = e + 1 BY <1>1
        <4> QED BY <1>13, <1>17, <2>1, <4>1
      <3>6. \A w \in G[e + 1].written : w \in G[e].written \/ f.start <= w.pos BY <1>3, <1>17, <3>1
      <3>7. G[e + 1].frames[j] = f /\ f.node = e BY <1>3, <1>13, <1>17, <2>1
      <3> QED BY <3>2, <3>3, <3>4, <3>5, <3>6, <3>7 DEF Nested
    <2>2. CASE j \in DOMAIN r.frames
      <3>1. r.frames # <<>> BY <1>4, <2>2, SoundFacts
      <3>2. s.layout.vpos = r.layout.vpos /\ s.layout.argc = r.layout.argc
        BY <1>6, <1>9, <3>1 DEF VposAfter, ArgcAfter
      <3>3. \A h \in DOMAIN s.frames : h <= j => h \in DOMAIN r.frames /\ s.frames[h] = r.frames[h]
        BY <1>13, <2>2
      <3>4. DOMAIN s.frames \subseteq Nat BY <1>13
      <3> QED BY <1>3, <2>2, <3>2, <3>3, <3>4, NestedKept DEF r
    <2> QED BY <1>14, <2>1, <2>2
  <1>19. H[e].written \subseteq s.written BY <1>3 DEF r
  <1>20. Trail(G, n, max, a, e + 1) /\ G[e + 1] = s
    BY <1>15, <1>16, <1>18, <1>19, TrailExtends
  <1> QED BY <1>20

\* The copies of the values from start to stop lie from there on, no two at one place.
LEMMA CopiesFacts ==
  ASSUME NEW of, NEW start \in Nat, NEW stop \in Nat, start <= stop,
         NEW len, len = stop - start, NEW dim \in Nat \ {0}, NEW rest, rest = (dim - 1) * len,
         Between(of, start, stop), Unique(of)
  PROVE  /\ rest \in Nat
         /\ Between(CopiesOf(of, len, dim), stop, stop + rest)
         /\ Unique(CopiesOf(of, len, dim))
  <1> DEFINE Far(k)   == k * len
             CopyOf(v, k) == Shift(v, Far(k))
             K        == 1 .. dim - 1
  <1>0. /\ len \in Nat /\ start + len = stop
        /\ \A v \in of : v = [node |-> v.node, pos |-> v.pos, data |-> v.data]
                         /\ v.pos \in Nat /\ start <= v.pos /\ v.pos < start + len
    BY DEF Between
  <1>1. CopiesOf(of, len, dim) = {CopyOf(v, k) : v \in of, k \in K}
    BY DEF CopiesOf, Shift
  <1>2. rest \in Nat
    <2>1. dim - 1 \in Nat BY SMT
    <2> QED BY <1>0, <2>1
  <1>3. ASSUME NEW k \in K
        PROVE  k \in Nat /\ Far(k) \in Nat /\ len <= Far(k) /\ Far(k) <= rest
    <2>1. k \in Nat /\ 0 < k /\ k < dim /\ dim \in Nat /\ 0 \in Nat OBVIOUS
    <2>2. k * len \in Nat /\ len <= k * len BY <1>0, <2>1, Products
    <2>3. k - 1 \in Nat /\ dim - 1 \in Nat /\ k - 1 < dim - 1 /\ (k - 1) + 1 = k BY <2>1
    <2>4. (k - 1 + 1) * len <= (dim - 1) * len BY <1>0, <2>3, Products
    <2> QED BY <2>1, <2>2, <2>3, <2>4
  <1>4. ASSUME NEW j \in K, NEW k \in K, j < k PROVE Far(j) + len <= Far(k)
    <2>1. j \in Nat /\ k \in Nat OBVIOUS
    <2> QED BY <1>0, <1>4, <2>1, Products
  <1>5. \A j, k \in K : ~(j < k) /\ ~(k < j) => j = k OBVIOUS
  <1> HIDE DEF Far, K
  <1>6. ASSUME NEW v \in of, NEW k \in K
        PROVE  /\ CopyOf(v, k) = [node |-> v.node, pos |-> v.pos + Far(k), data |-> v.data]
               /\ CopyOf(v, k).pos = v.pos + Far(k)
    BY <1>0, <1>3, ShiftFacts
  <1> HIDE DEF CopyOf
  <1>7. ASSUME NEW v \in of, NEW k \in K
        PROVE  LET w == CopyOf(v, k)
               IN  /\ w = [node |-> w.node, pos |-> w.pos, data |-> w.data] /\ w.pos \in Nat
                   /\ start + len <= w.pos /\ w.pos < start + len + rest
    <2> DEFINE w == CopyOf(v, k)
    <2>1. w = [node |-> v.node, pos |-> v.pos + Far(k), data |-> v.data] /\ w.pos = v.pos + Far(k)
      BY <1>6
    <2>2. Far(k) \in Nat /\ len <= Far(k) /\ Far(k) <= rest BY <1>3
    <2> HIDE DEF w
    <2>3. /\ w.pos \in Nat /\ start + len <= w.pos /\ w.pos < start + len + rest
      BY <1>0, <1>2, <2>1, <2>2
    <2>4. w = [node |-> w.node, pos |-> w.pos, data |-> w.data] BY <2>1
    <2> QED BY <2>3, <2>4 DEF w
  <1>8. ASSUME NEW v \in of, NEW j \in K, NEW w \in of, NEW k \in K,
               CopyOf(v, j).pos = CopyOf(w, k).pos
        PROVE  ~(j < k)
    <2> SUFFICES ASSUME j < k PROVE FALSE OBVIOUS
    <2>1. Far(j) \in Nat /\ Far(k) \in Nat /\ Far(j) + len <= Far(k) BY <1>3, <1>4
    <2>2. v.pos + Far(j) = w.pos + Far(k) BY <1>6, <1>8
    <2>3. v.pos < start + len /\ start <= w.pos /\ v.pos \in Nat /\ w.pos \in Nat BY <1>0
    <2> QED BY <1>0, <2>1, <2>2, <2>3
  <1>9. ASSUME NEW v \in of, NEW j \in K, NEW w \in of, NEW k \in K,
               CopyOf(v, j).pos = CopyOf(w, k).pos
        PROVE  CopyOf(v, j) = CopyOf(w, k)
    <2>1. j = k
      <3>1. ~(j < k) /\ ~(k < j) BY <1>8, <1>9
      <3> QED BY <1>5, <3>1
    <2>2. v.pos + Far(j) = w.pos + Far(j) /\ Far(j) \in Nat BY <1>3, <1>6, <1>9, <2>1
    <2>3. v.pos \in Nat /\ w.pos \in Nat BY <1>0
    <2>4. v.pos = w.pos BY <2>2, <2>3
    <2>5. v = w BY <2>4 DEF Unique
    <2> QED BY <2>1, <2>5
  <1>10. ASSUME NEW w \in CopiesOf(of, len, dim)
         PROVE  /\ w = [node |-> w.node, pos |-> w.pos, data |-> w.data] /\ w.pos \in Nat
                /\ start + len <= w.pos /\ w.pos < start + len + rest
    <2>1. PICK v \in of, k \in K : w = CopyOf(v, k) BY <1>1
    <2> QED BY <1>7, <2>1
  <1>11. ASSUME NEW v \in CopiesOf(of, len, dim), NEW w \in CopiesOf(of, len, dim), v.pos = w.pos
         PROVE  v = w
    <2>1. PICK x \in of, j \in K : v = CopyOf(x, j) BY <1>1
    <2>2. PICK y \in of, k \in K : w = CopyOf(y, k) BY <1>1
    <2> QED BY <1>9, <1>11, <2>1, <2>2
  <1> QED BY <1>0, <1>2, <1>10, <1>11 DEF Between, Unique

\* The first walk leaves a structure and copies what lies in it.
LEMMA TrailEnd ==
  ASSUME NEW H, NEW n, NEW max, NEW a, NEW e, Trail(H, n, max, a, e),
         ~OverAt(n, max, H[e], e), IsEnd(n, max, H[e], e),
         NEW s, EndStep(H[e], s), Good(s.layout), s.layout.argc < MaxArgs
  PROVE  \E G : Trail(G, n, max, a, e + 1) /\ G[e + 1] = s
  <1> DEFINE r     == H[e]
             m     == Len(r.frames)
             f     == r.frames[m]
             start == f.start
             dim   == f.left
             len   == r.layout.pos - start
             of    == {w \in r.written : w.pos >= start /\ w.pos < r.layout.pos}
             more  == CopiesOf(of, len, dim)
  <1>1. a \in Nat \ {0} /\ e \in Nat /\ a <= e /\ e \in a .. e BY DEF Trail
  <1>2. Sound(r, a, e, n) BY <1>1 DEF Trail
  <1>3. /\ s.layout = Copied(r.layout, len, dim) /\ s.written = r.written \cup more
        /\ s.frames = SubSeq(r.frames, 1, m - 1)
    BY DEF EndStep
  <1>4. /\ r.layout.pos \in Nat /\ r.layout.vpos \in Nat /\ SpillTop \in Nat
        /\ r.layout.vpos <= SpillTop /\ SpillTop <= r.layout.pos
        /\ IsLayout(r.layout) /\ IsList(r.frames) /\ r.frames # <<>> /\ m \in DOMAIN r.frames
    BY <1>2, SoundFacts DEF IsEnd
  <1>5. s.layout.pos \in Nat /\ s.layout.vpos \in Nat BY GoodBounds
  <1>6. start \in Nat /\ dim \in Nat \ {0} /\ start <= r.layout.pos /\ (dim > 1 => SpillTop <= start)
    BY <1>2, <1>4 DEF Sound
  <1>7. /\ m \in Nat /\ m - 1 \in Nat /\ IsList(s.frames)
        /\ DOMAIN r.frames = 1 .. m /\ DOMAIN s.frames = 1 .. m - 1
        /\ \A j \in 1 .. m - 1 : s.frames[j] = r.frames[j]
    BY <1>3, <1>4, ShrunkList, ZenonT(60)
  <1> HIDE DEF m
  <1>8. \A j \in DOMAIN s.frames : j \in Nat /\ j \in DOMAIN r.frames /\ s.frames[j] = r.frames[j]
    BY <1>7
  <1> HIDE DEF r, start, dim
  <1>9. len \in Nat /\ len = r.layout.pos - start BY <1>4, <1>6
  <1>10. Between(of, start, r.layout.pos)
    <2> SUFFICES ASSUME NEW v \in of
                 PROVE  /\ v = [node |-> v.node, pos |-> v.pos, data |-> v.data]
                        /\ v.pos \in Nat /\ start <= v.pos /\ v.pos < r.layout.pos
      BY DEF Between
    <2>1. v \in r.written /\ v.pos >= start /\ v.pos < r.layout.pos OBVIOUS
    <2>2. Lies(v, r.layout) BY <1>2, <2>1 DEF Sound
    <2>3. v = [node |-> v.node, pos |-> v.pos, data |-> v.data] /\ v.pos \in Nat BY <2>2 DEF Lies
    <2>4. start <= v.pos BY <1>6, <2>1, <2>3
    <2> QED BY <2>1, <2>3, <2>4
  <1>11. Unique(of) BY <1>2 DEF Sound, Unique
  <1> HIDE DEF len, of
  <1> DEFINE rest == (dim - 1) * len
  <1>12. /\ IsLayout(s.layout) /\ s.layout.argc = r.layout.argc /\ s.layout.vpos = r.layout.vpos
         /\ s.layout.pos = r.layout.pos + rest
    <2>1. r.layout.pos \in Int /\ len \in Int BY <1>4, <1>9
    <2> QED BY <1>3, <1>4, <1>6, <2>1, CopiedFacts
  <1>0. rest = (dim - 1) * len OBVIOUS
  <1> HIDE DEF rest
  <1>13. rest \in Nat /\ Between(more, r.layout.pos, r.layout.pos + rest) /\ Unique(more)
    BY <1>0, <1>4, <1>6, <1>9, <1>10, <1>11, CopiesFacts
  <1> HIDE DEF more
  <1>15. r.layout.pos <= s.layout.pos BY <1>4, <1>12, <1>13
  <1>17. \A w \in more : /\ w = [node |-> w.node, pos |-> w.pos, data |-> w.data]
                         /\ w.pos \in Nat /\ r.layout.pos <= w.pos /\ w.pos < s.layout.pos
                         /\ SpillTop <= w.pos
    <2> TAKE w \in more
    <2>1. w = [node |-> w.node, pos |-> w.pos, data |-> w.data] /\ w.pos \in Nat
      BY <1>13 DEF Between
    <2>2. r.layout.pos <= w.pos BY <1>13 DEF Between
    <2>3. w.pos < s.layout.pos BY <1>12, <1>13 DEF Between
    <2>4. SpillTop <= w.pos BY <1>4, <2>1, <2>2
    <2> QED BY <2>1, <2>2, <2>3, <2>4
  <1>18. \A w \in s.written : Lies(w, s.layout)
    <2> TAKE w \in s.written
    <2>1. CASE w \in r.written
      <3>1. Lies(w, r.layout) BY <1>2, <2>1 DEF Sound
      <3>2. r.layout.vpos <= s.layout.vpos BY <1>4, <1>12
      <3> QED BY <1>4, <1>5, <1>15, <3>1, <3>2, LiesLater
    <2>2. CASE w \in more BY <1>17, <2>2 DEF Lies
    <2> QED BY <1>3, <2>1, <2>2
  <1>19. Unique(s.written)
    <2>1. ASSUME NEW v \in r.written, NEW w \in more PROVE v.pos # w.pos
      <3>1. /\ v.pos \in Nat
            /\ (v.pos < SpillTop /\ v.pos < r.layout.vpos) \/ (SpillTop <= v.pos /\ v.pos < r.layout.pos)
        BY <1>2 DEF Sound, Lies
      <3>2. w.pos \in Nat /\ r.layout.pos <= w.pos BY <1>17
      <3> QED BY <1>4, <3>1, <3>2
    <2>2. Unique(r.written) BY <1>2 DEF Sound
    <2>3. s.written = r.written \cup more BY <1>3
    <2> QED BY <1>13, <2>1, <2>2, <2>3 DEF Unique
  <1>20. Sound(s, a, e + 1, n)
    <2>1. ASSUME NEW j \in DOMAIN s.frames
          PROVE LET g == s.frames[j]
                IN  /\ g.node \in Nat /\ a <= g.node /\ g.node < e + 1
                    /\ g.left \in Nat \ {0} /\ g.left = DimOf(n[g.node])
                    /\ g.start \in Nat /\ g.start <= s.layout.pos
                    /\ g.left > 1 => SpillTop <= g.start
      <3>1. \A b \in Nat : b < e => b < e + 1 BY <1>1
      <3>2. \A b \in Nat : b <= r.layout.pos => b <= s.layout.pos BY <1>4, <1>5, <1>15
      <3> QED BY <1>2, <1>8, <3>1, <3>2 DEF Sound
    <2> QED BY <1>7, <1>12, <1>18, <1>19, <2>1 DEF Sound
  <1>21. StepOf(n, max, H[e], s, e) BY DEF StepOf, IsData, IsDs, IsEnd, NodeIs
  <1>22. ASSUME NEW j \in DOMAIN s.frames PROVE Nested(Longer(H, a, e, s), n, max, e + 1, j)
    <2>1. \A h \in DOMAIN s.frames : h <= j => h \in DOMAIN r.frames /\ s.frames[h] = r.frames[h]
      BY <1>8
    <2>2. DOMAIN s.frames \subseteq Nat BY <1>8
    <2>3. \A w \in s.written : w \in r.written \/ (w.pos \in Nat /\ r.layout.pos <= w.pos)
      BY <1>3, <1>17
    <2> QED BY <1>8, <1>12, <2>1, <2>2, <2>3, NestedKept DEF r
  <1>23. H[e].written \subseteq s.written BY <1>3 DEF r
  <1>24. Trail(Longer(H, a, e, s), n, max, a, e + 1) /\ Longer(H, a, e, s)[e + 1] = s
    BY <1>20, <1>21, <1>22, <1>23, TrailExtends
  <1> QED BY <1>24

-----------------------------------------------------------------------------
(* What is open when in the first walk                                       *)

\* Where the structure at depth j began, and what has been so since.
OpenedAt(H, n, max, a, e, i, j) ==
  LET f == H[i].frames[j]
      b == f.node
  IN  /\ j \in Nat /\ 1 <= j /\ j <= Len(H[i].frames)
      /\ i \in Nat /\ b \in Nat /\ a <= b /\ b < i /\ b \in a .. e /\ b + 1 \in a .. e
      /\ IsDs(n, max, H[b], b) /\ Len(H[b].frames) = j - 1
      /\ DOMAIN H[b].frames = 1 .. j - 1
      /\ DsStep(n, H[b], H[b + 1], b)
      /\ Len(H[b + 1].frames) = j /\ DOMAIN H[b + 1].frames = 1 .. j
      /\ H[b + 1].frames[j] = f
      /\ f.left > 1 => f.start = H[b + 1].layout.pos
      /\ f.left \in Nat \ {0} /\ f.start \in Nat /\ f.start <= H[i].layout.pos
      /\ f.left > 1 => SpillTop <= f.start
      /\ \A k \in b + 1 .. i :
           /\ j \in DOMAIN H[k].frames /\ H[k].frames[j] = f
           /\ H[k].layout.vpos = H[i].layout.vpos /\ H[k].layout.argc = H[i].layout.argc
      /\ \A w \in H[i].written : w \in H[b].written \/ f.start <= w.pos
      /\ \A h \in 1 .. j - 1 : /\ h \in DOMAIN H[i].frames
                               /\ H[b].frames[h] = H[i].frames[h]
                               /\ H[b + 1].frames[h] = H[i].frames[h]

\* So it is with every structure open in a first walk.
LEMMA OpenFacts ==
  ASSUME NEW H, NEW n, NEW max, NEW a, NEW e, Trail(H, n, max, a, e), NEW i \in a .. e,
         NEW j \in DOMAIN H[i].frames
  PROVE  OpenedAt(H, n, max, a, e, i, j)
  <1> DEFINE f == H[i].frames[j]
             b == f.node
  <1>1. a \in Nat \ {0} /\ e \in Nat /\ a <= e /\ i \in Nat /\ a <= i /\ i <= e BY DEF Trail
  <1>2. Sound(H[i], a, i, n) /\ Nested(H, n, max, i, j) BY DEF Trail
  <1>3. Len(H[i].frames) \in Nat /\ DOMAIN H[i].frames = 1 .. Len(H[i].frames) BY <1>2, SoundFacts
  <1>4. /\ b \in Nat /\ a <= b /\ b < i /\ f.left \in Nat \ {0} /\ f.start \in Nat
        /\ f.start <= H[i].layout.pos /\ (f.left > 1 => SpillTop <= f.start)
    BY <1>2 DEF Sound
  <1>5. /\ IsDs(n, max, H[b], b) /\ Len(H[b].frames) = j - 1
        /\ f.left > 1 => f.start = H[b + 1].layout.pos
        /\ \A h \in DOMAIN H[i].frames : h < j => H[i].frames[h].node < b
        /\ \A k \in b + 1 .. i :
             /\ j \in DOMAIN H[k].frames /\ H[k].frames[j] = f
             /\ H[k].layout.vpos = H[i].layout.vpos /\ H[k].layout.argc = H[i].layout.argc
        /\ \A w \in H[i].written : w \in H[b].written \/ f.start <= w.pos
    BY <1>2 DEF Nested
  <1> HIDE DEF b
  <1>6. j \in Nat /\ 1 <= j /\ j <= Len(H[i].frames) BY <1>3
  <1>7. b \in a .. e /\ b + 1 \in a .. e /\ b \in a .. e - 1 /\ b + 1 \in b + 1 .. i BY <1>1, <1>4
  <1>8. Sound(H[b], a, b, n) /\ Sound(H[b + 1], a, b + 1, n) /\ StepOf(n, max, H[b], H[b + 1], b)
    BY <1>7 DEF Trail
  <1>9. DsStep(n, H[b], H[b + 1], b) BY <1>5, <1>8 DEF StepOf
  <1>10. DOMAIN H[b].frames = 1 .. j - 1 BY <1>5, <1>8, SoundFacts
  <1>11. /\ Len(H[b + 1].frames) = j /\ DOMAIN H[b + 1].frames = 1 .. j
         /\ \A h \in 1 .. j - 1 : H[b + 1].frames[h] = H[b].frames[h]
    <2>1. \E x : H[b + 1].frames = Append(H[b].frames, x) BY <1>9 DEF DsStep
    <2>2. IsList(H[b].frames) BY <1>8, SoundFacts
    <2>3. j - 1 + 1 = j BY <1>6
    <2> QED BY <1>5, <2>1, <2>2, <2>3, GrownList
  <1>12. ASSUME NEW h \in 1 .. j - 1
         PROVE  /\ h \in DOMAIN H[i].frames
                /\ H[b].frames[h] = H[i].frames[h] /\ H[b + 1].frames[h] = H[i].frames[h]
    <2>1. h \in DOMAIN H[i].frames /\ h < j BY <1>3, <1>6
    <2> DEFINE g == H[i].frames[h]
               c == g.node
    <2>2. c \in Nat BY <1>2, <2>1 DEF Sound
    <2>3. c < b BY <1>5, <2>1
    <2>4. Nested(H, n, max, i, h) BY <2>1 DEF Trail
    <2>5. \A k \in c + 1 .. i : H[k].frames[h] = g BY <2>4 DEF Nested
    <2> HIDE DEF g, c
    <2>6. b \in c + 1 .. i BY <1>1, <1>4, <2>2, <2>3
    <2>7. H[b].frames[h] = g BY <2>5, <2>6
    <2> QED BY <1>11, <2>1, <2>7 DEF g
  <1>13. H[b + 1].frames[j] = f BY <1>5, <1>7
  <1> HIDE DEF f
  <1> QED BY <1>1, <1>4, <1>5, <1>6, <1>7, <1>9, <1>10, <1>11, <1>12, <1>13 DEF OpenedAt, f, b

\* An open structure is the same, and the registers too, since it began.
LEMMA OpenSince ==
  ASSUME NEW H, NEW n, NEW max, NEW a, NEW e, Trail(H, n, max, a, e), NEW i \in a .. e,
         NEW j \in DOMAIN H[i].frames, NEW k \in H[i].frames[j].node + 1 .. i
  PROVE  /\ j \in DOMAIN H[k].frames /\ H[k].frames[j] = H[i].frames[j]
         /\ H[k].layout.vpos = H[i].layout.vpos /\ H[k].layout.argc = H[i].layout.argc
  <1>1. Nested(H, n, max, i, j) BY DEF Trail
  <1> QED BY <1>1 DEF Nested

\* A value was written before an open structure began, or lies behind its start.
LEMMA OpenOver ==
  ASSUME NEW H, NEW n, NEW max, NEW a, NEW e, Trail(H, n, max, a, e), NEW i \in a .. e,
         NEW j \in DOMAIN H[i].frames, NEW w \in H[i].written
  PROVE  w \in H[H[i].frames[j].node].written \/ H[i].frames[j].start <= w.pos
  <1>1. Nested(H, n, max, i, j) BY DEF Trail
  <1> QED BY <1>1 DEF Nested

\* A structure is inside the same ones wherever it is open.
LEMMA InsideWhere ==
  ASSUME NEW H, NEW n, NEW max, NEW a, NEW e, Trail(H, n, max, a, e), NEW i \in a .. e,
         NEW j \in DOMAIN H[i].frames, NEW b, b = H[i].frames[j].node
  PROVE  \A h \in 1 .. j - 1 : h \in DOMAIN H[i].frames /\ H[i].frames[h] = H[b].frames[h]
  <1>1. OpenedAt(H, n, max, a, e, i, j) BY OpenFacts
  <1> QED BY <1>1 DEF OpenedAt

\* Snapshots that share a frame share every frame around it.
LEMMA SameAround ==
  ASSUME NEW H, NEW n, NEW max, NEW a, NEW e, Trail(H, n, max, a, e), NEW i \in a .. e,
         NEW j \in DOMAIN H[i].frames, NEW k \in a .. e, j \in DOMAIN H[k].frames,
         H[k].frames[j] = H[i].frames[j]
  PROVE  \A h \in 1 .. j - 1 : h \in DOMAIN H[k].frames /\ H[k].frames[h] = H[i].frames[h]
  <1> DEFINE b == H[i].frames[j].node
  <1>1. b = H[i].frames[j].node /\ b = H[k].frames[j].node OBVIOUS
  <1> HIDE DEF b
  <1>2. \A h \in 1 .. j - 1 : H[i].frames[h] = H[b].frames[h] BY <1>1, InsideWhere
  <1>3. \A h \in 1 .. j - 1 : h \in DOMAIN H[k].frames /\ H[k].frames[h] = H[b].frames[h]
    BY <1>1, InsideWhere
  <1> QED BY <1>2, <1>3

\* The structures open begin one behind the other.
LEMMA StartsOrdered ==
  ASSUME NEW H, NEW n, NEW max, NEW a, NEW e, Trail(H, n, max, a, e), NEW i \in a .. e,
         NEW j \in DOMAIN H[i].frames
  PROVE  From(H[i].frames, j - 1) <= H[i].frames[j].start
  <1> DEFINE f == H[i].frames[j]
             b == f.node
             r == H[b]
             by == ByAt(n, r, b, 0)
  <1>1. /\ j \in Nat /\ 1 <= j /\ b \in a .. e /\ DsStep(n, r, H[b + 1], b)
        /\ DOMAIN r.frames = 1 .. j - 1 /\ Len(H[b + 1].frames) = j
        /\ H[b + 1].frames[j] = f /\ f.start \in Nat
        /\ \A h \in 1 .. j - 1 : r.frames[h] = H[i].frames[h]
    <2>1. OpenedAt(H, n, max, a, e, i, j) BY OpenFacts
    <2> QED BY <2>1 DEF OpenedAt
  <1> HIDE DEF r, b, by
  <1>2. CASE j = 1
    <2>1. j - 1 = 0 /\ 0 <= f.start BY <1>1, <1>2
    <2> HIDE DEF f
    <2>2. From(H[i].frames, 0) = 0 BY DEF From
    <2> QED BY <2>1, <2>2 DEF f
  <1> USE DEF r, b, by
  <1>3. CASE j # 1
    <2>1. j - 1 \in DOMAIN r.frames /\ j - 1 # 0
      <3>1. j \in Nat /\ 1 <= j /\ DOMAIN r.frames = 1 .. j - 1 BY <1>1
      <3> HIDE DEF r
      <3> QED BY <1>3, <3>1
    <2>2. Sound(r, a, b, n) BY <1>1 DEF Trail
    <2>3. r.frames # <<>>
      <3>1. Len(r.frames) \in Nat /\ DOMAIN r.frames = 1 .. Len(r.frames)
            /\ (r.frames = <<>> => Len(r.frames) = 0)
        BY <2>2, SoundFacts
      <3> QED BY <2>1, <3>1
    <2>4. by = "in_ds" /\ by # "value" BY <2>3, ByFacts
    <2>5. f.start = Where(r.layout, by, 0) BY <1>1 DEF DsStep
    <2>6. f.start = r.layout.pos BY <2>4, <2>5 DEF Where
    <2>7. r.frames[j - 1].start <= r.layout.pos BY <2>1, <2>2 DEF Sound
    <2>8. r.frames[j - 1] = H[i].frames[j - 1] BY <1>1, <2>1
    <2> QED BY <2>1, <2>6, <2>7, <2>8 DEF From
  <1> QED BY <1>2, <1>3

\* A structure ends once.
LEMMA EndsOnce ==
  ASSUME NEW H, NEW n, NEW max, NEW a, NEW e, Trail(H, n, max, a, e), NEW i \in a .. e,
         NEW j \in DOMAIN H[i].frames, NEW c, EndsAt(H, n, max, e, c, j, H[i].frames[j])
  PROVE  /\ c \in a .. e /\ c \in Nat /\ c + 1 \in a .. e /\ i <= c
         /\ EndStep(H[c], H[c + 1]) /\ Len(H[c].frames) = j /\ H[c].frames[j] = H[i].frames[j]
         /\ Len(H[c + 1].frames) = j - 1 /\ DOMAIN H[c + 1].frames = 1 .. j - 1
         /\ \A h \in 1 .. j - 1 : H[c + 1].frames[h] = H[i].frames[h]
  <1> DEFINE f == H[i].frames[j]
             b == f.node
  <1>1. a \in Nat \ {0} /\ e \in Nat /\ a <= e BY DEF Trail
  <1>0. OpenedAt(H, n, max, a, e, i, j) BY OpenFacts
  <1>2. b \in Nat /\ a <= b /\ j \in Nat /\ 1 <= j /\ i \in Nat BY <1>0 DEF OpenedAt
  <1>3. /\ c \in b + 1 .. e - 1 /\ Len(H[c].frames) = j /\ H[c].frames[j] = f
        /\ IsEnd(n, max, H[c], c)
    BY DEF EndsAt
  <1> HIDE DEF b
  <1>4. c \in a .. e /\ c \in a .. e - 1 /\ c \in Nat /\ c + 1 \in a .. e BY <1>1, <1>2, <1>3
  <1>5. StepOf(n, max, H[c], H[c + 1], c) /\ Sound(H[c], a, c, n) BY <1>4 DEF Trail
  <1>6. EndStep(H[c], H[c + 1]) BY <1>3, <1>5 DEF StepOf
  <1>7. /\ Len(H[c + 1].frames) = j - 1 /\ DOMAIN H[c + 1].frames = 1 .. j - 1
        /\ \A h \in 1 .. j - 1 : H[c + 1].frames[h] = H[c].frames[h]
    <2>1. H[c + 1].frames = SubSeq(H[c].frames, 1, Len(H[c].frames) - 1) BY <1>6 DEF EndStep
    <2>2. IsList(H[c].frames) /\ H[c].frames # <<>> BY <1>3, <1>5, SoundFacts DEF IsEnd
    <2>3. Sound(H[c + 1], a, c + 1, n) BY <1>4 DEF Trail
    <2>4. /\ Len(H[c + 1].frames) = Len(H[c].frames) - 1
          /\ \A h \in 1 .. Len(H[c].frames) - 1 : H[c + 1].frames[h] = H[c].frames[h]
      BY <2>1, <2>2, ShrunkList
    <2>5. DOMAIN H[c + 1].frames = 1 .. Len(H[c + 1].frames) BY <2>3, SoundFacts
    <2> QED BY <1>3, <2>4, <2>5
  <1>8. i <= c
    <2> SUFFICES ASSUME ~(i <= c) PROVE FALSE OBVIOUS
    <2>1. c + 1 \in b + 1 .. i
      <3>1. c < i BY <1>2, <1>4
      <3> QED BY <1>2, <1>3, <1>4, <3>1
    <2>2. j \in DOMAIN H[c + 1].frames BY <2>1, OpenSince DEF b
    <2>3. ~(j <= j - 1) BY <1>2
    <2> QED BY <1>2, <1>7, <2>2, <2>3
  <1>9. \A h \in 1 .. j - 1 : H[c].frames[h] = H[i].frames[h]
    <2>1. DOMAIN H[c].frames = 1 .. Len(H[c].frames) BY <1>5, SoundFacts
    <2>2. j \in DOMAIN H[c].frames BY <1>2, <1>3, <2>1
    <2> QED BY <1>3, <1>4, <2>2, SameAround
  <1> QED BY <1>3, <1>4, <1>6, <1>7, <1>8, <1>9

-----------------------------------------------------------------------------
(* The second walk goes on                                                   *)

\* The same structures, as far as the walk is concerned.
Alike(F, G) ==
  /\ IsList(G) /\ Len(G) = Len(F)
  /\ \A j \in DOMAIN F : /\ G[j].node = F[j].node /\ G[j].max = F[j].max
                         /\ G[j].up = F[j].up /\ G[j].left = F[j].left

\* What the second walk has passed at one depth, seen from another snapshot and frame list.
LEMMA PassedKept ==
  ASSUME NEW H, NEW n, NEW max, NEW e, NEW i, NEW F, NEW d, NEW read, NEW j,
         Passed(H, n, max, e, i, F, d, read, j),
         NEW k, NEW G, NEW c, NEW more, H[k].frames[j] = H[i].frames[j], G[j].up = F[j].up,
         c[j] = d[j], c[j - 1] = d[j - 1], read \subseteq more
  PROVE  Passed(H, n, max, e, k, G, c, more, j)
  BY DEF Passed

\* What it has read before the structure it is in, likewise.
LEMMA ReachedKept ==
  ASSUME NEW H, NEW i, NEW F, NEW d, NEW read, NEW j \in Nat, Reached(H, i, F, d, read, j),
         j < Len(F), NEW k, NEW G, NEW c, NEW more, j < Len(G), G[j + 1].node = F[j + 1].node,
         j # 0 => H[k].frames[j] = H[i].frames[j], c[j] = d[j], read \subseteq more
  PROVE  Reached(H, k, G, c, more, j)
  BY DEF Reached, From

\* What the first walk has carried over, likewise.
LEMMA CarriedKept ==
  ASSUME NEW H, NEW a, NEW e, NEW i, NEW d, NEW written, NEW j, Carried(H, a, e, i, d, written, j),
         NEW k, NEW c, j # 0 => H[k].frames[j] = H[i].frames[j], c[j] = d[j]
  PROVE  Carried(H, a, e, k, c, written, j)
  BY DEF Carried, From

\* What the second walk says, conjunct by conjunct.
LEMMA SecondFacts ==
  ASSUME NEW H, NEW n, NEW max, NEW a, NEW e, Trail(H, n, max, a, e), NEW d, NEW i, NEW F, NEW l,
         NEW read, NEW written, Second(H, n, max, a, e, d, i, F, l, read, written)
  PROVE  /\ i \in a .. e /\ i \in Nat /\ Sound(H[i], a, i, n)
         /\ IsList(F) /\ Len(F) \in Nat /\ Len(H[i].frames) = Len(F)
         /\ DOMAIN F = 1 .. Len(F) /\ DOMAIN H[i].frames = 1 .. Len(F)
         /\ (F = <<>>) <=> (H[i].frames = <<>>)
         /\ (F = <<>>) <=> (Len(F) = 0)
         /\ \A j \in 0 .. Len(F) : d[j] \in Nat
         /\ d[0] = 0
         /\ d[Len(F)] \in Nat
         /\ IsLayout(l) /\ l.pos = H[i].layout.pos + d[Len(F)] /\ l.pos \in Nat
         /\ l.vpos = H[i].layout.vpos /\ l.argc = H[i].layout.argc
  <1>1. /\ i \in a .. e /\ a \in Nat /\ e \in Nat /\ IsList(F) /\ Len(H[i].frames) = Len(F)
        /\ d \in [0 .. Len(F) -> Nat] /\ d[0] = 0
        /\ IsLayout(l) /\ l.pos = H[i].layout.pos + d[Len(F)]
        /\ l.vpos = H[i].layout.vpos /\ l.argc = H[i].layout.argc
    BY DEF Second, Trail
  <1>2. Sound(H[i], a, i, n) /\ i \in Nat BY <1>1 DEF Trail
  <1>3. /\ Len(H[i].frames) \in Nat /\ DOMAIN H[i].frames = 1 .. Len(H[i].frames)
        /\ H[i].layout.pos \in Nat
        /\ (H[i].frames = <<>>) <=> (Len(H[i].frames) = 0)
    BY <1>2, SoundFacts
  <1>4. Len(F) \in Nat /\ DOMAIN F = 1 .. Len(F) BY <1>1, ListFacts
  <1>5. (F = <<>>) <=> (Len(F) = 0)
    <2>1. PICK S : F \in Seq(S) BY <1>1 DEF IsList
    <2> QED BY <2>1, EmptySeq
  <1>6. Len(F) \in 0 .. Len(F) BY <1>4
  <1>7. \A j \in 0 .. Len(F) : d[j] \in Nat BY <1>1
  <1>8. d[Len(F)] \in Nat BY <1>6, <1>7
  <1>9. l.pos \in Nat BY <1>1, <1>3, <1>8
  <1> QED BY <1>1, <1>2, <1>3, <1>4, <1>5, <1>7, <1>8, <1>9

\* A node at which no structure begins or ends.
LEMMA SecondSame ==
  ASSUME NEW H, NEW n, NEW max, NEW a, NEW e, Trail(H, n, max, a, e), NEW d, NEW i, NEW F, NEW l,
         NEW read, NEW written, Second(H, n, max, a, e, d, i, F, l, read, written), i < e,
         H[i + 1].frames = H[i].frames, NEW G, Alike(F, G),
         NEW m, IsLayout(m), m.pos = H[i + 1].layout.pos + d[Len(F)],
         m.vpos = H[i + 1].layout.vpos, m.argc = H[i + 1].layout.argc,
         NEW more, read \subseteq more, more \subseteq written,
         \A w \in H[i + 1].written : From(H[i].frames, Len(F)) <= w.pos => Shift(w, d[Len(F)]) \in more
  PROVE  Second(H, n, max, a, e, d, i + 1, G, m, more, written)
  <1> DEFINE z == Len(F)
  <1>1. /\ i \in a .. e /\ i \in Nat /\ z \in Nat /\ DOMAIN F = 1 .. z /\ e \in Nat /\ a \in Nat
    <2>1. i \in a .. e /\ i \in Nat /\ z \in Nat /\ DOMAIN F = 1 .. z BY SecondFacts
    <2>2. e \in Nat /\ a \in Nat BY DEF Trail
    <2> QED BY <2>1, <2>2
  <1>2. /\ IsList(G) /\ Len(G) = z /\ DOMAIN G = 1 .. z
        /\ \A j \in 1 .. z : /\ G[j].node = F[j].node /\ G[j].max = F[j].max
                             /\ G[j].up = F[j].up /\ G[j].left = F[j].left
    BY <1>1, ListFacts DEF Alike
  <1>3. i + 1 \in a .. e BY <1>1
  <1>4. /\ Len(H[i].frames) = z /\ d \in [0 .. z -> Nat] /\ d[0] = 0
        /\ \A j \in 1 .. z :
             /\ F[j].node = H[i].frames[j].node /\ F[j].max = H[i].frames[j].max
             /\ F[j].up \in Nat /\ F[j].left \in Nat \ {0}
             /\ F[j].up + F[j].left = H[i].frames[j].left
        /\ \A j \in 1 .. z : Passed(H, n, max, e, i, F, d, read, j)
        /\ \A j \in 0 .. z : Reached(H, i, F, d, read, j) /\ Carried(H, a, e, i, d, written, j)
    BY <1>1 DEF Second
  <1>5. ASSUME NEW j \in 1 .. z PROVE Passed(H, n, max, e, i + 1, G, d, more, j)
    BY <1>2, <1>4, PassedKept
  <1>6. ASSUME NEW j \in 0 .. z PROVE Carried(H, a, e, i + 1, d, written, j)
    BY <1>4, CarriedKept
  <1>7. ASSUME NEW j \in 0 .. z PROVE Reached(H, i + 1, G, d, more, j)
    <2>1. CASE j = z
      <3>1. ~(j < Len(G)) BY <1>1, <1>2, <2>1
      <3> QED BY <2>1, <3>1 DEF Reached
    <2>2. CASE j # z
      <3>1. j < z /\ j \in Nat /\ j + 1 \in 1 .. z BY <1>1, <2>2
      <3> QED BY <1>2, <1>4, <3>1, ReachedKept
    <2> QED BY <2>1, <2>2
  <1> HIDE DEF z
  <1>8. \A j \in DOMAIN G :
          /\ G[j].node = H[i + 1].frames[j].node /\ G[j].max = H[i + 1].frames[j].max
          /\ G[j].up \in Nat /\ G[j].left \in Nat \ {0}
          /\ G[j].up + G[j].left = H[i + 1].frames[j].left
    BY <1>2, <1>4
  <1> QED BY <1>2, <1>3, <1>4, <1>5, <1>6, <1>7, <1>8 DEF Second, z

\* The second walk begins where the first one did, with no depth moved.
LEMMA SecondBegins ==
  ASSUME NEW H, NEW n, NEW max, NEW a, NEW e, Trail(H, n, max, a, e), NEW l, IsLayout(l),
         l.pos = H[a].layout.pos, l.vpos = H[a].layout.vpos, l.argc = H[a].layout.argc
  PROVE  \E d : Second(H, n, max, a, e, d, a, <<>>, l, {}, H[e].written)
  <1> DEFINE d == [k \in 0 .. 0 |-> 0]
             F == <<>>
             written == H[e].written
  <1>1. a \in Nat \ {0} /\ e \in Nat /\ a <= e /\ a \in a .. e /\ e \in a .. e BY DEF Trail
  <1>2. H[a].frames = F /\ H[a].written = {} BY DEF Trail
  <1>3. Sound(H[a], a, a, n) BY <1>1 DEF Trail
  <1>4. Len(F) = 0 /\ IsList(F) /\ DOMAIN F = {} BY <1>2, <1>3, SoundFacts
  <1>5. d[0] = 0 /\ d \in [0 .. 0 -> Nat] /\ 0 .. 0 = {0} /\ 1 .. 0 = {} OBVIOUS
  <1> HIDE DEF F, d, written
  <1>6. \A j \in 0 .. 0 : Reached(H, a, F, d, {}, j)
    <2>1. ~(0 < Len(F)) BY <1>4
    <2> QED BY <1>2, <1>5, <2>1 DEF Reached
  <1>7. \A j \in 0 .. 0 : Carried(H, a, e, a, d, written, j)
    <2> SUFFICES ASSUME NEW k \in a .. e, NEW w \in H[k].written PROVE Shift(w, d[0]) \in written
      BY <1>5 DEF Carried
    <2>1. Sound(H[k], a, k, n) BY DEF Trail
    <2>2. w = [node |-> w.node, pos |-> w.pos, data |-> w.data] /\ w.pos \in Nat
      BY <2>1 DEF Sound, Lies
    <2>3. Shift(w, d[0]) = w
      <3>1. 0 \in Nat OBVIOUS
      <3> QED BY <1>5, <2>2, <3>1, ShiftFacts
    <2>4. k <= e BY <1>1
    <2>5. H[k].written \subseteq H[e].written BY <1>1, <2>4 DEF Trail
    <2> QED BY <2>3, <2>5 DEF written
  <1>8. l.pos = H[a].layout.pos + d[Len(F)]
    <2>1. H[a].layout.pos \in Nat BY <1>3, SoundFacts
    <2> QED BY <1>4, <1>5, <2>1
  <1>9. Second(H, n, max, a, e, d, a, F, l, {}, written)
    BY <1>1, <1>2, <1>4, <1>5, <1>6, <1>7, <1>8 DEF Second
  <1> QED BY <1>9 DEF F, written

\* The step of the first walk at the node where the second one is.
LEMMA StepThere ==
  ASSUME NEW H, NEW n, NEW max, NEW a, NEW e, Trail(H, n, max, a, e), NEW i \in a .. e, i < e
  PROVE  /\ i \in Nat /\ e \in Nat /\ i + 1 \in a .. e
         /\ Sound(H[i], a, i, n) /\ Sound(H[i + 1], a, i + 1, n)
         /\ ~OverAt(n, max, H[i], i)
         /\ IsData(n, max, H[i], i) => DataStep(n, H[i], H[i + 1], i)
         /\ IsDs(n, max, H[i], i) => DsStep(n, H[i], H[i + 1], i)
         /\ IsEnd(n, max, H[i], i) => EndStep(H[i], H[i + 1])
         /\ ~IsData(n, max, H[i], i) /\ ~IsDs(n, max, H[i], i) /\ ~IsEnd(n, max, H[i], i) =>
              H[i + 1] = H[i]
  <1>1. a \in Nat /\ e \in Nat BY DEF Trail
  <1>2. i \in a .. e - 1 /\ i + 1 \in a .. e /\ i \in Nat BY <1>1
  <1>3. StepOf(n, max, H[i], H[i + 1], i) /\ Sound(H[i], a, i, n) /\ Sound(H[i + 1], a, i + 1, n)
    BY <1>2 DEF Trail
  <1> QED BY <1>1, <1>2, <1>3 DEF StepOf

\* The second walk passes a node that reads nothing.
LEMMA SecondPass ==
  ASSUME NEW H, NEW n, NEW max, NEW a, NEW e, Trail(H, n, max, a, e), NEW d, NEW i, NEW F, NEW l,
         NEW read, NEW written, Second(H, n, max, a, e, d, i, F, l, read, written), i < e,
         ~IsData(n, max, H[i], i), ~IsDs(n, max, H[i], i), ~IsEnd(n, max, H[i], i)
  PROVE  Second(H, n, max, a, e, d, i + 1, F, l, read, written)
  <1> DEFINE z == Len(F)
  <1>1. /\ i \in a .. e /\ z \in Nat /\ DOMAIN F = 1 .. z /\ IsList(F) /\ IsLayout(l)
        /\ l.pos = H[i].layout.pos + d[z]
        /\ l.vpos = H[i].layout.vpos /\ l.argc = H[i].layout.argc
    BY SecondFacts
  <1>2. H[i + 1] = H[i] BY <1>1, StepThere
  <1>3. Alike(F, F) BY <1>1 DEF Alike
  <1>4. read \subseteq written /\ Reached(H, i, F, d, read, z) BY <1>1 DEF Second
  <1>5. \A w \in H[i].written : From(H[i].frames, z) <= w.pos => Shift(w, d[z]) \in read
    BY <1>1, <1>4 DEF Reached
  <1> QED BY <1>1, <1>2, <1>3, <1>4, <1>5, SecondSame

\* A parameter is read where it was written for this element.
LEMMA SecondData ==
  ASSUME NEW H, NEW n, NEW max, NEW a, NEW e, Trail(H, n, max, a, e), NEW d, NEW i, NEW F, NEW l,
         NEW read, NEW written, Second(H, n, max, a, e, d, i, F, l, read, written), i < e,
         IsData(n, max, H[i], i), Numbers(n, i),
         NEW size, size = SizeAt(n, i), NEW by, by = ByAt(n, H[i], i, size),
         NEW G, Alike(F, G), NEW w, w.pos = Where(l, by, size),
         w = [node |-> i, pos |-> w.pos, data |-> w.data],
         \A x \in written : x.pos = w.pos => x.data = w.data
  PROVE  /\ Second(H, n, max, a, e, d, i + 1, G, Place(l, FALSE, by, size),
                   read \cup {w}, written)
         /\ \E x \in written : x.pos = w.pos
  <1> DEFINE z == Len(F)
             r == H[i]
             s == H[i + 1]
             pos == Where(r.layout, by, size)
             v == [node |-> i, pos |-> pos, data |-> Stored(TypeOf(n[i]), ValueOf(n[i]))]
             y == d[z]
  <1>1. /\ i \in a .. e /\ z \in Nat /\ z \in 0 .. z /\ DOMAIN F = 1 .. z /\ IsList(F) /\ IsLayout(l)
        /\ l.pos = r.layout.pos + y /\ y \in Nat
        /\ l.vpos = r.layout.vpos /\ l.argc = r.layout.argc
        /\ (r.frames # <<>>) <=> (z # 0)
        /\ DOMAIN r.frames = 1 .. z
        /\ d[0] = 0
    BY SecondFacts
  <1>2. /\ i + 1 \in a .. e /\ Sound(r, a, i, n) /\ Sound(s, a, i + 1, n) /\ DataStep(n, r, s, i)
    BY <1>1, StepThere
  <1>3. /\ KnownType(TypeOf(n[i])) /\ s.layout = Added(r.layout, by, size)
        /\ s.frames = r.frames /\ s.written = r.written \cup {v}
    BY <1>2 DEF DataStep
  <1>4. size \in Nat BY <1>3, PositiveSize DEF Numbers, SizeAt
  <1>5. /\ by \in Kinds /\ (r.frames # <<>> => by = "in_ds")
        /\ (by = "in_ds" => by # "value" /\ by \notin ByRef)
    BY <1>4, ByFacts
  <1>6. /\ r.layout.pos \in Nat /\ r.layout.vpos \in Nat /\ IsLayout(r.layout)
        /\ IsLayout(s.layout)
    BY <1>2, SoundFacts
  <1>7. y = 0 \/ by = "in_ds" BY <1>1, <1>5
  <1> HIDE DEF r, s, pos, y, z
  <1>8. pos \in Nat /\ From(r.frames, z) <= pos
    <2>1. Lies(v, s.layout) BY <1>2, <1>3 DEF Sound
    <2>2. v.pos = pos OBVIOUS
    <2>3. pos \in Nat BY <2>1, <2>2 DEF Lies
    <2>4. CASE z = 0 BY <2>3, <2>4 DEF From
    <2>5. CASE z # 0
      <3>1. by = "in_ds" /\ by # "value" BY <1>1, <1>5, <2>5
      <3>2. pos = r.layout.pos BY <3>1 DEF pos, Where
      <3>3. z \in DOMAIN r.frames BY <1>1, <2>5
      <3>4. r.frames[z].start <= r.layout.pos BY <1>2, <3>3 DEF Sound
      <3> QED BY <2>3, <2>5, <3>2, <3>4 DEF From
    <2> QED BY <2>4, <2>5
  <1>9. w.pos = pos + y
    <2>1. CASE by = "value"
      <3>1. y = 0 BY <1>7, <2>1
      <3>2. w.pos = pos BY <1>1, <2>1 DEF Where, pos
      <3> QED BY <1>8, <3>1, <3>2
    <2>2. CASE by # "value" BY <1>1, <2>2 DEF Where, pos
    <2> QED BY <2>1, <2>2
  <1>10. Shift(v, y) = [node |-> i, pos |-> w.pos, data |-> v.data] /\ Shift(v, y).pos = w.pos
    <2>1. v = [node |-> v.node, pos |-> v.pos, data |-> v.data] /\ v.pos = pos /\ v.node = i
      OBVIOUS
    <2> HIDE DEF v
    <2>2. Shift(v, y) = [node |-> v.node, pos |-> v.pos + y, data |-> v.data]
      BY <1>1, <1>8, <2>1, ShiftFacts
    <2> QED BY <1>9, <2>1, <2>2
  <1> DEFINE x == Shift(v, y)
  <1>11. /\ x \in written
         /\ x.data = v.data
    <2>1. Carried(H, a, e, i, d, written, z) BY <1>1 DEF Second, z
    <2>2. z = 0 \/ (z \in DOMAIN s.frames /\ s.frames[z] = r.frames[z])
      BY <1>1, <1>3
    <2>3. v \in s.written /\ v.pos = pos BY <1>3
    <2> HIDE DEF v
    <2>4. Shift(v, d[z]) \in written BY <1>2, <1>8, <2>1, <2>2, <2>3 DEF Carried, s, r
    <2> QED BY <1>10, <2>4 DEF y
  <1> HIDE DEF v, x
  <1>12. x.pos = w.pos /\ x = [node |-> i, pos |-> w.pos, data |-> w.data]
    BY <1>10, <1>11 DEF x
  <1>13. w = x BY <1>12
  <1> DEFINE m == Place(l, FALSE, by, size)
             q == Added(r.layout, by, size)
             more == read \cup {x}
  <1>14. /\ IsLayout(m)
         /\ m.pos = IF by = "value" THEN l.pos ELSE l.pos + size
         /\ m.vpos = VposAfter(l.vpos, l.argc, by, size)
         /\ m.argc = ArgcAfter(l.vpos, l.argc, by, size)
    <2> DEFINE keep == FALSE
    <2>1. keep \in BOOLEAN OBVIOUS
    <2> HIDE DEF keep
    <2>2. LET p == Place(l, keep, by, size)
          IN  /\ IsLayout(p)
              /\ p.pos = IF by = "value" THEN l.pos ELSE l.pos + size
              /\ p.vpos = VposAfter(l.vpos, l.argc, by, size)
              /\ p.argc = ArgcAfter(l.vpos, l.argc, by, size)
      BY <1>1, <1>4, <1>5, <2>1, PlaceMoves
    <2> QED BY <2>2 DEF keep
  <1>15. /\ q.pos = IF by = "value" THEN r.layout.pos ELSE r.layout.pos + size
         /\ q.vpos = VposAfter(r.layout.vpos, r.layout.argc, by, size)
         /\ q.argc = ArgcAfter(r.layout.vpos, r.layout.argc, by, size)
    BY <1>4, <1>5, <1>6, AddedMoves
  <1>16. q = s.layout BY <1>3
  <1> HIDE DEF m, q
  <1>17. /\ m.pos = s.layout.pos + y /\ m.vpos = s.layout.vpos /\ m.argc = s.layout.argc
    <2>1. m.pos = s.layout.pos + y
      <3>1. CASE by = "value" BY <1>1, <1>6, <1>14, <1>15, <1>16, <3>1
      <3>2. CASE by # "value" BY <1>1, <1>4, <1>6, <1>14, <1>15, <1>16, <3>2
      <3> QED BY <3>1, <3>2
    <2> QED BY <1>1, <1>14, <1>15, <1>16, <2>1
  <1>18. read \subseteq written /\ Reached(H, i, F, d, read, z) BY <1>1 DEF Second, z
  <1>19. \A u \in s.written : From(r.frames, z) <= u.pos => Shift(u, y) \in more
    <2>1. \A u \in r.written : From(r.frames, z) <= u.pos => Shift(u, y) \in read
      <3>1. ~(z < Len(F)) BY <1>1 DEF z
      <3> QED BY <1>18, <3>1 DEF Reached, r, y
    <2> QED BY <1>3, <2>1 DEF x
  <1>20. more \subseteq written BY <1>11, <1>18
  <1>21. Second(H, n, max, a, e, d, i + 1, G, m, more, written)
    BY <1>3, <1>14, <1>17, <1>19, <1>20, SecondSame DEF r, s, y, z
  <1> QED BY <1>11, <1>12, <1>13, <1>21 DEF m

\* Placing a structure moves both walks alike.
LEMMA PlaceDsMoves ==
  ASSUME NEW l, IsLayout(l), NEW k, IsLayout(k), NEW y \in Nat, l.pos \in Nat, k.pos \in Nat,
         l.pos = k.pos + y,
         l.vpos = k.vpos, l.argc = k.argc, NEW by \in Kinds
  PROVE  /\ IsLayout(Added(l, by, 0)) /\ Added(l, by, 0).pos = Added(k, by, 0).pos + y
         /\ Added(k, by, 0).pos = k.pos
         /\ Added(l, by, 0).vpos = Added(k, by, 0).vpos
         /\ Added(l, by, 0).argc = Added(k, by, 0).argc
  <1> DEFINE z == 0
             p == Added(l, by, z)
             q == Added(k, by, z)
  <1>1. z \in Nat /\ l.pos + z = l.pos /\ k.pos + z = k.pos OBVIOUS
  <1> HIDE DEF z
  <1>2. /\ IsLayout(p)
        /\ p.pos = IF by = "value" THEN l.pos ELSE l.pos + z
        /\ p.vpos = VposAfter(l.vpos, l.argc, by, z)
        /\ p.argc = ArgcAfter(l.vpos, l.argc, by, z)
    BY <1>1, AddedMoves
  <1>3. /\ q.pos = IF by = "value" THEN k.pos ELSE k.pos + z
        /\ q.vpos = VposAfter(k.vpos, k.argc, by, z)
        /\ q.argc = ArgcAfter(k.vpos, k.argc, by, z)
    BY <1>1, AddedMoves
  <1> HIDE DEF p, q
  <1>4. p.pos = q.pos + y /\ q.pos = k.pos /\ p.vpos = q.vpos /\ p.argc = q.argc
    BY <1>1, <1>2, <1>3
  <1> QED BY <1>2, <1>4 DEF p, q, z

\* The second walk enters a structure: it is as far in it as it is around it.
LEMMA SecondDs ==
  ASSUME NEW H, NEW n, NEW max, NEW a, NEW e, Trail(H, n, max, a, e), NEW d, NEW i, NEW F, NEW l,
         NEW read, NEW written, Second(H, n, max, a, e, d, i, F, l, read, written), i < e,
         IsDs(n, max, H[i], i), Numbers(n, i), NEW by, by = ByAt(n, H[i], i, 0),
         NEW g, g.node = i, g.max = IF i < Len(n) THEN n[i + 1].ord ELSE 0,
         g.up = 0, g.left = DimOf(n[i])
  PROVE  \E c : Second(H, n, max, a, e, c, i + 1, Append(F, g), Added(l, by, 0), read, written)
  <1> DEFINE z == Len(F)
             r == H[i]
             s == H[i + 1]
             G == Append(F, g)
             m == Added(l, by, 0)
             f == s.frames[Len(s.frames)]
             c == [j \in 0 .. z + 1 |-> IF j = z + 1 THEN d[z] ELSE d[j]]
  <1>1. /\ i \in a .. e /\ i \in Nat /\ z \in Nat /\ z \in 0 .. z /\ DOMAIN F = 1 .. z
        /\ IsList(F) /\ IsLayout(l) /\ l.pos \in Nat
        /\ l.pos = r.layout.pos + d[z] /\ d[z] \in Nat
        /\ \A j \in 0 .. z : d[j] \in Nat
        /\ l.vpos = r.layout.vpos /\ l.argc = r.layout.argc
        /\ DOMAIN r.frames = 1 .. z /\ Len(r.frames) = z /\ d[0] = 0
    BY SecondFacts
  <1>2. /\ i + 1 \in a .. e /\ Sound(r, a, i, n) /\ Sound(s, a, i + 1, n) /\ DsStep(n, r, s, i)
    BY <1>1, StepThere
  <1>3. /\ s.layout = Added(r.layout, by, 0) /\ s.written = r.written
        /\ s.frames = Append(r.frames, f)
        /\ f.node = i /\ f.left = DimOf(n[i]) /\ f.start = Where(r.layout, by, 0)
        /\ f.max = g.max
    BY <1>2 DEF DsStep
  <1>4. r.layout.pos \in Nat /\ IsLayout(r.layout) /\ IsList(r.frames) BY <1>2, SoundFacts
  <1>5. by \in Kinds BY ByFacts
  <1>6. /\ IsLayout(m) /\ m.pos = s.layout.pos + d[z]
        /\ m.vpos = s.layout.vpos /\ m.argc = s.layout.argc
    <2> DEFINE k == r.layout
               y == d[z]
    <2>1. /\ IsLayout(l) /\ IsLayout(k) /\ y \in Nat /\ l.pos \in Nat /\ k.pos \in Nat
          /\ l.pos = k.pos + y /\ l.vpos = k.vpos /\ l.argc = k.argc /\ s.layout = Added(k, by, 0)
      BY <1>1, <1>3, <1>4
    <2> HIDE DEF k, y, s
    <2>2. /\ IsLayout(m) /\ m.pos = Added(k, by, 0).pos + y
          /\ m.vpos = Added(k, by, 0).vpos /\ m.argc = Added(k, by, 0).argc
      BY <1>5, <2>1, PlaceDsMoves
    <2> QED BY <2>1, <2>2 DEF y
  <1> HIDE DEF f, z
  <1>7. /\ IsList(G) /\ Len(G) = z + 1 /\ DOMAIN G = 1 .. z + 1
        /\ \A j \in 1 .. z : G[j] = F[j]
        /\ G[z + 1] = g
    BY <1>1, GrownList DEF z
  <1>8. /\ Len(s.frames) = z + 1 /\ DOMAIN s.frames = 1 .. z + 1
        /\ \A j \in 1 .. z : s.frames[j] = r.frames[j]
        /\ s.frames[z + 1] = f
    <2> DEFINE p == r.frames
               q == s.frames
    <2>1. q = Append(p, f) /\ IsList(p) /\ Len(p) = z BY <1>1, <1>3, <1>4
    <2> HIDE DEF p, q
    <2>2. /\ Len(q) = z + 1 /\ DOMAIN q = 1 .. z + 1
          /\ \A j \in 1 .. z : q[j] = p[j]
          /\ q[z + 1] = f
      BY <2>1, GrownList
    <2> QED BY <2>2 DEF p, q
  <1> HIDE DEF G, m, r, s
  <1>9. /\ c \in [0 .. z + 1 -> Nat] /\ c[z + 1] = d[z] /\ c[0] = 0
        /\ \A j \in 0 .. z : c[j] = d[j]
        /\ \A j \in 1 .. z : j \in 0 .. z /\ j - 1 \in 0 .. z
    BY <1>1
  <1> HIDE DEF c
  <1>10. /\ \A j \in 1 .. z :
             /\ F[j].node = r.frames[j].node /\ F[j].max = r.frames[j].max
             /\ F[j].up \in Nat /\ F[j].left \in Nat \ {0}
             /\ F[j].up + F[j].left = r.frames[j].left
         /\ \A j \in 1 .. z : Passed(H, n, max, e, i, F, d, read, j)
         /\ \A j \in 0 .. z : Reached(H, i, F, d, read, j) /\ Carried(H, a, e, i, d, written, j)
         /\ read \subseteq written
    BY <1>1 DEF Second, z, r
  <1>11. g.up \in Nat /\ g.left \in Nat \ {0} /\ g.up + g.left = f.left BY <1>3 DEF Numbers
  <1>12. \A j \in 1 .. z + 1 : j \in 1 .. z \/ j = z + 1 BY <1>1
  <1>13. \A j \in 0 .. z + 1 : j \in 0 .. z \/ j = z + 1 BY <1>1
  <1>14. \A j \in DOMAIN G :
           /\ G[j].node = s.frames[j].node /\ G[j].max = s.frames[j].max
           /\ G[j].up \in Nat /\ G[j].left \in Nat \ {0}
           /\ G[j].up + G[j].left = s.frames[j].left
    <2> TAKE j \in DOMAIN G
    <2>1. CASE j \in 1 .. z BY <1>7, <1>8, <1>10, <2>1
    <2>2. CASE j = z + 1 BY <1>3, <1>7, <1>8, <1>11, <2>2
    <2> QED BY <1>7, <1>12, <2>1, <2>2
  <1>15. ASSUME NEW j \in 1 .. z + 1 PROVE Passed(H, n, max, e, i + 1, G, c, read, j)
    <2>1. CASE j \in 1 .. z
      <3>1. G[j].up = F[j].up /\ c[j] = d[j] /\ c[j - 1] = d[j - 1] BY <1>7, <1>9, <2>1
      <3>2. s.frames[j] = r.frames[j] BY <1>8, <2>1
      <3> QED BY <1>10, <2>1, <3>1, <3>2, PassedKept DEF r, s
    <2>2. CASE j = z + 1
      <3>1. G[j].up = 0 /\ ~(G[j].up > 0) BY <1>7, <2>2
      <3>2. z + 1 - 1 = z /\ z \in 0 .. z BY <1>1
      <3>3. c[j] = c[j - 1] BY <1>9, <2>2, <3>2
      <3> QED BY <3>1, <3>3 DEF Passed
    <2> QED BY <1>12, <2>1, <2>2
  <1> DEFINE at0 == From(r.frames, z)
  <1>16. /\ at0 \in Nat /\ f.start \in Nat /\ at0 <= f.start
         /\ From(s.frames, z + 1) = f.start /\ From(s.frames, z) = at0
    <2>1. z + 1 \in DOMAIN s.frames /\ z + 1 - 1 = z /\ z + 1 # 0 BY <1>1, <1>8
    <2>2. From(s.frames, z) <= s.frames[z + 1].start
      <3> DEFINE o == i + 1
                 x == z + 1
      <3>1. o \in a .. e /\ x \in DOMAIN H[o].frames /\ s = H[o] /\ x = z + 1 /\ x - 1 = z
        BY <1>1, <1>2, <2>1 DEF s
      <3> HIDE DEF o, x
      <3>2. From(H[o].frames, x - 1) <= H[o].frames[x].start BY <3>1, StartsOrdered
      <3> QED BY <3>1, <3>2
    <2>3. CASE z = 0
      <3>1. From(s.frames, z) = 0 /\ at0 = 0 BY <2>3 DEF From
      <3>2. s.frames[z + 1].start \in Nat BY <1>2, <2>1 DEF Sound
      <3> QED BY <1>8, <2>1, <2>2, <3>1, <3>2 DEF From
    <2>4. CASE z # 0
      <3>1. z \in 1 .. z /\ z \in DOMAIN r.frames BY <1>1, <2>4
      <3>2. From(s.frames, z) = at0 BY <1>8, <2>4, <3>1 DEF From
      <3>3. r.frames[z].start \in Nat BY <1>2, <3>1 DEF Sound
      <3>4. at0 \in Nat BY <2>4, <3>3 DEF From
      <3>5. s.frames[z + 1].start \in Nat BY <1>2, <2>1 DEF Sound
      <3> QED BY <1>8, <2>1, <2>2, <3>2, <3>4, <3>5 DEF From
    <2> QED BY <2>3, <2>4
  <1>17. \A k \in a .. e : \A w \in H[k].written : f.start <= w.pos => at0 <= w.pos
    <2> TAKE k \in a .. e
    <2> TAKE w \in H[k].written
    <2>1. Sound(H[k], a, k, n) BY DEF Trail
    <2>2. w.pos \in Nat BY <2>1 DEF Sound, Lies
    <2> QED BY <1>16, <2>2
  <1> HIDE DEF at0
  <1>18. ASSUME NEW j \in 0 .. z + 1 PROVE Reached(H, i + 1, G, c, read, j)
    <2>0. Reached(H, i, F, d, read, z) /\ ~(z < Len(F)) BY <1>1, <1>10 DEF z
    <2>00. \A w \in r.written : at0 <= w.pos => Shift(w, d[z]) \in read
      BY <2>0 DEF Reached, at0, r
    <2>1. CASE j \in 0 .. z /\ j # z
      <3>1. /\ j \in Nat /\ j < z /\ z = Len(F) /\ j < Len(G) /\ j + 1 \in 1 .. z
        BY <1>1, <1>7, <2>1 DEF z
      <3>2. j # 0 => s.frames[j] = r.frames[j] BY <1>8, <3>1
      <3>3. G[j + 1].node = F[j + 1].node /\ c[j] = d[j] BY <1>7, <1>9, <2>1, <3>1
      <3>4. Reached(H, i, F, d, read, j) BY <1>10, <2>1
      <3>5. j # 0 => H[i + 1].frames[j] = H[i].frames[j] BY <3>2 DEF r, s
      <3> QED BY <3>1, <3>3, <3>4, <3>5, ReachedKept
    <2>2. CASE j = z
      <3>1. j < Len(G) /\ G[j + 1].node = i BY <1>1, <1>7, <2>2
      <3>2. \A w \in r.written : From(s.frames, j) <= w.pos => Shift(w, c[j]) \in read
        BY <1>1, <1>9, <1>16, <2>00, <2>2
      <3> QED BY <3>1, <3>2 DEF Reached, s, r
    <2>3. CASE j = z + 1
      <3>1. ~(j < Len(G)) BY <1>1, <1>7, <2>3
      <3>2. \A w \in s.written : From(s.frames, j) <= w.pos => Shift(w, c[j]) \in read
        BY <1>2, <1>3, <1>9, <1>16, <1>17, <2>00, <2>3 DEF r, s
      <3> QED BY <3>1, <3>2 DEF Reached, s
    <2> QED BY <1>13, <2>1, <2>2, <2>3
  <1>19. ASSUME NEW j \in 0 .. z + 1 PROVE Carried(H, a, e, i + 1, c, written, j)
    <2>1. CASE j \in 0 .. z
      <3>1. j # 0 => j \in 1 .. z BY <1>1, <2>1
      <3>2. j # 0 => H[i + 1].frames[j] = H[i].frames[j] BY <1>8, <3>1 DEF r, s
      <3>3. Carried(H, a, e, i, d, written, j) /\ c[j] = d[j] BY <1>9, <1>10, <2>1
      <3> QED BY <3>2, <3>3, CarriedKept
    <2>2. CASE j = z + 1
      <3> SUFFICES ASSUME NEW k \in a .. e, j \in DOMAIN H[k].frames,
                          H[k].frames[j] = s.frames[j], NEW w \in H[k].written,
                          From(s.frames, j) <= w.pos
                   PROVE  Shift(w, c[j]) \in written
        <4>1. j # 0 BY <1>1, <2>2
        <4> QED BY <4>1 DEF Carried, s
      <3>1. at0 <= w.pos BY <1>16, <1>17, <2>2
      <3>2. z = 0 \/ (z \in DOMAIN H[k].frames /\ H[k].frames[z] = r.frames[z])
        <4>1. j \in DOMAIN s.frames /\ j - 1 = z BY <1>1, <1>8, <2>2
        <4>2. \A h \in 1 .. j - 1 : h \in DOMAIN H[k].frames /\ H[k].frames[h] = s.frames[h]
          <5> DEFINE o == i + 1
          <5>1. /\ o \in a .. e /\ j \in DOMAIN H[o].frames /\ s = H[o]
                /\ H[k].frames[j] = H[o].frames[j]
            BY <1>2, <4>1 DEF s
          <5> HIDE DEF o
          <5> QED BY <5>1, SameAround
        <4>3. z # 0 => z \in 1 .. z BY <1>1
        <4> QED BY <1>8, <4>1, <4>2, <4>3
      <3>3. Carried(H, a, e, i, d, written, z) BY <1>1, <1>10
      <3>4. Shift(w, d[z]) \in written BY <3>1, <3>2, <3>3 DEF Carried, at0, r
      <3> QED BY <1>9, <2>2, <3>4
    <2> QED BY <1>13, <2>1, <2>2
  <1>20. m.pos = s.layout.pos + c[Len(G)] /\ Len(G) = Len(s.frames) /\ c \in [0 .. Len(G) -> Nat]
    BY <1>6, <1>7, <1>8, <1>9
  <1>21. \A j \in 1 .. Len(G) : Passed(H, n, max, e, i + 1, G, c, read, j) BY <1>7, <1>15
  <1>22. \A j \in 0 .. Len(G) : /\ Reached(H, i + 1, G, c, read, j)
                                /\ Carried(H, a, e, i + 1, c, written, j)
    BY <1>7, <1>18, <1>19
  <1>23. Second(H, n, max, a, e, c, i + 1, G, m, read, written)
    BY <1>2, <1>6, <1>7, <1>9, <1>10, <1>14, <1>20, <1>21, <1>22 DEF Second, s
  <1> QED BY <1>23 DEF G, m

\* At the end of a structure: how far the walk is, and what it has read, in its elements.
LEMMA EndFacts ==
  ASSUME NEW H, NEW n, NEW max, NEW a, NEW e, Trail(H, n, max, a, e), NEW d, NEW i, NEW F, NEW l,
         NEW read, NEW written, Second(H, n, max, a, e, d, i, F, l, read, written), i < e,
         IsEnd(n, max, H[i], i)
  PROVE  LET m   == Len(F)
             f   == H[i].frames[m]
             len == H[i].layout.pos - f.start
             up  == F[m].up
         IN  /\ m \in Nat /\ 1 <= m /\ m - 1 \in Nat /\ m \in DOMAIN H[i].frames
             /\ EndsAt(H, n, max, e, i, m, f)
             /\ len \in Nat /\ f.start + len = H[i].layout.pos /\ up \in Nat
             /\ F[m].left \in Nat \ {0} /\ up + F[m].left = f.left
             /\ F[m].node = f.node
             /\ d[m] = d[m - 1] + up * len
             /\ \A k \in 0 .. up : \A w \in H[i].written :
                  f.start <= w.pos => Shift(w, d[m - 1] + k * len) \in read
  <1> DEFINE m   == Len(F)
             f   == H[i].frames[m]
             len == H[i].layout.pos - f.start
             up  == F[m].up
  <1>0. m = Len(F) /\ f = H[i].frames[m] /\ len = H[i].layout.pos - f.start /\ up = F[m].up
    OBVIOUS
  <1> SUFFICES /\ m \in Nat /\ 1 <= m /\ m - 1 \in Nat /\ m \in DOMAIN H[i].frames
               /\ EndsAt(H, n, max, e, i, m, f)
               /\ len \in Nat /\ f.start + len = H[i].layout.pos /\ up \in Nat
               /\ F[m].left \in Nat \ {0} /\ up + F[m].left = f.left
               /\ F[m].node = f.node
               /\ d[m] = d[m - 1] + up * len
               /\ \A k \in 0 .. up : \A w \in H[i].written :
                    f.start <= w.pos => Shift(w, d[m - 1] + k * len) \in read
    OBVIOUS
  <1> USE <1>0
  <1> HIDE DEF m, f, len, up
  <1>1. /\ i \in a .. e /\ i \in Nat /\ m \in Nat /\ Sound(H[i], a, i, n) /\ Len(H[i].frames) = m
        /\ \A j \in 0 .. m : d[j] \in Nat
    BY SecondFacts
  <1>2. m \in DOMAIN H[i].frames BY <1>1, SoundFacts DEF IsEnd
  <1>3. /\ 1 <= m /\ f.node \in Nat /\ a <= f.node /\ f.node < i /\ f.start \in Nat
        /\ f.start <= H[i].layout.pos
    <2>1. OpenedAt(H, n, max, a, e, i, m) BY <1>1, <1>2, OpenFacts
    <2> QED BY <2>1 DEF OpenedAt, f
  <1>4. m - 1 \in Nat /\ m \in 1 .. m /\ m - 1 \in 0 .. m /\ m \in 0 .. m BY <1>1, <1>3
  <1>5. H[i].layout.pos \in Nat BY <1>1, SoundFacts
  <1>6. len \in Nat /\ f.start + len = H[i].layout.pos BY <1>3, <1>5
  <1>7. EndsAt(H, n, max, e, i, m, f)
    <2>1. e \in Nat BY DEF Trail
    <2> DEFINE b == f.node
    <2>2. b \in Nat /\ b < i BY <1>3
    <2> HIDE DEF b
    <2>3. i \in b + 1 .. e - 1 BY <1>1, <2>1, <2>2
    <2> QED BY <1>1, <2>3 DEF EndsAt, b
  <1>8. m \in DOMAIN F BY <1>1, <1>2, <1>4, SecondFacts
  <1>9. /\ up \in Nat /\ F[m].left \in Nat \ {0} /\ up + F[m].left = f.left /\ F[m].node = f.node
        /\ Passed(H, n, max, e, i, F, d, read, m)
        /\ Reached(H, i, F, d, read, m)
    BY <1>4, <1>8 DEF Second
  <1>10. /\ up = 0 => d[m] = d[m - 1]
         /\ up > 0 => /\ d[m] = d[m - 1] + up * len
                      /\ \A k \in 0 .. up - 1 : \A w \in H[i].written :
                           f.start <= w.pos => Shift(w, d[m - 1] + k * len) \in read
    <2>1. up = 0 => d[m] = d[m - 1] BY <1>9 DEF Passed
    <2>2. ASSUME up > 0
          PROVE  /\ d[m] = d[m - 1] + up * len
                 /\ \A k \in 0 .. up - 1 : \A w \in H[i].written :
                      f.start <= w.pos => Shift(w, d[m - 1] + k * len) \in read
      <3>1. PICK c : LET long == H[c].layout.pos - f.start
                     IN  /\ EndsAt(H, n, max, e, c, m, f)
                         /\ d[m] = d[m - 1] + up * long
                         /\ \A k \in 0 .. up - 1 : \A w \in H[c].written :
                              f.start <= w.pos => Shift(w, d[m - 1] + k * long) \in read
        BY <1>9, <2>2 DEF Passed
      <3>2. c = i
        <4>1. i <= c /\ c \in a .. e /\ c \in Nat /\ Len(H[c].frames) = m /\ H[c].frames[m] = f
          <5>1. EndsAt(H, n, max, e, c, m, H[i].frames[m]) BY <3>1 DEF f
          <5>2. i <= c /\ c \in a .. e /\ c \in Nat BY <1>1, <1>2, <5>1, EndsOnce
          <5>3. Len(H[c].frames) = m /\ H[c].frames[m] = f BY <3>1 DEF EndsAt
          <5> QED BY <5>2, <5>3
        <4>2. Sound(H[c], a, c, n) BY <4>1 DEF Trail
        <4>3. m \in DOMAIN H[c].frames BY <1>4, <4>1, <4>2, SoundFacts
        <4>4. c <= i BY <1>7, <4>1, <4>3, EndsOnce
        <4> QED BY <1>1, <4>1, <4>4
      <3> QED BY <3>1, <3>2
    <2> QED BY <2>1, <2>2
  <1>11. d[m] = d[m - 1] + up * len
    <2>1. CASE up = 0
      <3>1. up * len = 0 BY <1>6, <2>1
      <3> QED BY <1>1, <1>4, <1>10, <2>1, <3>1
    <2>2. CASE up > 0 BY <1>10, <2>2
    <2> QED BY <1>9, <2>1, <2>2
  <1>12. ASSUME NEW k \in 0 .. up, NEW w \in H[i].written, f.start <= w.pos
         PROVE  Shift(w, d[m - 1] + k * len) \in read
    <2>1. CASE k = up
      <3>1. ~(m < Len(F)) /\ m # 0 BY <1>1, <1>3
      <3>2. Shift(w, d[m]) \in read BY <1>9, <1>12, <3>1 DEF Reached, From
      <3> QED BY <1>11, <2>1, <3>2
    <2>2. CASE k # up
      <3>1. k \in 0 .. up - 1 /\ up > 0 BY <1>9, <2>2
      <3> QED BY <1>10, <1>12, <3>1
    <2> QED BY <2>1, <2>2
  <1> QED BY <1>1, <1>2, <1>3, <1>4, <1>6, <1>7, <1>9, <1>11, <1>12

\* Where a structure of several elements began nothing of it was written.
LEMMA NothingYet ==
  ASSUME NEW H, NEW n, NEW max, NEW a, NEW e, Trail(H, n, max, a, e), NEW i \in a .. e,
         NEW j \in DOMAIN H[i].frames, NEW f, f = H[i].frames[j], f.left > 1,
         NEW b, b = f.node, NEW w \in H[b + 1].written
  PROVE  ~(f.start <= w.pos)
  <1>1. /\ b \in Nat /\ b + 1 \in a .. e /\ f.start = H[b + 1].layout.pos /\ SpillTop <= f.start
        /\ f.start \in Nat
    <2> DEFINE g == H[i].frames[j]
               c == g.node
    <2>1. /\ c \in Nat /\ c + 1 \in a .. e /\ (g.left > 1 => g.start = H[c + 1].layout.pos)
          /\ (g.left > 1 => SpillTop <= g.start) /\ g.start \in Nat
      <3>1. OpenedAt(H, n, max, a, e, i, j) BY OpenFacts
      <3> QED BY <3>1 DEF OpenedAt
    <2>2. g = f /\ c = b OBVIOUS
    <2> HIDE DEF c, g
    <2> QED BY <2>1, <2>2
  <1>2. Sound(H[b + 1], a, b + 1, n) BY <1>1 DEF Trail
  <1>3. Lies(w, H[b + 1].layout) /\ H[b + 1].layout.pos \in Nat /\ SpillTop \in Nat
    <2>1. H[b + 1].layout.pos \in Nat /\ SpillTop \in Nat BY <1>2, SoundFacts
    <2>2. Lies(w, H[b + 1].layout) BY <1>2 DEF Sound
    <2> QED BY <2>1, <2>2
  <1>4. w.pos \in Nat /\ (w.pos < SpillTop \/ w.pos < H[b + 1].layout.pos) BY <1>3 DEF Lies
  <1> DEFINE p == w.pos
             q == H[b + 1].layout.pos
             z == f.start
  <1>5. /\ p \in Nat /\ q \in Nat /\ z \in Nat /\ SpillTop \in Nat /\ z = q /\ SpillTop <= z
        /\ p < SpillTop \/ p < q
    BY <1>1, <1>3, <1>4
  <1> HIDE DEF p, q, z
  <1>6. ~(z <= p) BY <1>5
  <1> QED BY <1>6 DEF p, z

\* What a structure holds when it ends lies in its image.
LEMMA Image ==
  ASSUME NEW H, NEW n, NEW max, NEW a, NEW e, Trail(H, n, max, a, e), NEW i \in a .. e,
         NEW j \in DOMAIN H[i].frames, NEW f, f = H[i].frames[j], f.left > 1,
         NEW w \in H[i].written, f.start <= w.pos
  PROVE  /\ w = [node |-> w.node, pos |-> w.pos, data |-> w.data] /\ w.pos \in Nat
         /\ w.pos >= f.start /\ w.pos < H[i].layout.pos
  <1>1. SpillTop <= f.start /\ f.start \in Nat
    <2>1. OpenedAt(H, n, max, a, e, i, j) BY OpenFacts
    <2> QED BY <2>1 DEF OpenedAt
  <1>2. Sound(H[i], a, i, n) BY DEF Trail
  <1>3. H[i].layout.pos \in Nat /\ SpillTop \in Nat BY <1>2, SoundFacts
  <1>4. Lies(w, H[i].layout) BY <1>2 DEF Sound
  <1> QED BY <1>1, <1>3, <1>4 DEF Lies

\* The first walk behind the node where a structure begins.
SinceOpened(H, a, e, i, j) ==
  LET f == H[i].frames[j]
      b == f.node
      t == H[b + 1]
  IN  /\ b \in Nat /\ b < i /\ b + 1 \in a .. e /\ f.start \in Nat
      /\ Len(t.frames) = j /\ DOMAIN t.frames = 1 .. j /\ t.frames[j] = f
      /\ f.start = t.layout.pos
      /\ t.layout.vpos = H[i].layout.vpos /\ t.layout.argc = H[i].layout.argc
      /\ \A h \in 1 .. j - 1 : t.frames[h] = H[i].frames[h]

\* It was there for every structure of several elements.
LEMMA AgainFacts ==
  ASSUME NEW H, NEW n, NEW max, NEW a, NEW e, Trail(H, n, max, a, e), NEW i \in a .. e,
         NEW j \in DOMAIN H[i].frames, H[i].frames[j].left > 1
  PROVE  SinceOpened(H, a, e, i, j)
  <1> DEFINE f == H[i].frames[j]
             b == f.node
             t == H[b + 1]
  <1>0. OpenedAt(H, n, max, a, e, i, j) BY OpenFacts
  <1>1. /\ b \in Nat /\ b < i /\ b + 1 \in a .. e /\ i \in Nat /\ f.start \in Nat
        /\ Len(t.frames) = j /\ DOMAIN t.frames = 1 .. j /\ t.frames[j] = f
        /\ (f.left > 1 => f.start = t.layout.pos)
    BY <1>0 DEF OpenedAt
  <1>2. \A k \in b + 1 .. i : /\ H[k].layout.vpos = H[i].layout.vpos
                              /\ H[k].layout.argc = H[i].layout.argc
    BY OpenSince
  <1>3. \A h \in 1 .. j - 1 : t.frames[h] = H[i].frames[h] BY <1>0 DEF OpenedAt
  <1>4. b + 1 \in b + 1 .. i
    <2>1. b \in Nat /\ b < i /\ i \in Nat BY <1>1
    <2> HIDE DEF b
    <2> QED BY <2>1
  <1>5. f.left > 1 OBVIOUS
  <1> QED BY <1>1, <1>2, <1>3, <1>4, <1>5 DEF SinceOpened

\* ... and behind the node where one ends.
LEMMA EndedFacts ==
  ASSUME NEW H, NEW n, NEW max, NEW a, NEW e, Trail(H, n, max, a, e), NEW i \in a .. e, i < e,
         IsEnd(n, max, H[i], i)
  PROVE  LET m == Len(H[i].frames)
             s == H[i + 1]
         IN  /\ i + 1 \in a .. e /\ Sound(s, a, i + 1, n) /\ EndStep(H[i], s)
             /\ IsList(s.frames) /\ Len(s.frames) = m - 1 /\ DOMAIN s.frames = 1 .. m - 1
             /\ \A h \in 1 .. m - 1 : s.frames[h] = H[i].frames[h]
  <1> DEFINE m == Len(H[i].frames)
             s == H[i + 1]
  <1>1. /\ i + 1 \in a .. e /\ Sound(H[i], a, i, n) /\ Sound(s, a, i + 1, n)
        /\ EndStep(H[i], s)
    BY StepThere
  <1>2. IsList(H[i].frames) /\ H[i].frames # <<>> BY <1>1, SoundFacts DEF IsEnd
  <1>3. s.frames = SubSeq(H[i].frames, 1, m - 1) BY <1>1 DEF EndStep
  <1>4. /\ IsList(s.frames) /\ Len(s.frames) = m - 1 /\ DOMAIN s.frames = 1 .. m - 1
        /\ \A h \in 1 .. m - 1 : s.frames[h] = H[i].frames[h]
    <2> HIDE DEF s
    <2> QED BY <1>2, <1>3, ShrunkList
  <1> QED BY <1>1, <1>4

\* The structure at the top, one element further.
NextElement(F, G) ==
  LET m == Len(F)
  IN  /\ IsList(G) /\ Len(G) = m /\ \A j \in 1 .. m - 1 : G[j] = F[j]
      /\ G[m].node = F[m].node /\ G[m].max = F[m].max /\ G[m].up = F[m].up + 1
      /\ G[m].left = F[m].left - 1

\* An element ends and others follow: the second walk is one image further when it walks the
\* structure again.
LEMMA SecondEndNext ==
  ASSUME NEW H, NEW n, NEW max, NEW a, NEW e, Trail(H, n, max, a, e), NEW d, NEW i, NEW F, NEW l,
         NEW read, NEW written, Second(H, n, max, a, e, d, i, F, l, read, written), i < e,
         IsEnd(n, max, H[i], i), F[Len(F)].left > 1, NEW G, NextElement(F, G)
  PROVE  \E c : Second(H, n, max, a, e, c, F[Len(F)].node + 1, G, l, read, written)
  <1> DEFINE m == Len(F)
             r == H[i]
             s == H[i + 1]
             f == r.frames[m]
             b == f.node
             t == H[b + 1]
             start == f.start
             len == r.layout.pos - start
             up == F[m].up
             c == [d EXCEPT ![m] = d[m] + len]
  <1>20. /\ IsList(G) /\ Len(G) = m /\ \A j \in 1 .. m - 1 : G[j] = F[j]
         /\ G[m].node = F[m].node /\ G[m].max = F[m].max /\ G[m].up = F[m].up + 1
         /\ G[m].left = F[m].left - 1
    BY DEF NextElement
  <1>21. m = Len(F) /\ F[m].left > 1 OBVIOUS
  <1>1. /\ i \in a .. e /\ i \in Nat /\ m \in Nat /\ Sound(r, a, i, n) /\ Len(r.frames) = m
        /\ \A j \in 0 .. m : d[j] \in Nat
        /\ DOMAIN r.frames = 1 .. m /\ DOMAIN F = 1 .. m
        /\ IsLayout(l) /\ l.pos = r.layout.pos + d[m]
        /\ l.vpos = r.layout.vpos /\ l.argc = r.layout.argc
        /\ d[0] = 0
    BY SecondFacts
  <1>2. /\ 1 <= m /\ m - 1 \in Nat /\ m \in DOMAIN r.frames
        /\ EndsAt(H, n, max, e, i, m, f)
        /\ len \in Nat /\ start + len = r.layout.pos /\ up \in Nat
        /\ F[m].left \in Nat \ {0} /\ up + F[m].left = f.left
        /\ F[m].node = b
    BY EndFacts
  <1>22. /\ d[m] = d[m - 1] + up * len
         /\ \A k \in 0 .. up : \A w \in r.written :
              start <= w.pos => Shift(w, d[m - 1] + k * len) \in read
    BY EndFacts
  <1>23. /\ i + 1 \in a .. e /\ EndStep(r, s) /\ DOMAIN s.frames = 1 .. m - 1
         /\ \A h \in 1 .. m - 1 : s.frames[h] = r.frames[h]
    <2>1. /\ i + 1 \in a .. e /\ EndStep(r, s) /\ DOMAIN s.frames = 1 .. Len(r.frames) - 1
          /\ \A h \in 1 .. Len(r.frames) - 1 : s.frames[h] = r.frames[h]
      BY <1>1, EndedFacts
    <2> HIDE DEF r, s, m
    <2> QED BY <1>1, <2>1
  <1>0. G[m].up = up + 1 /\ up + 1 > 0 /\ (up + 1) - 1 = up
    <2>1. up \in Nat /\ G[m].up = up + 1 BY <1>2, <1>20
    <2> HIDE DEF up
    <2> QED BY <2>1
  <1> HIDE DEF m
  <1>3. f.left \in Nat /\ f.left > 1 /\ up + 1 \in Nat /\ up + 1 \in 1 .. f.left - 1
        /\ F[m].left - 1 \in Nat \ {0} /\ up + 1 + (F[m].left - 1) = f.left
    <2> DEFINE x == F[m].left
               y == f.left
    <2>1. up \in Nat /\ x \in Nat \ {0} /\ up + x = y /\ x > 1 BY <1>2, <1>21
    <2> HIDE DEF up, x, y
    <2>2. /\ y \in Nat /\ y > 1 /\ up + 1 \in Nat /\ up + 1 \in 1 .. y - 1
          /\ x - 1 \in Nat \ {0} /\ up + 1 + (x - 1) = y
      BY <2>1
    <2> QED BY <2>2 DEF x, y
  <1>4. /\ b \in Nat /\ b < i /\ b + 1 \in a .. e
        /\ Len(t.frames) = m /\ DOMAIN t.frames = 1 .. m /\ t.frames[m] = f
        /\ start = t.layout.pos /\ start \in Nat
        /\ t.layout.vpos = r.layout.vpos /\ t.layout.argc = r.layout.argc
        /\ \A h \in 1 .. m - 1 : t.frames[h] = r.frames[h]
    <2>1. i \in a .. e /\ m \in DOMAIN H[i].frames /\ H[i].frames[m].left > 1 BY <1>1, <1>2, <1>3
    <2>2. SinceOpened(H, a, e, i, m) BY <2>1, AgainFacts
    <2> QED BY <2>2 DEF SinceOpened
  <1> HIDE DEF up, b
  <1>5. /\ c \in [0 .. m -> Nat] /\ c[m] = d[m] + len /\ c[0] = 0
        /\ \A j \in 0 .. m - 1 : c[j] = d[j]
        /\ \A j \in 1 .. m - 1 : j \in 0 .. m - 1 /\ j - 1 \in 0 .. m - 1
        /\ d[m] \in Nat /\ d[m - 1] \in Nat
        /\ \A j \in 1 .. m : j \in 1 .. m - 1 \/ j = m
        /\ \A j \in 0 .. m : j \in 0 .. m - 1 \/ j = m
    <2>1. d \in [0 .. m -> Nat] BY <1>21 DEF Second
    <2>2. m \in 0 .. m /\ m - 1 \in 0 .. m /\ m # 0 /\ m - 1 # m BY <1>1, <1>2
    <2>3. d[m] + len \in Nat BY <1>1, <1>2, <2>2
    <2> HIDE DEF len
    <2>4. /\ c \in [0 .. m -> Nat] /\ c[m] = d[m] + len
          /\ \A j \in 0 .. m : j # m => c[j] = d[j]
      BY <2>1, <2>2, <2>3
    <2> HIDE DEF c
    <2>5. \A j \in 0 .. m - 1 : j \in 0 .. m /\ j # m BY <1>1
    <2>6. \A j \in 1 .. m - 1 : j \in 0 .. m - 1 /\ j - 1 \in 0 .. m - 1 BY <1>1
    <2>7. /\ \A j \in 1 .. m : j \in 1 .. m - 1 \/ j = m
          /\ \A j \in 0 .. m : j \in 0 .. m - 1 \/ j = m
      BY <1>1
    <2>8. c[0] = 0 /\ \A j \in 0 .. m - 1 : c[j] = d[j]
      <3>1. 0 \in 0 .. m - 1 BY <1>2
      <3> QED BY <1>1, <2>4, <2>5, <3>1
    <2> QED BY <1>1, <2>2, <2>4, <2>6, <2>7, <2>8
  <1>6. /\ \A j \in 1 .. m :
             /\ F[j].node = r.frames[j].node /\ F[j].max = r.frames[j].max
             /\ F[j].up \in Nat /\ F[j].left \in Nat \ {0}
             /\ F[j].up + F[j].left = r.frames[j].left
        /\ \A j \in 1 .. m : Passed(H, n, max, e, i, F, d, read, j)
        /\ \A j \in 0 .. m : Reached(H, i, F, d, read, j) /\ Carried(H, a, e, i, d, written, j)
        /\ read \subseteq written
    BY <1>1, <1>21 DEF Second
  <1>7. DOMAIN G = 1 .. m BY <1>20, ListFacts
  <1> HIDE DEF c
  <1>8. \A j \in DOMAIN G :
          /\ G[j].node = t.frames[j].node /\ G[j].max = t.frames[j].max
          /\ G[j].up \in Nat /\ G[j].left \in Nat \ {0}
          /\ G[j].up + G[j].left = t.frames[j].left
    <2> TAKE j \in DOMAIN G
    <2>1. CASE j \in 1 .. m - 1
      <3>1. j \in 1 .. m /\ G[j] = F[j] /\ t.frames[j] = r.frames[j] BY <1>4, <1>7, <1>20, <2>1
      <3> QED BY <1>6, <3>1
    <2>2. CASE j = m
      <3>1. m \in 1 .. m BY <1>1, <1>2
      <3>2. F[m].node = f.node /\ F[m].max = f.max BY <1>6, <3>1
      <3>3. G[m].up = up + 1 /\ G[m].left = F[m].left - 1 BY <1>20 DEF up
      <3> QED BY <1>3, <1>4, <1>20, <2>2, <3>2, <3>3
    <2> QED BY <1>5, <1>7, <2>1, <2>2
  <1> DEFINE o == b + 1
  <1>9. o \in a .. e /\ t = H[o] BY <1>4
  <1> HIDE DEF o, t
  <1>10. ASSUME NEW j \in 1 .. m PROVE Passed(H, n, max, e, o, G, c, read, j)
    <2>1. CASE j \in 1 .. m - 1
      <3>1. H[o].frames[j] = H[i].frames[j] BY <1>4, <1>9, <2>1
      <3>2. G[j].up = F[j].up /\ c[j] = d[j] /\ c[j - 1] = d[j - 1] BY <1>5, <1>20, <2>1
      <3> QED BY <1>6, <3>1, <3>2, PassedKept
    <2>2. CASE j = m
      <3>1. m - 1 \in 0 .. m - 1 BY <1>2
      <3>2. c[m - 1] = d[m - 1] BY <1>5, <3>1
      <3>3. c[m] = c[m - 1] + (up + 1) * len
        <4> DEFINE x == up * len
        <4>0. len \in Nat /\ up \in Nat BY <1>2
        <4>1. (up + 1) * len = x + len /\ x \in Nat
          <5> HIDE DEF len
          <5> QED BY <4>0
        <4>2. d[m] = d[m - 1] + x BY <1>22
        <4> HIDE DEF x, len
        <4>3. c[m] = d[m - 1] + (x + len) BY <1>5, <4>0, <4>1, <4>2
        <4> QED BY <3>2, <4>1, <4>3
      <3>5. \A k \in 0 .. G[m].up - 1 : \A w \in r.written :
              start <= w.pos => Shift(w, c[m - 1] + k * len) \in read
        BY <1>0, <1>22, <3>2
      <3>6. H[o].frames[m] = f BY <1>4, <1>9
      <3>7. c[m] = c[m - 1] + G[m].up * len /\ G[m].up > 0 BY <1>0, <3>3
      <3>8. G[m].up # 0 BY <3>7
      <3> DEFINE x == G[m].up
      <3> HIDE DEF x
      <3>9. /\ x # 0
            /\ EndsAt(H, n, max, e, i, m, H[o].frames[m])
            /\ c[m] = c[m - 1] + x * (H[i].layout.pos - H[o].frames[m].start)
            /\ \A k \in 0 .. x - 1 : \A w \in H[i].written :
                 H[o].frames[m].start <= w.pos =>
                   Shift(w, c[m - 1] + k * (H[i].layout.pos - H[o].frames[m].start)) \in read
        BY <1>2, <3>5, <3>6, <3>7, <3>8 DEF x
      <3>10. Passed(H, n, max, e, o, G, c, read, m) BY <3>9 DEF Passed, x
      <3> QED BY <2>2, <3>10
    <2> QED BY <1>5, <2>1, <2>2
  <1>11. ASSUME NEW j \in 0 .. m PROVE Reached(H, o, G, c, read, j)
    <2>1. CASE j \in 0 .. m - 1
      <3>1. j \in Nat /\ j < m /\ j + 1 \in 1 .. m /\ (j # 0 => j \in 1 .. m - 1)
            /\ j \in 0 .. m
        BY <1>1, <2>1
      <3>2. j # 0 => H[o].frames[j] = H[i].frames[j] BY <1>4, <1>9, <3>1
      <3>3. G[j + 1].node = F[j + 1].node BY <1>5, <1>20, <3>1
      <3>4. c[j] = d[j] BY <1>5, <2>1
      <3>5. j < Len(F) /\ j < Len(G) /\ Reached(H, i, F, d, read, j) BY <1>6, <1>20, <1>21, <3>1
      <3> QED BY <3>1, <3>2, <3>3, <3>4, <3>5, ReachedKept
    <2>2. CASE j = m
      <3>1. ~(j < Len(G)) /\ j # 0 BY <1>1, <1>2, <1>20, <2>2
      <3>2. ASSUME NEW w \in H[o].written PROVE ~(start <= w.pos)
        BY <1>1, <1>2, <1>3, <3>2, NothingYet DEF o, b
      <3>3. From(H[o].frames, j) = start BY <1>4, <1>9, <2>2, <3>1 DEF From
      <3> QED BY <3>1, <3>2, <3>3 DEF Reached
    <2> QED BY <1>5, <2>1, <2>2
  <1>12. ASSUME NEW j \in 0 .. m PROVE Carried(H, a, e, o, c, written, j)
    <2>1. CASE j \in 0 .. m - 1
      <3>1. (j # 0 => j \in 1 .. m - 1) BY <1>1, <2>1
      <3>2. j # 0 => H[o].frames[j] = H[i].frames[j] BY <1>4, <1>9, <3>1
      <3>3. c[j] = d[j] BY <1>5, <2>1
      <3> QED BY <1>6, <3>2, <3>3, CarriedKept
    <2>2. CASE j = m
      <3>1. From(H[o].frames, j) = start /\ H[o].frames[j] = f /\ j # 0
        BY <1>2, <1>4, <1>9, <2>2 DEF From
      <3> SUFFICES ASSUME NEW k \in a .. e, m \in DOMAIN H[k].frames, H[k].frames[m] = f,
                          NEW w \in H[k].written, start <= w.pos
                   PROVE  Shift(w, c[m]) \in written
        BY <2>2, <3>1 DEF Carried
      <3>2. k <= i BY <1>2, EndsOnce
      <3>3. w \in r.written
        <4>1. H[k].written \subseteq H[i].written BY <1>1, <3>2 DEF Trail
        <4> QED BY <4>1
      <3>4. /\ w = [node |-> w.node, pos |-> w.pos, data |-> w.data] /\ w.pos \in Nat
            /\ w.pos >= start /\ w.pos < r.layout.pos
        BY <1>1, <1>2, <1>3, <3>3, Image
      <3> DEFINE x == (up + 1) * len
                 u == Shift(w, x)
                 of == {v \in r.written : v.pos >= start /\ v.pos < r.layout.pos}
                 dim == f.left
      <3>5. EndStep(r, s) /\ i + 1 \in a .. e
            /\ \A h \in 1 .. m - 1 : h \in DOMAIN s.frames /\ s.frames[h] = r.frames[h]
        BY <1>23
      <3>6. u \in s.written
        <4>1. s.written = r.written \cup CopiesOf(of, len, dim) BY <1>1, <3>5 DEF EndStep
        <4>2. w \in of BY <3>3, <3>4
        <4>3. up + 1 \in 1 .. dim - 1 BY <1>3
        <4> HIDE DEF of, dim, len
        <4>4. u \in CopiesOf(of, len, dim) BY <4>2, <4>3 DEF CopiesOf, Shift
        <4> QED BY <4>1, <4>4
      <3>7. x \in Nat /\ c[m] = x + d[m - 1]
        <4> DEFINE y == up * len
        <4>0. len \in Nat /\ up \in Nat BY <1>2
        <4>1. x = y + len /\ y \in Nat
          <5> HIDE DEF len
          <5> QED BY <4>0
        <4>2. d[m] = d[m - 1] + y BY <1>22
        <4> HIDE DEF y, len, x
        <4> QED BY <1>5, <4>0, <4>1, <4>2
      <3> HIDE DEF x
      <3>8. /\ u.pos = w.pos + x
            /\ Shift(u, d[m - 1]) = Shift(w, x + d[m - 1])
        <4> DEFINE y == d[m - 1]
        <4>1. y \in Nat BY <1>5
        <4>2. w = [node |-> w.node, pos |-> w.pos, data |-> w.data] /\ w.pos \in Nat BY <3>4
        <4> HIDE DEF y
        <4>3. u.pos = w.pos + x /\ Shift(u, y) = Shift(w, x + y) BY <3>7, <4>1, <4>2, ShiftFacts
        <4> QED BY <4>3 DEF y
      <3> HIDE DEF u
      <3>9. From(r.frames, m - 1) <= u.pos
        <4>1. From(r.frames, m - 1) <= start BY <1>1, <1>2, StartsOrdered
        <4>2. From(r.frames, m - 1) \in Nat
          <5>1. CASE m - 1 = 0 BY <5>1 DEF From
          <5>2. CASE m - 1 # 0
            <6>1. m - 1 \in DOMAIN r.frames BY <1>1, <1>2, <5>2
            <6>2. r.frames[m - 1].start \in Nat BY <1>1, <6>1 DEF Sound
            <6> QED BY <5>2, <6>2 DEF From
          <5> QED BY <5>1, <5>2
        <4> HIDE DEF r, start
        <4> QED BY <1>4, <3>4, <3>7, <3>8, <4>1, <4>2
      <3>10. m - 1 = 0 \/ (m - 1 \in DOMAIN s.frames /\ s.frames[m - 1] = r.frames[m - 1])
        <4>1. m - 1 # 0 => m - 1 \in 1 .. m - 1
          <5> DEFINE p == m - 1
          <5>1. p \in Nat BY <1>2
          <5> HIDE DEF p
          <5>2. p # 0 => p \in 1 .. p BY <5>1
          <5> QED BY <5>2 DEF p
        <4> QED BY <3>5, <4>1
      <3>11. Carried(H, a, e, i, d, written, m - 1)
        <4>1. m - 1 \in 0 .. m BY <1>1, <1>2
        <4> QED BY <1>6, <4>1
      <3>12. Shift(u, d[m - 1]) \in written BY <3>5, <3>6, <3>9, <3>10, <3>11 DEF Carried
      <3> QED BY <3>7, <3>8, <3>12
    <2> QED BY <1>5, <2>1, <2>2
  <1>13. /\ l.pos = t.layout.pos + c[m] /\ l.vpos = t.layout.vpos /\ l.argc = t.layout.argc
    <2> HIDE DEF r, start, len
    <2> QED BY <1>1, <1>2, <1>4, <1>5
  <1>14. /\ l.pos = H[o].layout.pos + c[m]
         /\ l.vpos = H[o].layout.vpos /\ l.argc = H[o].layout.argc
         /\ Len(H[o].frames) = m
         /\ \A j \in DOMAIN G :
              /\ G[j].node = H[o].frames[j].node /\ G[j].max = H[o].frames[j].max
              /\ G[j].up \in Nat /\ G[j].left \in Nat \ {0}
              /\ G[j].up + G[j].left = H[o].frames[j].left
    BY <1>4, <1>8, <1>9, <1>13
  <1>15. Second(H, n, max, a, e, c, o, G, l, read, written)
    BY <1>1, <1>5, <1>6, <1>9, <1>10, <1>11, <1>12, <1>14, <1>20 DEF Second
  <1>16. F[Len(F)].node + 1 = o BY <1>2, <1>21 DEF o
  <1> QED BY <1>15, <1>16

\* The last element ends: the second walk is behind the structure, as far as it was around it,
\* and has read what the structure wrote and its copies.
LEMMA SecondEndLast ==
  ASSUME NEW H, NEW n, NEW max, NEW a, NEW e, Trail(H, n, max, a, e), NEW d, NEW i, NEW F, NEW l,
         NEW read, NEW written, Second(H, n, max, a, e, d, i, F, l, read, written), i < e,
         IsEnd(n, max, H[i], i), F[Len(F)].left = 1
  PROVE  \E c : Second(H, n, max, a, e, c, i + 1, SubSeq(F, 1, Len(F) - 1), l, read, written)
  <1> DEFINE m == Len(F)
             q == m - 1
             r == H[i]
             s == H[i + 1]
             f == r.frames[m]
             b == f.node
             start == f.start
             len == r.layout.pos - start
             up == F[m].up
             G == SubSeq(F, 1, Len(F) - 1)
             c == [j \in 0 .. q |-> d[j]]
  <1>1. /\ i \in a .. e /\ i \in Nat /\ m \in Nat /\ Sound(r, a, i, n) /\ Len(r.frames) = m
        /\ \A j \in 0 .. m : d[j] \in Nat
        /\ DOMAIN r.frames = 1 .. m /\ DOMAIN F = 1 .. m
        /\ IsLayout(l) /\ l.pos = r.layout.pos + d[m]
        /\ l.vpos = r.layout.vpos /\ l.argc = r.layout.argc
        /\ d[0] = 0 /\ IsList(F) /\ (F = <<>> <=> m = 0)
    BY SecondFacts
  <1>2. /\ 1 <= m /\ q \in Nat /\ m \in DOMAIN r.frames
        /\ len \in Nat /\ start + len = r.layout.pos /\ up \in Nat
        /\ F[m].left \in Nat \ {0} /\ up + F[m].left = f.left
        /\ F[m].node = b
    BY EndFacts
  <1>3. /\ d[m] = d[q] + up * len
        /\ \A k \in 0 .. up : \A w \in r.written :
             start <= w.pos => Shift(w, d[q] + k * len) \in read
    BY EndFacts
  <1>4. F[m].left = 1 /\ m = Len(F) OBVIOUS
  <1>5. f.left = up + 1 /\ f.left - 1 = up /\ f.left \in Nat \ {0}
    <2> DEFINE x == f.left
    <2>1. up \in Nat /\ x = up + 1 BY <1>2, <1>4
    <2> HIDE DEF up, x
    <2>2. x = up + 1 /\ x - 1 = up /\ x \in Nat \ {0} BY <2>1
    <2> QED BY <2>2 DEF x
  <1>6. /\ i + 1 \in a .. e /\ EndStep(r, s) /\ Sound(s, a, i + 1, n)
        /\ Len(s.frames) = q /\ DOMAIN s.frames = 1 .. q
        /\ \A h \in 1 .. q : s.frames[h] = r.frames[h]
    <2>1. /\ i + 1 \in a .. e /\ EndStep(r, s) /\ Sound(s, a, i + 1, n)
          /\ Len(s.frames) = Len(r.frames) - 1 /\ DOMAIN s.frames = 1 .. Len(r.frames) - 1
          /\ \A h \in 1 .. Len(r.frames) - 1 : s.frames[h] = r.frames[h]
      <3>1. i \in a .. e BY <1>1
      <3> QED BY <3>1, EndedFacts
    <2> HIDE DEF r, s, m
    <2> QED BY <1>1, <2>1
  <1>7. /\ IsList(G) /\ Len(G) = q /\ DOMAIN G = 1 .. q
        /\ \A j \in 1 .. q : G[j] = F[j]
    <2>1. F # <<>> BY <1>1, <1>2
    <2> QED BY <1>1, <2>1, ShrunkList
  <1> HIDE DEF m, G
  <1>8. /\ m = q + 1 /\ q < m
        /\ \A j \in 0 .. q : j \in 0 .. m
        /\ \A j \in 1 .. q : j \in 1 .. m /\ j \in 0 .. q /\ j - 1 \in 0 .. q
        /\ \A j \in 0 .. q : j \in Nat /\ (j # 0 => j \in 1 .. q)
        /\ \A j \in 0 .. q : j # q => j < q /\ j < m /\ j + 1 \in 1 .. q /\ j + 1 \in 1 .. m
        /\ q \in 0 .. q /\ 0 \in 0 .. q
    <2>1. m \in Nat /\ q = m - 1 /\ q \in Nat BY <1>1, <1>2
    <2>2. m = q + 1 BY <2>1
    <2> HIDE DEF q
    <2> QED BY <2>1, <2>2
  <1> HIDE DEF q
  <1>9. /\ c \in [0 .. q -> Nat] /\ c[0] = 0 /\ \A j \in 0 .. q : c[j] = d[j]
        /\ d[q] \in Nat
    BY <1>1, <1>8
  <1> HIDE DEF c
  <1>10. /\ \A j \in 1 .. m :
             /\ F[j].node = r.frames[j].node /\ F[j].max = r.frames[j].max
             /\ F[j].up \in Nat /\ F[j].left \in Nat \ {0}
             /\ F[j].up + F[j].left = r.frames[j].left
         /\ \A j \in 1 .. m : Passed(H, n, max, e, i, F, d, read, j)
         /\ \A j \in 0 .. m : Reached(H, i, F, d, read, j) /\ Carried(H, a, e, i, d, written, j)
         /\ read \subseteq written
    BY <1>1, <1>4 DEF Second
  <1>11. \A j \in DOMAIN G :
           /\ G[j].node = s.frames[j].node /\ G[j].max = s.frames[j].max
           /\ G[j].up \in Nat /\ G[j].left \in Nat \ {0}
           /\ G[j].up + G[j].left = s.frames[j].left
    BY <1>6, <1>7, <1>8, <1>10
  <1> DEFINE o == i + 1
  <1>12. o \in a .. e /\ s = H[o] BY <1>6
  <1> HIDE DEF o, s
  <1>13. ASSUME NEW j \in 1 .. q PROVE Passed(H, n, max, e, o, G, c, read, j)
    <2>1. H[o].frames[j] = H[i].frames[j] BY <1>6, <1>12
    <2>2. G[j].up = F[j].up /\ c[j] = d[j] /\ c[j - 1] = d[j - 1] BY <1>7, <1>8, <1>9
    <2> QED BY <1>8, <1>10, <2>1, <2>2, PassedKept
  <1>14. ASSUME NEW j \in 0 .. q PROVE Carried(H, a, e, o, c, written, j)
    <2>1. j # 0 => H[o].frames[j] = H[i].frames[j] BY <1>6, <1>8, <1>12
    <2> QED BY <1>8, <1>9, <1>10, <2>1, CarriedKept
  <1> DEFINE of == {v \in r.written : v.pos >= start /\ v.pos < r.layout.pos}
             dim == f.left
             from == From(r.frames, q)
  <1>15. s.written = r.written \cup CopiesOf(of, len, dim)
         /\ s.layout = Copied(r.layout, len, dim)
    BY <1>1, <1>6 DEF EndStep
  <1>16. from = From(s.frames, q) BY <1>6, <1>8 DEF From
  <1>17. ASSUME NEW w \in r.written, from <= w.pos PROVE Shift(w, d[q]) \in read
    <2>1. CASE w \in H[b].written
      <3>1. Reached(H, i, F, d, read, q) BY <1>8, <1>10
      <3>2. F[q + 1].node = b /\ q < Len(F) BY <1>2, <1>4, <1>8
      <3> QED BY <1>17, <2>1, <3>1, <3>2 DEF Reached
    <2>2. CASE start <= w.pos
      <3> DEFINE z == 0
      <3>1. z \in 0 .. up /\ z * len = 0 BY <1>2
      <3>2. Shift(w, d[q] + z * len) \in read BY <1>3, <2>2, <3>1
      <3>3. d[q] + z * len = d[q] BY <1>9, <3>1
      <3> QED BY <3>2, <3>3
    <2>3. w \in H[b].written \/ start <= w.pos
      <3>1. i \in a .. e /\ m \in DOMAIN H[i].frames BY <1>1, <1>2
      <3>2. \A x \in H[i].written : x \in H[H[i].frames[m].node].written \/ H[i].frames[m].start <= x.pos
        BY <3>1, OpenOver
      <3> QED BY <3>2
    <2> QED BY <2>1, <2>2, <2>3
  <1>18. ASSUME NEW w \in CopiesOf(of, len, dim) PROVE Shift(w, d[q]) \in read
    <2>1. PICK v \in of, k \in 1 .. dim - 1 : w = Shift(v, k * len)
      <3> HIDE DEF of, dim, len
      <3> QED BY DEF CopiesOf, Shift
    <2>2. k \in 0 .. up /\ k \in Nat
      <3> HIDE DEF dim
      <3>1. dim - 1 = up /\ up \in Nat BY <1>2, <1>5 DEF dim
      <3> QED BY <3>1
    <2>3. v \in r.written /\ start <= v.pos
          /\ v = [node |-> v.node, pos |-> v.pos, data |-> v.data] /\ v.pos \in Nat
      <3>1. v \in r.written /\ v.pos >= start OBVIOUS
      <3>2. v = [node |-> v.node, pos |-> v.pos, data |-> v.data] /\ v.pos \in Nat
        BY <1>1, <3>1 DEF Sound, Lies
      <3>3. start \in Nat BY <1>1, <1>2 DEF Sound
      <3> HIDE DEF start
      <3>4. start <= v.pos BY <3>1, <3>2, <3>3
      <3> QED BY <3>1, <3>2, <3>4
    <2> DEFINE x == k * len
               y == d[q]
    <2>4. x \in Nat
      <3>1. len \in Nat BY <1>2
      <3> HIDE DEF len
      <3> QED BY <2>2, <3>1
    <2>5. y \in Nat BY <1>9
    <2>6. Shift(v, y + x) \in read BY <1>3, <2>2, <2>3
    <2>7. w = Shift(v, x) BY <2>1
    <2> HIDE DEF x, y
    <2>8. Shift(w, y) = Shift(v, x + y) /\ x + y = y + x BY <2>3, <2>4, <2>5, <2>7, ShiftFacts
    <2>9. Shift(w, y) \in read BY <2>6, <2>8
    <2> QED BY <2>9 DEF y
  <1> HIDE DEF from, of, dim
  <1>19. ASSUME NEW j \in 0 .. q PROVE Reached(H, o, G, c, read, j)
    <2>1. CASE j # q
      <3>1. j # 0 => H[o].frames[j] = H[i].frames[j] BY <1>6, <1>8, <1>12
      <3>2. G[j + 1].node = F[j + 1].node BY <1>7, <1>8, <2>1
      <3>3. c[j] = d[j] BY <1>9
      <3>4. j \in Nat /\ j < Len(F) /\ j < Len(G) /\ Reached(H, i, F, d, read, j)
        BY <1>4, <1>7, <1>8, <1>10, <2>1
      <3> QED BY <3>1, <3>2, <3>3, <3>4, ReachedKept
    <2>2. CASE j = q
      <3>1. ~(j < Len(G)) BY <1>2, <1>7, <2>2
      <3>2. \A w \in s.written : From(s.frames, j) <= w.pos => Shift(w, c[j]) \in read
        BY <1>8, <1>9, <1>15, <1>16, <1>17, <1>18, <2>2
      <3> QED BY <1>12, <3>1, <3>2 DEF Reached
    <2> QED BY <2>1, <2>2
  <1>20. l.pos = s.layout.pos + c[q] /\ l.vpos = s.layout.vpos /\ l.argc = s.layout.argc
    <2> DEFINE x == up * len
               k == r.layout
    <2>0. len \in Nat /\ up \in Nat BY <1>2
    <2>1. x \in Nat
      <3> HIDE DEF len
      <3> QED BY <2>0
    <2>2. k.pos \in Nat /\ IsLayout(k) BY <1>1, SoundFacts
    <2>3. /\ s.layout.argc = k.argc /\ s.layout.vpos = k.vpos /\ s.layout.pos = k.pos + x
      <3>1. dim - 1 = up /\ dim \in Nat \ {0} BY <1>5 DEF dim
      <3>2. s.layout = Copied(k, len, dim) BY <1>15
      <3>3. len \in Int /\ k.pos \in Int BY <2>0, <2>2
      <3> HIDE DEF k, len, x
      <3>4. /\ s.layout.argc = k.argc /\ s.layout.vpos = k.vpos
            /\ s.layout.pos = k.pos + (dim - 1) * len
        <4> DEFINE y == (dim - 1) * len
                   p == Copied(k, len, dim)
        <4>1. dim \in Nat \ {0} BY <3>1
        <4>2. p.argc = k.argc /\ p.vpos = k.vpos /\ p.pos = k.pos + y
          BY <2>2, <3>3, <4>1, CopiedFacts
        <4> HIDE DEF p, y
        <4>3. s.layout.argc = k.argc /\ s.layout.vpos = k.vpos /\ s.layout.pos = k.pos + y
          BY <3>2, <4>2 DEF p
        <4> QED BY <4>3 DEF y
      <3> QED BY <3>1, <3>4 DEF x
    <2>4. d[m] = d[q] + x /\ l.pos = k.pos + d[m] /\ l.vpos = k.vpos /\ l.argc = k.argc
      BY <1>1, <1>3
    <2>5. c[q] = d[q] BY <1>8, <1>9
    <2> HIDE DEF x, k
    <2> QED BY <1>9, <2>1, <2>2, <2>3, <2>4, <2>5
  <1>21. Second(H, n, max, a, e, c, o, G, l, read, written)
    BY <1>1, <1>6, <1>7, <1>9, <1>10, <1>11, <1>12, <1>13, <1>14, <1>19, <1>20 DEF Second
  <1> QED BY <1>21 DEF o, G

\* A set of naturals that is not empty has a least member.
LEMMA LeastOf ==
  ASSUME NEW T, T \subseteq Nat, T # {}
  PROVE  \E x \in T : \A y \in T : x <= y
  <1>1. PICK x \in T : \A y \in T : ~(<<y, x>> \in OpToRel(<, Nat))
    BY NatLessThanWellFounded, WFMin
  <1>2. ASSUME NEW y \in T PROVE x <= y
    <2>1. x \in Nat /\ y \in Nat OBVIOUS
    <2>2. ~(y < x) BY <1>1, <2>1 DEF OpToRel
    <2> QED BY <2>1, <2>2
  <1> QED BY <1>2

\* The second walk is over: all that was written has been read.
LEMMA SecondOver ==
  ASSUME NEW H, NEW n, NEW max, NEW a, NEW e, Trail(H, n, max, a, e), NEW d, NEW i, NEW F, NEW l,
         NEW read, NEW written, Second(H, n, max, a, e, d, i, F, l, read, written),
         OverAt(n, max, H[i], i), written = H[e].written
  PROVE  read = written
  <1> DEFINE z == Len(F)
             r == H[i]
  <1>1. /\ i \in a .. e /\ i \in Nat /\ z \in Nat /\ Sound(r, a, i, n)
        /\ DOMAIN r.frames = 1 .. z /\ d[0] = 0
    BY SecondFacts
  <1>2. i = e
    <2>1. e \in Nat BY DEF Trail
    <2>2. ~(i < e) BY <1>1, StepThere
    <2> QED BY <1>1, <2>1, <2>2
  <1> HIDE DEF r
  <1>3. ASSUME NEW j \in 1 .. z PROVE d[j] = d[j - 1]
    <2>1. Passed(H, n, max, e, i, F, d, read, j) /\ F[j].up \in Nat
      <3>1. j \in DOMAIN F BY SecondFacts
      <3> QED BY <3>1 DEF Second
    <2>2. ~(F[j].up > 0)
      <3> SUFFICES ASSUME F[j].up > 0 PROVE FALSE OBVIOUS
      <3>1. PICK c : EndsAt(H, n, max, e, c, j, H[i].frames[j]) BY <2>1 DEF Passed
      <3>2. j \in DOMAIN H[i].frames BY <1>1 DEF r
      <3>3. i <= c /\ c \in Nat /\ c + 1 \in a .. e BY <1>1, <3>1, <3>2, EndsOnce
      <3>4. e \in Nat /\ a \in Nat BY DEF Trail
      <3> QED BY <1>1, <1>2, <3>3, <3>4
    <2>3. F[j].up = 0 BY <2>1, <2>2
    <2> QED BY <2>1, <2>3 DEF Passed
  <1> HIDE DEF z
  <1>4. \A j \in 0 .. z : d[j] = 0
    <2> SUFFICES ASSUME {j \in 0 .. z : d[j] # 0} # {} PROVE FALSE OBVIOUS
    <2> DEFINE T == {h \in 0 .. z : d[h] # 0}
    <2>1. PICK j \in T : \A h \in T : j <= h
      <3>1. T \subseteq Nat /\ T # {} BY <1>1
      <3> HIDE DEF T
      <3> QED BY <3>1, LeastOf
    <2>2. j \in 1 .. z /\ j - 1 \in 0 .. z /\ ~(j <= j - 1) BY <1>1, <2>1
    <2>3. d[j - 1] = 0 BY <2>1, <2>2
    <2> QED BY <1>3, <2>1, <2>2, <2>3
  <1>5. ASSUME NEW j \in 0 .. z, NEW w \in H[IF j < z THEN F[j + 1].node ELSE i].written,
               From(r.frames, j) <= w.pos,
               w = [node |-> w.node, pos |-> w.pos, data |-> w.data], w.pos \in Nat
        PROVE  w \in read
    <2>1. Reached(H, i, F, d, read, j) BY DEF Second, z
    <2>2. Shift(w, d[j]) \in read BY <1>5, <2>1 DEF Reached, z, r
    <2> DEFINE o == 0
    <2>3. o \in Nat /\ d[j] = o BY <1>4
    <2>4. Shift(w, 0) = w BY <1>5, <2>3, ShiftFacts
    <2> QED BY <2>2, <2>3, <2>4
  <1>6. ASSUME NEW w \in r.written PROVE w \in read
    <2>1. w = [node |-> w.node, pos |-> w.pos, data |-> w.data] /\ w.pos \in Nat
      BY <1>1 DEF Sound, Lies
    <2> DEFINE T == {k \in 1 .. z : w.pos < r.frames[k].start}
    <2>0. \A k \in 1 .. z : r.frames[k].start \in Nat BY <1>1 DEF Sound
    <2>2. CASE T = {}
      <3>1. ~(z < z) /\ z \in 0 .. z BY <1>1
      <3>2. From(r.frames, z) <= w.pos
        <4>1. CASE z = 0 BY <2>1, <4>1 DEF From
        <4>2. CASE z # 0
          <5>1. z \in 1 .. z BY <1>1, <4>2
          <5>2. ~(w.pos < r.frames[z].start) BY <2>2, <5>1
          <5> QED BY <2>0, <2>1, <4>2, <5>1, <5>2 DEF From
        <4> QED BY <4>1, <4>2
      <3>3. w \in H[IF z < z THEN F[z + 1].node ELSE i].written BY <3>1 DEF r
      <3> QED BY <1>5, <2>1, <3>1, <3>2, <3>3
    <2>3. CASE T # {}
      <3>1. PICK k \in T : \A h \in T : k <= h
        <4>1. T \subseteq Nat OBVIOUS
        <4> HIDE DEF T
        <4> QED BY <2>3, <4>1, LeastOf
      <3> DEFINE j == k - 1
      <3>2. /\ k \in 1 .. z /\ w.pos < r.frames[k].start /\ k \in Nat
            /\ j \in 0 .. z /\ j < z /\ j + 1 = k /\ ~(k <= j) /\ (j # 0 => j \in 1 .. z)
        BY <1>1, <3>1
      <3> HIDE DEF j
      <3>3. From(r.frames, j) <= w.pos
        <4>1. CASE j = 0 BY <2>1, <4>1 DEF From
        <4>2. CASE j # 0
          <5>1. ~(w.pos < r.frames[j].start) BY <3>1, <3>2, <4>2
          <5> QED BY <2>0, <2>1, <3>2, <4>2, <5>1 DEF From
        <4> QED BY <4>1, <4>2
      <3>4. w \in H[F[k].node].written
        <4>1. k \in DOMAIN H[i].frames /\ k \in DOMAIN F
          <5>1. k \in 1 .. Len(F) BY <3>2 DEF z
          <5> QED BY <5>1, SecondFacts
        <4>2. F[k].node = H[i].frames[k].node BY <4>1 DEF Second
        <4>3. w \in H[H[i].frames[k].node].written \/ H[i].frames[k].start <= w.pos
          BY <1>1, <4>1, OpenOver DEF r
        <4>4. ~(r.frames[k].start <= w.pos) BY <2>0, <2>1, <3>2
        <4> QED BY <4>2, <4>3, <4>4 DEF r
      <3>5. w \in H[IF j < z THEN F[j + 1].node ELSE i].written BY <3>2, <3>4
      <3> QED BY <1>5, <2>1, <3>2, <3>3, <3>5
    <2> QED BY <2>2, <2>3
  <1>7. read \subseteq written BY DEF Second
  <1> QED BY <1>2, <1>6, <1>7 DEF r

-----------------------------------------------------------------------------
(* The invariant of the two walks                                            *)

\* What the walk has made now.
Snap == [layout |-> pgm.layout, frames |-> pgm.frames, written |-> pgm.written]

\* The first walk came to this node.
FirstWalk == \E H : Trail(H, nodes, pgm.max, conn.last + 1, at) /\ H[at] = Snap

\* The first walk is over.
Walked(H, e) ==
  /\ Trail(H, nodes, pgm.max, conn.last + 1, e) /\ OverAt(nodes, pgm.max, H[e], e)
  /\ H[e].written = pgm.written

\* The second walk came to this node.
SecondWalk ==
  \E H, e, d :
    /\ Walked(H, e)
    /\ Second(H, nodes, pgm.max, conn.last + 1, e, d, at, pgm.frames, pgm.layout, pgm.read,
              pgm.written)

TwoWalks ==
  /\ pgm.read \subseteq pgm.written
  /\ pc = "params" => pgm.step \in {1, 3}
  /\ pc = "params" /\ pgm.step = 1 => pgm.read = {} /\ (rc = "ok" => FirstWalk)
  /\ pc = "pgmcall" => /\ pgm.step = 1 /\ pgm.read = {} /\ pgm.frames = <<>>
                       /\ \E H, e : Walked(H, e)
  /\ pc = "params" /\ pgm.step = 3 => rc = "ok" /\ SecondWalk
  /\ pc = "pgmend" /\ rc = "ok" => pgm.read = pgm.written

\* There are registers for the arguments.
EnoughRegisters == pgm.step = 1 => pgm.layout.argc < MaxArgs

\* No document gives an array of structures by value.
SingleByValue ==
  \A name \in DOMAIN Documents : LET list == NodesOf(Documents[name]) IN
    \A i \in DOMAIN list : list[i].elem = "ds" => OneByValue(list, i)

\* What the documents say of a node of the list.
LEMMA NumbersAt ==
  ASSUME RInv, WalkInv, pc # "idle", NEW i \in Nat \ {0}, i <= Len(nodes)
  PROVE  /\ Numbers(nodes, i)
         /\ SingleByValue /\ nodes[i].elem = "ds" => OneByValue(nodes, i)
  <1>1. /\ IsList(nodes) /\ nodes = NodesOf(Documents[Head(reqs)])
        /\ reqs # <<>> /\ reqs \in Seq(DOMAIN Documents)
    BY DEF RInv, Types, WalkInv
  <1>2. i \in DOMAIN nodes BY <1>1, ListFacts
  <1>3. Head(reqs) \in DOMAIN Documents BY <1>1
  <1>4. /\ AttrOr(nodes[i], "dim", 1) \in Int
        /\ TypeOf(nodes[i]).len \in Int /\ TypeOf(nodes[i]).vary \in Nat
    BY <1>1, <1>2, <1>3, NumbersAssumption
  <1>5. DimOf(nodes[i]) \in Nat \ {0} BY <1>4 DEF DimOf
  <1>6. SingleByValue /\ nodes[i].elem = "ds" => OneByValue(nodes, i)
    BY <1>1, <1>2, <1>3 DEF SingleByValue
  <1> QED BY <1>4, <1>5, <1>6 DEF Numbers

\* Both walks look at a node in the same way.
LEMMA WalksLook ==
  ASSUME NEW s, pgm.frames = <<>> <=> s.frames = <<>>,
         pgm.frames # <<>> => Top.max = s.frames[Len(s.frames)].max, NEW step
  PROVE  /\ Walking(step, "beg", "s") =>
              IsData(nodes, pgm.max, s, at) /\ ~OverAt(nodes, pgm.max, s, at)
         /\ Walking(step, "beg", "ds") =>
              IsDs(nodes, pgm.max, s, at) /\ ~OverAt(nodes, pgm.max, s, at)
         /\ InDs /\ Walking(step, "end", "ds") =>
              IsEnd(nodes, pgm.max, s, at) /\ ~OverAt(nodes, pgm.max, s, at)
         /\ PassParam =>
              /\ ~IsData(nodes, pgm.max, s, at) /\ ~IsDs(nodes, pgm.max, s, at)
              /\ ~IsEnd(nodes, pgm.max, s, at) /\ ~OverAt(nodes, pgm.max, s, at)
         /\ ParamsEnd /\ rc = "ok" => OverAt(nodes, pgm.max, s, at)
  <1>1. InDs <=> s.frames # <<>> BY DEF InDs
  <1>2. Looked <=> LooksAt(nodes, pgm.max, s, at) BY <1>1 DEF Looked, LooksAt, InDs, N
  <1>3. \A key, elem : Is(at, key, elem) <=> NodeIs(nodes, at, key, elem) BY DEF Is, NodeIs, N
  <1>4. Walking(step, "beg", "s") =>
          IsData(nodes, pgm.max, s, at) /\ ~OverAt(nodes, pgm.max, s, at)
    BY <1>2, <1>3 DEF Walking, IsData, OverAt, NodeIs
  <1>5. Walking(step, "beg", "ds") =>
          IsDs(nodes, pgm.max, s, at) /\ ~OverAt(nodes, pgm.max, s, at)
    BY <1>2, <1>3 DEF Walking, IsDs, OverAt, NodeIs
  <1>6. InDs /\ Walking(step, "end", "ds") =>
          IsEnd(nodes, pgm.max, s, at) /\ ~OverAt(nodes, pgm.max, s, at)
    BY <1>1, <1>2, <1>3 DEF Walking, IsEnd, OverAt, NodeIs
  <1>7. PassParam =>
          /\ ~IsData(nodes, pgm.max, s, at) /\ ~IsDs(nodes, pgm.max, s, at)
          /\ ~IsEnd(nodes, pgm.max, s, at) /\ ~OverAt(nodes, pgm.max, s, at)
    <2> SUFFICES ASSUME PassParam
        PROVE  /\ ~IsData(nodes, pgm.max, s, at) /\ ~IsDs(nodes, pgm.max, s, at)
               /\ ~IsEnd(nodes, pgm.max, s, at) /\ ~OverAt(nodes, pgm.max, s, at)
      OBVIOUS
    <2>1. /\ at <= Len(nodes)
          /\ Looked => /\ ~(nodes[at].key = "beg" /\ nodes[at].elem \in {"s", "ds"})
                       /\ ~Is(at, "end", IF InDs THEN "ds" ELSE "pgm")
      BY DEF PassParam, N
    <2> QED BY <1>1, <1>2, <1>3, <2>1 DEF IsData, IsDs, IsEnd, OverAt, NodeIs
  <1>8. ParamsEnd /\ rc = "ok" => OverAt(nodes, pgm.max, s, at)
    BY <1>1, <1>2, <1>3 DEF ParamsEnd, OverAt, N
  <1> QED BY <1>4, <1>5, <1>6, <1>7, <1>8

-----------------------------------------------------------------------------
(* Each step of the two walks                                                *)

\* A step of the first walk.
LEMMA FirstGoes ==
  ASSUME TwoWalks, pc = "params", pgm.step = 1, pc' = "params", pgm'.step = 1,
         pgm'.read = pgm.read, rc' = "ok" => FirstWalk'
  PROVE  TwoWalks'
  <1>1. pgm.read = {} BY DEF TwoWalks
  <1>2. pgm'.read = {} BY <1>1
  <1> HIDE DEF FirstWalk
  <1> QED BY <1>2 DEF TwoWalks

\* Where the first walk is, with the node and what Sound says of it.
LEMMA FirstHere ==
  ASSUME RInv, WalkInv, TwoWalks, EnoughRegisters, pc = "params", pgm.step = 1, rc = "ok"
  PROVE  /\ \E H : Trail(H, nodes, pgm.max, conn.last + 1, at) /\ H[at] = Snap
         /\ PgmOK /\ at \in Nat \ {0} /\ Laid(pgm.layout, pgm.frames)
         /\ Snap.frames = pgm.frames /\ Snap.layout = pgm.layout /\ Snap.written = pgm.written
  <1>1. FirstWalk BY DEF TwoWalks
  <1>2. PgmOK BY DEF RInv, Types
  <1>3. at \in Nat \ {0} /\ Laid(pgm.layout, pgm.frames) BY DEF WalkInv
  <1>4. Snap.frames = pgm.frames /\ Snap.layout = pgm.layout /\ Snap.written = pgm.written
    BY DEF Snap
  <1> QED BY <1>1, <1>2, <1>3, <1>4 DEF FirstWalk

\* What the step makes of the layout is good while there are registers.
LEMMA StepGood ==
  ASSUME WalkInv', EnoughRegisters', pgm'.step = 1
  PROVE  /\ Good(Snap'.layout) /\ Snap'.layout.argc < MaxArgs
         /\ Snap'.layout = pgm'.layout /\ Snap'.frames = pgm'.frames
         /\ Snap'.written = pgm'.written
  <1>1. Snap'.layout = pgm'.layout /\ Snap'.frames = pgm'.frames /\ Snap'.written = pgm'.written
    BY DEF Snap
  <1>2. pgm'.layout.argc < MaxArgs BY DEF EnoughRegisters
  <1>3. Laid(pgm'.layout, pgm'.frames) BY DEF WalkInv
  <1> QED BY <1>1, <1>2, <1>3 DEF Laid

\* Passing a node in the first walk keeps the two walks together.
LEMMA PassFirst ==
  ASSUME RInv, WalkInv, TwoWalks, EnoughRegisters, PassParam, pgm.step = 1
  PROVE  TwoWalks'
  <1>1. /\ pc = "params" /\ rc = "ok" /\ at' = at + 1 /\ UNCHANGED <<nodes, pc, rc, conn, pgm>>
    BY DEF PassParam
  <1>2. PICK H : Trail(H, nodes, pgm.max, conn.last + 1, at) /\ H[at] = Snap
    BY <1>1, FirstHere
  <1>3. Snap.frames = pgm.frames BY DEF Snap
  <1>4. /\ ~IsData(nodes, pgm.max, H[at], at) /\ ~IsDs(nodes, pgm.max, H[at], at)
        /\ ~IsEnd(nodes, pgm.max, H[at], at) /\ ~OverAt(nodes, pgm.max, H[at], at)
    BY <1>2, <1>3, WalksLook DEF Top
  <1>5. \E G : Trail(G, nodes, pgm.max, conn.last + 1, at + 1) /\ G[at + 1] = H[at]
    <2> DEFINE a == conn.last + 1
    <2>1. Trail(H, nodes, pgm.max, a, at) BY <1>2
    <2> HIDE DEF a
    <2>2. \E G : Trail(G, nodes, pgm.max, a, at + 1) /\ G[at + 1] = H[at]
      BY <1>4, <2>1, TrailPasses
    <2> QED BY <2>2 DEF a
  <1>6. Snap' = Snap BY <1>1 DEF Snap
  <1>7. FirstWalk' BY <1>1, <1>2, <1>5, <1>6 DEF FirstWalk
  <1> QED BY <1>1, <1>7, FirstGoes

\* Placing a value does.
LEMMA DataInFirst ==
  ASSUME RInv, WalkInv, TwoWalks, EnoughRegisters, DataIn, WalkInv', EnoughRegisters'
  PROVE  TwoWalks'
  <1> DEFINE type == TypeOf(nodes[at])
             size == SizeAt(nodes, at)
             by   == By(AttrOr(nodes[at], "by", ""), size, InDs)
  <1>1. /\ Walking(1, "beg", "s") /\ pc = "params" /\ rc = "ok" /\ pgm.step = 1 /\ at <= Len(nodes)
        /\ at' = at + 1 /\ UNCHANGED <<nodes, pc, conn>>
        /\ rc' = IF KnownType(type) THEN "ok" ELSE "error"
        /\ IF type.len < 1 THEN UNCHANGED pgm
           ELSE pgm' = [pgm EXCEPT !.layout = Added(@, by, size),
                                   !.written = @ \cup
                                     {[node |-> at, pos |-> Where(pgm.layout, by, size),
                                       data |-> Stored(type, ValueOf(nodes[at]))]}]
    BY DEF DataIn, Walking, Is, N, SizeAt
  <1>2. PgmOK /\ at \in Nat \ {0} BY <1>1, FirstHere
  <1>3. pgm'.step = 1 /\ pgm'.read = pgm.read BY <1>1, <1>2 DEF PgmOK
  <1>4. ASSUME rc' = "ok" PROVE FirstWalk'
    <2>1. KnownType(type) /\ ~(type.len < 1)
      <3>1. KnownType(type) BY <1>1, <1>4
      <3>2. Numbers(nodes, at) BY <1>1, <1>2, NumbersAt
      <3> QED BY <3>1, <3>2 DEF KnownType, Numbers
    <2>2. PICK H : Trail(H, nodes, pgm.max, conn.last + 1, at) /\ H[at] = Snap
      BY <1>1, FirstHere
    <2>3. Snap.frames = pgm.frames /\ Snap.layout = pgm.layout /\ Snap.written = pgm.written
      BY DEF Snap
    <2>4. IsData(nodes, pgm.max, H[at], at) /\ ~OverAt(nodes, pgm.max, H[at], at)
      BY <1>1, <2>2, <2>3, WalksLook DEF Top
    <2>5. /\ pgm'.layout = Added(pgm.layout, by, size) /\ pgm'.frames = pgm.frames
          /\ pgm'.written = pgm.written \cup
               {[node |-> at, pos |-> Where(pgm.layout, by, size),
                 data |-> Stored(type, ValueOf(nodes[at]))]}
          /\ pgm'.max = pgm.max
      <3> HIDE DEF by, size, type
      <3> QED BY <1>1, <1>2, <2>1 DEF PgmOK
    <2>6. ByAt(nodes, H[at], at, size) = by BY <2>2, <2>3 DEF ByAt, InDs
    <2>7. DataStep(nodes, H[at], Snap', at)
      <3> HIDE DEF by
      <3>1. /\ Snap'.layout = pgm'.layout /\ Snap'.frames = pgm'.frames
            /\ Snap'.written = pgm'.written
        BY DEF Snap
      <3> QED BY <2>1, <2>2, <2>3, <2>5, <2>6, <3>1 DEF DataStep
    <2>8. Good(Snap'.layout) /\ Snap'.layout.argc < MaxArgs BY <1>3, StepGood
    <2>9. Numbers(nodes, at) BY <1>1, <1>2, NumbersAt
    <2>10. \E G : Trail(G, nodes, pgm.max, conn.last + 1, at + 1) /\ G[at + 1] = Snap'
      <3> DEFINE a == conn.last + 1
                 s == Snap'
      <3>1. Trail(H, nodes, pgm.max, a, at) BY <2>2
      <3>2. DataStep(nodes, H[at], s, at) /\ Good(s.layout) /\ s.layout.argc < MaxArgs
        BY <2>7, <2>8
      <3> HIDE DEF a, s
      <3>3. \E G : Trail(G, nodes, pgm.max, a, at + 1) /\ G[at + 1] = s
        BY <2>4, <2>9, <3>1, <3>2, TrailData
      <3> QED BY <3>3 DEF a, s
    <2> QED BY <1>1, <2>5, <2>10 DEF FirstWalk
  <1> QED BY <1>1, <1>3, <1>4, FirstGoes

\* Entering a structure in the first walk does.
LEMMA DsInFirst ==
  ASSUME RInv, WalkInv, TwoWalks, EnoughRegisters, DsIn, WalkInv', EnoughRegisters', SingleByValue
  PROVE  TwoWalks'
  <1> DEFINE by == By(AttrOr(nodes[at], "by", ""), 0, InDs)
             f  == FrameOf(at, DimOf(nodes[at]), Where(pgm.layout, by, 0))
  <1>1. /\ Walking(1, "beg", "ds") /\ pc = "params" /\ rc = "ok" /\ pgm.step = 1 /\ at <= Len(nodes)
        /\ nodes[at].elem = "ds" /\ at' = at + 1 /\ UNCHANGED <<nodes, pc, rc, conn>>
        /\ pgm' = [pgm EXCEPT !.layout = Added(@, by, 0), !.frames = Append(@, f)]
    BY DEF DsIn, Walking, Is, N, PlaceDs, StartOf
  <1>2. PgmOK /\ at \in Nat \ {0} /\ Laid(pgm.layout, pgm.frames) BY <1>1, FirstHere
  <1>3. /\ f.node = at /\ f.left = DimOf(nodes[at]) /\ f.start = Where(pgm.layout, by, 0)
        /\ f.max = IF at < Len(nodes) THEN nodes[at + 1].ord ELSE 0
    BY DEF FrameOf, DeepestIn, N
  <1>4. PICK H : Trail(H, nodes, pgm.max, conn.last + 1, at) /\ H[at] = Snap
    BY <1>1, FirstHere
  <1>5. Snap.frames = pgm.frames /\ Snap.layout = pgm.layout /\ Snap.written = pgm.written
    BY DEF Snap
  <1>6. IsDs(nodes, pgm.max, H[at], at) /\ ~OverAt(nodes, pgm.max, H[at], at)
    BY <1>1, <1>4, <1>5, WalksLook DEF Top
  <1>7. ByAt(nodes, H[at], at, 0) = by BY <1>4, <1>5 DEF ByAt, InDs
  <1> HIDE DEF by, f
  <1>8. /\ pgm'.layout = Added(pgm.layout, by, 0) /\ pgm'.frames = Append(pgm.frames, f)
        /\ pgm'.written = pgm.written /\ pgm'.max = pgm.max
        /\ pgm'.step = 1 /\ pgm'.read = pgm.read
    BY <1>1, <1>2 DEF PgmOK
  <1>9. pgm'.frames[Len(pgm'.frames)] = f
    <2>1. IsList(pgm.frames) BY <1>2 DEF Laid
    <2>2. Len(Append(pgm.frames, f)) = Len(pgm.frames) + 1
          /\ Append(pgm.frames, f)[Len(pgm.frames) + 1] = f
      BY <2>1, GrownList
    <2> QED BY <1>8, <2>2
  <1>10. DsStep(nodes, H[at], Snap', at)
    <2>1. Snap'.layout = pgm'.layout /\ Snap'.frames = pgm'.frames /\ Snap'.written = pgm'.written
      BY DEF Snap
    <2> QED BY <1>3, <1>4, <1>5, <1>7, <1>8, <1>9, <2>1 DEF DsStep
  <1>11. Good(Snap'.layout) /\ Snap'.layout.argc < MaxArgs BY <1>8, StepGood
  <1>12. Numbers(nodes, at) /\ OneByValue(nodes, at) BY <1>1, <1>2, NumbersAt
  <1>13. \E G : Trail(G, nodes, pgm.max, conn.last + 1, at + 1) /\ G[at + 1] = Snap'
    <2> DEFINE a == conn.last + 1
               s == Snap'
    <2>1. Trail(H, nodes, pgm.max, a, at) BY <1>4
    <2>2. DsStep(nodes, H[at], s, at) /\ Good(s.layout) /\ s.layout.argc < MaxArgs
      BY <1>10, <1>11
    <2> HIDE DEF a, s
    <2>3. \E G : Trail(G, nodes, pgm.max, a, at + 1) /\ G[at + 1] = s
      BY <1>6, <1>12, <2>1, <2>2, TrailDs
    <2> QED BY <2>3 DEF a, s
  <1>14. FirstWalk' BY <1>1, <1>8, <1>13 DEF FirstWalk
  <1> QED BY <1>1, <1>8, <1>14, FirstGoes

\* Leaving it does.
LEMMA EndDsInFirst ==
  ASSUME RInv, WalkInv, TwoWalks, EnoughRegisters, EndDsIn, WalkInv', EnoughRegisters'
  PROVE  TwoWalks'
  <1> DEFINE len == pgm.layout.pos - Top.start
             of  == {w \in pgm.written : w.pos >= Top.start /\ w.pos < pgm.layout.pos}
  <1>1. /\ InDs /\ Walking(1, "end", "ds") /\ pc = "params" /\ rc = "ok" /\ pgm.step = 1
        /\ at' = at + 1 /\ UNCHANGED <<nodes, pc, rc, conn>>
        /\ pgm' = [pgm EXCEPT !.layout = Copied(pgm.layout, len, Top.left),
                              !.written = @ \cup CopiesOf(of, len, Top.left), !.frames = Popped]
    BY DEF EndDsIn, Walking
  <1>2. PgmOK BY <1>1, FirstHere
  <1>3. PICK H : Trail(H, nodes, pgm.max, conn.last + 1, at) /\ H[at] = Snap
    BY <1>1, FirstHere
  <1>4. Snap.frames = pgm.frames /\ Snap.layout = pgm.layout /\ Snap.written = pgm.written
    BY DEF Snap
  <1>5. IsEnd(nodes, pgm.max, H[at], at) /\ ~OverAt(nodes, pgm.max, H[at], at)
    BY <1>1, <1>3, <1>4, WalksLook DEF Top
  <1>6. /\ pgm'.layout = Copied(pgm.layout, len, Top.left) /\ pgm'.frames = Popped
        /\ pgm'.written = pgm.written \cup CopiesOf(of, len, Top.left) /\ pgm'.max = pgm.max
        /\ pgm'.step = 1 /\ pgm'.read = pgm.read
    <2> HIDE DEF len, of
    <2> QED BY <1>1, <1>2 DEF PgmOK
  <1>7. EndStep(H[at], Snap')
    <2>1. Snap'.layout = pgm'.layout /\ Snap'.frames = pgm'.frames /\ Snap'.written = pgm'.written
      BY DEF Snap
    <2>2. /\ Snap'.layout = Copied(pgm.layout, len, Top.left)
          /\ Snap'.written = pgm.written \cup CopiesOf(of, len, Top.left)
          /\ Snap'.frames = SubSeq(pgm.frames, 1, Len(pgm.frames) - 1)
      BY <1>6, <2>1 DEF Popped
    <2>3. H[at].frames = pgm.frames /\ H[at].layout = pgm.layout /\ H[at].written = pgm.written
      BY <1>3, <1>4
    <2> QED BY <2>2, <2>3 DEF EndStep, Top
  <1>8. Good(Snap'.layout) /\ Snap'.layout.argc < MaxArgs BY <1>6, StepGood
  <1>9. \E G : Trail(G, nodes, pgm.max, conn.last + 1, at + 1) /\ G[at + 1] = Snap'
    <2> DEFINE a == conn.last + 1
               s == Snap'
    <2>1. Trail(H, nodes, pgm.max, a, at) BY <1>3
    <2>2. EndStep(H[at], s) /\ Good(s.layout) /\ s.layout.argc < MaxArgs BY <1>7, <1>8
    <2> HIDE DEF a, s
    <2>3. \E G : Trail(G, nodes, pgm.max, a, at + 1) /\ G[at + 1] = s
      BY <1>5, <2>1, <2>2, TrailEnd
    <2> QED BY <2>3 DEF a, s
  <1>10. FirstWalk' BY <1>1, <1>6, <1>9 DEF FirstWalk
  <1> QED BY <1>1, <1>6, <1>10, FirstGoes

\* A program begins with a new layout.
LEMMA PgmBeginFirst ==
  ASSUME RInv, TwoWalks, PgmBegin
  PROVE  TwoWalks'
  <1>1. /\ pc = "conn" /\ at \in Nat \ {0} /\ UNCHANGED nodes
        /\ conn' = [conn EXCEPT !.last = at]
    BY DEF PgmBegin, Child, RInv, Positions, InCall
  <1>2. conn'.last = at BY <1>1 DEF RInv, Types, ConnOK
  <1>3. /\ pc' = IF rc' = "ok" THEN "params" ELSE "pgmend"
        /\ at' = IF rc' = "ok" THEN at + 1 ELSE at
        /\ pgm'.layout = NewLayout /\ pgm'.frames = <<>> /\ pgm'.step = 1
        /\ pgm'.read = {} /\ pgm'.written = {}
    <2>1. PICK a \in (IF InMemory(conn.type) THEN {Outcome(db2, 0, "ok")} ELSE NewStmt(db2, conn.hdbc)) :
            \E p \in (IF InMemory(conn.type) \/ a.ans # "ok" THEN {a.ans} ELSE Answers(a.db2, a.h)) :
              LET r     == RcOf(a.db2, a.h, p)
                  named == HasAttr(N[at], "name")
              IN  /\ rc' = r
                  /\ pgm' = [NoPgm EXCEPT !.stmt = a.h, !.mem = InMemory(conn.type),
                                          !.begun = r = "ok" /\ named, !.step = 1,
                                          !.max = DeepestIn(at)]
                  /\ pc' = IF r = "ok" THEN "params" ELSE "pgmend"
                  /\ at' = IF r = "ok" THEN at + 1 ELSE at
      BY ZenonT(60) DEF PgmBegin
    <2> QED BY <2>1 DEF NoPgm
  <1>4. ASSUME rc' = "ok" PROVE FirstWalk'
    <2> DEFINE s == Snap'
               a == at + 1
    <2>1. s.layout = NewLayout /\ s.frames = <<>> /\ s.written = {} BY <1>3 DEF Snap
    <2>2. /\ IsLayout(NewLayout) /\ Good(NewLayout) /\ NewLayout.argc = 0
          /\ NewLayout.pos = SpillTop /\ NewLayout.vpos = ArgvTop
      <3>1. Good(NewLayout) BY InitGood
      <3>2. IsLayout(NewLayout) BY <3>1 DEF IsLayout, Good, LayoutType
      <3> QED BY <3>1, <3>2 DEF NewLayout, ResetPos
    <2>3. a \in Nat \ {0} BY <1>1
    <2> HIDE DEF s, a
    <2>4. DOMAIN s.frames = {} /\ IsList(s.frames) BY <2>1, ShortLists
    <2>5. s.layout.argc < MaxArgs BY <2>1, <2>2 DEF MaxArgs
    <2>6. Sound(s, a, a, nodes) BY <2>1, <2>2, <2>4, <2>5 DEF Sound, Unique
    <2>7. \E H : Trail(H, nodes, pgm'.max, a, a) /\ H[a] = s
      <3> DEFINE x == pgm'.max
      <3> HIDE DEF x
      <3>1. Fresh(s) BY <2>1, <2>2 DEF Fresh
      <3>2. \E H : Trail(H, nodes, x, a, a) /\ H[a] = s BY <2>3, <2>6, <3>1, TrailBegins
      <3> QED BY <3>2 DEF x
    <2> QED BY <1>1, <1>2, <1>3, <1>4, <2>7 DEF FirstWalk, s, a
  <1> HIDE DEF FirstWalk
  <1> QED BY <1>3, <1>4 DEF TwoWalks

\* The second walk and the first look at the same.
LEMMA SecondHere ==
  ASSUME RInv, WalkInv, TwoWalks, pc = "params", pgm.step = 3,
         NEW H, NEW e, NEW d, Walked(H, e),
         Second(H, nodes, pgm.max, conn.last + 1, e, d, at, pgm.frames, pgm.layout, pgm.read,
                pgm.written)
  PROVE  /\ PgmOK /\ at \in Nat \ {0} /\ at \in conn.last + 1 .. e
         /\ pgm.frames = <<>> <=> H[at].frames = <<>>
         /\ pgm.frames # <<>> =>
              /\ Top.max = H[at].frames[Len(H[at].frames)].max
              /\ Len(pgm.frames) \in DOMAIN pgm.frames
         /\ IsList(pgm.frames) /\ DOMAIN pgm.frames = 1 .. Len(pgm.frames) /\ Len(pgm.frames) \in Nat
         /\ at <= Len(nodes) => Numbers(nodes, at)
         /\ e \in Nat /\ e \in conn.last + 1 .. e
  <1> DEFINE a == conn.last + 1
             max == pgm.max
  <1>0. PgmOK BY DEF RInv, Types
  <1>1. Trail(H, nodes, max, a, e) BY DEF Walked
  <1>2. Second(H, nodes, max, a, e, d, at, pgm.frames, pgm.layout, pgm.read, pgm.written) OBVIOUS
  <1> HIDE DEF a, max
  <1>3. /\ at \in a .. e /\ at \in Nat /\ IsList(pgm.frames) /\ Len(pgm.frames) \in Nat
        /\ Len(H[at].frames) = Len(pgm.frames)
        /\ DOMAIN pgm.frames = 1 .. Len(pgm.frames)
        /\ (pgm.frames = <<>>) <=> (H[at].frames = <<>>)
        /\ (pgm.frames = <<>>) <=> (Len(pgm.frames) = 0)
    BY <1>1, <1>2, SecondFacts
  <1>4. a \in Nat \ {0} /\ e \in Nat /\ e \in a .. e BY <1>1 DEF Trail
  <1>5. at \in Nat \ {0} BY <1>3, <1>4
  <1>6. ASSUME pgm.frames # <<>>
        PROVE  /\ Top.max = H[at].frames[Len(H[at].frames)].max
               /\ Len(pgm.frames) \in DOMAIN pgm.frames
    <2>1. Len(pgm.frames) \in DOMAIN pgm.frames BY <1>3, <1>6
    <2>2. pgm.frames[Len(pgm.frames)].max = H[at].frames[Len(pgm.frames)].max
      BY <1>2, <2>1 DEF Second
    <2> QED BY <1>3, <2>1, <2>2 DEF Top
  <1>7. at <= Len(nodes) => Numbers(nodes, at) BY <1>5, NumbersAt
  <1> QED BY <1>0, <1>3, <1>4, <1>5, <1>6, <1>7 DEF a

\* A step of the second walk.
LEMMA SecondGoes ==
  ASSUME TwoWalks, pc = "params", pgm.step = 3, pc' = "params", rc' = "ok", pgm'.step = 3,
         SecondWalk', pgm'.read \subseteq pgm'.written
  PROVE  TwoWalks'
  <1> HIDE DEF SecondWalk
  <1> QED BY DEF TwoWalks

\* Passing a node in the second walk does.
LEMMA PassSecond ==
  ASSUME RInv, WalkInv, TwoWalks, PassParam, pgm.step = 3
  PROVE  TwoWalks'
  <1>1. /\ pc = "params" /\ rc = "ok" /\ at' = at + 1 /\ UNCHANGED <<nodes, pc, rc, conn, pgm>>
    BY DEF PassParam
  <1>2. PICK H, e, d :
          /\ Walked(H, e)
          /\ Second(H, nodes, pgm.max, conn.last + 1, e, d, at, pgm.frames, pgm.layout, pgm.read,
                    pgm.written)
    BY <1>1 DEF TwoWalks, SecondWalk
  <1>3. /\ at \in conn.last + 1 .. e /\ e \in Nat /\ at \in Nat
        /\ pgm.frames = <<>> <=> H[at].frames = <<>>
        /\ pgm.frames # <<>> => Top.max = H[at].frames[Len(H[at].frames)].max
    BY <1>1, <1>2, SecondHere
  <1>4. /\ ~IsData(nodes, pgm.max, H[at], at) /\ ~IsDs(nodes, pgm.max, H[at], at)
        /\ ~IsEnd(nodes, pgm.max, H[at], at) /\ ~OverAt(nodes, pgm.max, H[at], at)
    BY <1>3, WalksLook
  <1>5. at < e
    <2>1. at # e BY <1>2, <1>4 DEF Walked
    <2> QED BY <1>3, <2>1
  <1>6. Second(H, nodes, pgm.max, conn.last + 1, e, d, at + 1, pgm.frames, pgm.layout, pgm.read,
               pgm.written)
    <2> DEFINE a == conn.last + 1
    <2>1. Trail(H, nodes, pgm.max, a, e) BY <1>2 DEF Walked
    <2>2. Second(H, nodes, pgm.max, a, e, d, at, pgm.frames, pgm.layout, pgm.read, pgm.written)
      BY <1>2
    <2> HIDE DEF a
    <2>3. Second(H, nodes, pgm.max, a, e, d, at + 1, pgm.frames, pgm.layout, pgm.read, pgm.written)
      BY <1>4, <1>5, <2>1, <2>2, SecondPass
    <2> QED BY <2>3 DEF a
  <1>7. Walked(H, e)' BY <1>1, <1>2 DEF Walked
  <1>8. SecondWalk' BY <1>1, <1>6, <1>7 DEF SecondWalk
  <1>9. pgm'.read \subseteq pgm'.written BY <1>1 DEF TwoWalks
  <1> QED BY <1>1, <1>8, <1>9, SecondGoes

\* What is found at a place is what was written there.
LEMMA FoundThere ==
  ASSUME NEW pos, Unique(pgm.written), NEW x \in pgm.written, x.pos = pos
  PROVE  DataAt(pos) = x.data
  <1> DEFINE there == {w \in pgm.written : w.pos = pos}
             y == CHOOSE w \in there : TRUE
  <1>1. x \in there OBVIOUS
  <1>2. y \in there BY <1>1
  <1>3. y = x BY <1>2 DEF Unique
  <1>4. DataAt(pos) = y.data BY <1>1 DEF DataAt
  <1> QED BY <1>3, <1>4

\* Reading a value back does.
LEMMA DataOutSecond ==
  ASSUME RInv, WalkInv, TwoWalks, DataOut
  PROVE  TwoWalks'
  <1> DEFINE size == SizeAt(nodes, at)
             by   == By(AttrOr(nodes[at], "by", ""), size, InDs)
             pos  == Where(pgm.layout, by, size)
             w    == [node |-> at, pos |-> pos, data |-> DataAt(pos)]
             tell == InDs /\ ~Top.blank /\
                     (Top.found \/ (Top.dob # "" /\ AttrOr(nodes[at], "name", "") = Top.dob))
             more(blank) == WithTop([Top EXCEPT !.blank = blank, !.found = blank])
  <1>1. /\ Walking(3, "beg", "s") /\ pc = "params" /\ rc = "ok" /\ pgm.step = 3
        /\ at <= Len(nodes) /\ at' = at + 1 /\ UNCHANGED <<nodes, pc, rc, conn>>
        /\ \E blank :
             pgm' = [pgm EXCEPT !.layout = Place(@, FALSE, by, size), !.read = @ \cup {w},
                                !.frames = IF tell THEN more(blank) ELSE @]
    BY DEF DataOut, Walking, Is, N, SizeAt
  <1>2. PICK H, e, d :
          /\ Walked(H, e)
          /\ Second(H, nodes, pgm.max, conn.last + 1, e, d, at, pgm.frames, pgm.layout, pgm.read,
                    pgm.written)
    BY <1>1 DEF TwoWalks, SecondWalk
  <1>3. /\ PgmOK /\ at \in conn.last + 1 .. e /\ e \in Nat /\ at \in Nat /\ Numbers(nodes, at)
        /\ e \in conn.last + 1 .. e
        /\ pgm.frames = <<>> <=> H[at].frames = <<>>
        /\ pgm.frames # <<>> => /\ Top.max = H[at].frames[Len(H[at].frames)].max
                                /\ Len(pgm.frames) \in DOMAIN pgm.frames
        /\ IsList(pgm.frames) /\ DOMAIN pgm.frames = 1 .. Len(pgm.frames) /\ Len(pgm.frames) \in Nat
    BY <1>1, <1>2, SecondHere
  <1>4. IsData(nodes, pgm.max, H[at], at) /\ ~OverAt(nodes, pgm.max, H[at], at)
    BY <1>1, <1>3, WalksLook
  <1>5. at < e
    <2>1. at # e BY <1>2, <1>4 DEF Walked
    <2> QED BY <1>3, <2>1
  <1>6. by = ByAt(nodes, H[at], at, size) BY <1>3 DEF ByAt, InDs
  <1>7. \E blank : /\ pgm'.layout = Place(pgm.layout, FALSE, by, size)
                   /\ pgm'.read = pgm.read \cup {w}
                   /\ pgm'.frames = IF tell THEN more(blank) ELSE pgm.frames
                   /\ pgm'.written = pgm.written /\ pgm'.max = pgm.max /\ pgm'.step = 3
    <2> HIDE DEF w, tell, more, by, size
    <2> QED BY <1>1, <1>3 DEF PgmOK
  <1>8. Alike(pgm.frames, pgm'.frames)
    <2>1. PICK blank : pgm'.frames = IF tell THEN more(blank) ELSE pgm.frames BY <1>7
    <2>2. CASE ~tell BY <1>3, <2>1, <2>2 DEF Alike
    <2>3. CASE tell
      <3> DEFINE F == pgm.frames
                 m == Len(F)
                 g == [Top EXCEPT !.blank = blank, !.found = blank]
      <3>1. InDs /\ pgm'.frames = [F EXCEPT ![m] = g] BY <2>1, <2>3 DEF WithTop
      <3>2. m \in DOMAIN F /\ m \in Nat /\ DOMAIN F = 1 .. m BY <1>3, <3>1 DEF InDs
      <3>3. /\ g.node = Top.node /\ g.max = Top.max /\ g.up = Top.up /\ g.left = Top.left
            /\ Top = F[m]
        BY DEF Top
      <3> HIDE DEF g, F, m
      <3>4. /\ DOMAIN pgm'.frames = 1 .. m
            /\ pgm'.frames = [i \in 1 .. m |-> pgm'.frames[i]]
            /\ \A j \in 1 .. m : pgm'.frames[j] = IF j = m THEN g ELSE F[j]
        BY <3>1, <3>2
      <3>5. IsList(pgm'.frames) /\ Len(pgm'.frames) = m BY <3>2, <3>4, ListOf
      <3>6. Len(F) = m BY DEF m, F
      <3>7. \A j \in DOMAIN F :
              /\ pgm'.frames[j].node = F[j].node /\ pgm'.frames[j].max = F[j].max
              /\ pgm'.frames[j].up = F[j].up /\ pgm'.frames[j].left = F[j].left
        BY <3>2, <3>3, <3>4
      <3>8. Alike(F, pgm'.frames) BY <3>5, <3>6, <3>7 DEF Alike
      <3> QED BY <3>8 DEF F
    <2> QED BY <2>2, <2>3
  <1>9. Unique(pgm.written)
    <2>1. Trail(H, nodes, pgm.max, conn.last + 1, e) /\ H[e].written = pgm.written
      BY <1>2 DEF Walked
    <2>2. Sound(H[e], conn.last + 1, e, nodes) BY <1>3, <2>1 DEF Trail
    <2> QED BY <2>1, <2>2 DEF Sound
  <1>10. /\ w.pos = pos /\ w = [node |-> at, pos |-> w.pos, data |-> w.data]
         /\ \A x \in pgm.written : x.pos = w.pos => x.data = w.data
    <2> HIDE DEF pos
    <2> QED BY <1>9, FoundThere
  <1>11. Second(H, nodes, pgm.max, conn.last + 1, e, d, at + 1, pgm'.frames,
                Place(pgm.layout, FALSE, by, size), pgm.read \cup {w}, pgm.written)
    <2> DEFINE a == conn.last + 1
    <2>1. Trail(H, nodes, pgm.max, a, e) BY <1>2 DEF Walked
    <2>2. Second(H, nodes, pgm.max, a, e, d, at, pgm.frames, pgm.layout, pgm.read, pgm.written)
      BY <1>2
    <2>3. size = SizeAt(nodes, at) OBVIOUS
    <2>4. w.pos = Where(pgm.layout, by, size) BY <1>10
    <2>5. w = [node |-> at, pos |-> w.pos, data |-> w.data]
          /\ \A x \in pgm.written : x.pos = w.pos => x.data = w.data
      BY <1>10
    <2> HIDE DEF a, w, by, size
    <2>6. Second(H, nodes, pgm.max, a, e, d, at + 1, pgm'.frames,
                 Place(pgm.layout, FALSE, by, size), pgm.read \cup {w}, pgm.written)
      BY <1>3, <1>4, <1>5, <1>6, <1>8, <2>1, <2>2, <2>3, <2>4, <2>5, SecondData, ZenonT(60)
    <2> QED BY <2>6 DEF a
  <1> HIDE DEF w, by, size
  <1>12. Walked(H, e)' BY <1>1, <1>2, <1>7 DEF Walked
  <1>13. SecondWalk'
    <2>1. /\ pgm'.layout = Place(pgm.layout, FALSE, by, size) /\ pgm'.read = pgm.read \cup {w}
          /\ pgm'.written = pgm.written /\ pgm'.max = pgm.max
      BY <1>7
    <2>2. nodes' = nodes /\ conn' = conn /\ at' = at + 1 BY <1>1
    <2>3. Second(H, nodes', pgm'.max, conn'.last + 1, e, d, at', pgm'.frames, pgm'.layout,
                 pgm'.read, pgm'.written)
      BY <1>11, <2>1, <2>2
    <2> QED BY <1>12, <2>3 DEF SecondWalk
  <1>14. pgm'.read \subseteq pgm'.written
    <2>1. pgm.read \cup {w} \subseteq pgm.written BY <1>11 DEF Second
    <2> QED BY <1>7, <2>1
  <1> QED BY <1>1, <1>7, <1>13, <1>14, SecondGoes

\* Entering a structure in the second walk does.
LEMMA DsOutSecond ==
  ASSUME RInv, WalkInv, TwoWalks, DsOut
  PROVE  TwoWalks'
  <1> DEFINE by == By(AttrOr(nodes[at], "by", ""), 0, InDs)
             dim == DimOf(nodes[at])
             F == pgm.frames
  <1>1. /\ Walking(3, "beg", "ds") /\ pc = "params" /\ rc = "ok" /\ pgm.step = 3
        /\ at <= Len(nodes) /\ at' = at + 1 /\ UNCHANGED <<nodes, pc, rc, conn>>
    BY DEF DsOut, Walking, Is, N
  <1>2. PICK H, e, d :
          /\ Walked(H, e)
          /\ Second(H, nodes, pgm.max, conn.last + 1, e, d, at, pgm.frames, pgm.layout, pgm.read,
                    pgm.written)
    BY <1>1 DEF TwoWalks, SecondWalk
  <1>3. /\ PgmOK /\ at \in conn.last + 1 .. e /\ e \in Nat /\ at \in Nat /\ Numbers(nodes, at)
        /\ pgm.frames = <<>> <=> H[at].frames = <<>>
        /\ pgm.frames # <<>> => Top.max = H[at].frames[Len(H[at].frames)].max
    BY <1>1, <1>2, SecondHere
  <1>4. IsDs(nodes, pgm.max, H[at], at) /\ ~OverAt(nodes, pgm.max, H[at], at)
    BY <1>1, <1>3, WalksLook
  <1>5. at < e
    <2>1. at # e BY <1>2, <1>4 DEF Walked
    <2> QED BY <1>3, <2>1
  <1>6. by = ByAt(nodes, H[at], at, 0) BY <1>3 DEF ByAt, InDs
  <1>7. \E g : /\ pgm'.layout = Added(pgm.layout, by, 0) /\ pgm'.frames = Append(F, g)
               /\ pgm'.read = pgm.read /\ pgm'.written = pgm.written
               /\ pgm'.max = pgm.max /\ pgm'.step = 3
               /\ g.node = at /\ g.up = 0 /\ g.left = dim
               /\ g.max = IF at < Len(nodes) THEN nodes[at + 1].ord ELSE 0
    <2> DEFINE start == StartOf(pgm.layout, nodes[at], InDs)
    <2>0. PICK dou :
            LET zero  == HasAttr(nodes[at], "dou") /\ dou = 0
                input == zero \/ AttrOr(nodes[at], "by", "") = "in"
                beg   == (IF zero THEN DimBeg(2) ELSE <<>>) \o (IF input THEN <<>> ELSE DimBeg(dim))
                text  == out \o Shown(pgm.hold, beg)
            IN  pgm' = [pgm EXCEPT
                          !.layout = PlaceDs(@, nodes[at], InDs),
                          !.hold = @ \/ input,
                          !.holdord = IF ~pgm.hold /\ input THEN nodes[at].ord
                                      ELSE IF InDs THEN pgm.holdord ELSE 0,
                          !.frames = Append(@,
                             [FrameOf(at, dim, start) EXCEPT
                                !.has = HasAttr(nodes[at], "dou"), !.dou = dou,
                                !.dob = AttrOr(nodes[at], "dob", ""),
                                !.input = input, !.zero = zero,
                                !.saved = IF pgm.hold THEN 0 ELSE Len(text)])]
      BY Zenon DEF DsOut, N
    <2> DEFINE zero == HasAttr(nodes[at], "dou") /\ dou = 0
               input == zero \/ AttrOr(nodes[at], "by", "") = "in"
               beg == (IF zero THEN DimBeg(2) ELSE <<>>) \o (IF input THEN <<>> ELSE DimBeg(dim))
               holds == ~pgm.hold /\ input
               saved == IF pgm.hold THEN 0 ELSE Len(out \o Shown(pgm.hold, beg))
               g == [FrameOf(at, dim, start) EXCEPT
                       !.has = HasAttr(nodes[at], "dou"), !.dou = dou,
                       !.dob = AttrOr(nodes[at], "dob", ""), !.input = input, !.zero = zero,
                       !.saved = saved]
    <2>1. pgm' = [pgm EXCEPT
                    !.layout = PlaceDs(@, nodes[at], InDs), !.hold = @ \/ input,
                    !.holdord = IF holds THEN nodes[at].ord ELSE IF InDs THEN pgm.holdord ELSE 0,
                    !.frames = Append(@, g)]
      BY <2>0
    <2> HIDE DEF saved, input, zero, holds
    <2>2. /\ g.node = at /\ g.up = 0 /\ g.left = dim
          /\ g.max = IF at < Len(nodes) THEN nodes[at + 1].ord ELSE 0
      BY DEF FrameOf, DeepestIn, N
    <2> HIDE DEF g
    <2>3. /\ pgm'.layout = PlaceDs(pgm.layout, nodes[at], InDs) /\ pgm'.frames = Append(F, g)
          /\ pgm'.read = pgm.read /\ pgm'.written = pgm.written
          /\ pgm'.max = pgm.max /\ pgm'.step = 3
      BY <1>1, <1>3, <2>1 DEF PgmOK
    <2>4. PlaceDs(pgm.layout, nodes[at], InDs) = Added(pgm.layout, by, 0) BY DEF PlaceDs
    <2> HIDE DEF by, dim
    <2> QED BY <2>2, <2>3, <2>4
  <1>8. PICK g : /\ pgm'.layout = Added(pgm.layout, by, 0) /\ pgm'.frames = Append(F, g)
                 /\ pgm'.read = pgm.read /\ pgm'.written = pgm.written
                 /\ pgm'.max = pgm.max /\ pgm'.step = 3
                 /\ g.node = at /\ g.up = 0 /\ g.left = dim
                 /\ g.max = IF at < Len(nodes) THEN nodes[at + 1].ord ELSE 0
    BY <1>7
  <1>9. \E c : Second(H, nodes, pgm.max, conn.last + 1, e, c, at + 1, Append(F, g),
                      Added(pgm.layout, by, 0), pgm.read, pgm.written)
    <2> DEFINE a == conn.last + 1
    <2>1. Trail(H, nodes, pgm.max, a, e) BY <1>2 DEF Walked
    <2>2. Second(H, nodes, pgm.max, a, e, d, at, F, pgm.layout, pgm.read, pgm.written)
      BY <1>2
    <2>3. g.left = DimOf(nodes[at]) BY <1>8
    <2> HIDE DEF a, by, F
    <2>4. \E c : Second(H, nodes, pgm.max, a, e, c, at + 1, Append(F, g),
                        Added(pgm.layout, by, 0), pgm.read, pgm.written)
      BY <1>3, <1>4, <1>5, <1>6, <1>8, <2>1, <2>2, <2>3, SecondDs
    <2> QED BY <2>4 DEF a
  <1> HIDE DEF by, F, dim
  <1>10. Walked(H, e)' BY <1>1, <1>2, <1>8 DEF Walked
  <1>11. SecondWalk'
    <2>1. PICK c : Second(H, nodes, pgm.max, conn.last + 1, e, c, at + 1, Append(F, g),
                          Added(pgm.layout, by, 0), pgm.read, pgm.written)
      BY <1>9
    <2>2. nodes' = nodes /\ conn' = conn /\ at' = at + 1 BY <1>1
    <2>3. Second(H, nodes', pgm'.max, conn'.last + 1, e, c, at', pgm'.frames, pgm'.layout,
                 pgm'.read, pgm'.written)
      BY <1>8, <2>1, <2>2
    <2> QED BY <1>10, <2>3 DEF SecondWalk
  <1>12. pgm'.read \subseteq pgm'.written BY <1>8 DEF TwoWalks
  <1> QED BY <1>1, <1>8, <1>11, <1>12, SecondGoes

\* Going back for the next element does.
LEMMA EndDsNextSecond ==
  ASSUME RInv, WalkInv, TwoWalks, EndDsNext
  PROVE  TwoWalks'
  <1> DEFINE F == pgm.frames
             m == Len(F)
             f == Top
  <1>1. /\ InDs /\ Walking(3, "end", "ds") /\ pc = "params" /\ rc = "ok" /\ pgm.step = 3
        /\ f.left > 1 /\ at' = f.node + 1 /\ UNCHANGED <<nodes, pc, rc, conn>>
    BY DEF EndDsNext, Walking
  <1>2. PICK H, e, d :
          /\ Walked(H, e)
          /\ Second(H, nodes, pgm.max, conn.last + 1, e, d, at, pgm.frames, pgm.layout, pgm.read,
                    pgm.written)
    BY <1>1 DEF TwoWalks, SecondWalk
  <1>3. /\ PgmOK /\ at \in conn.last + 1 .. e /\ e \in Nat /\ at \in Nat
        /\ pgm.frames = <<>> <=> H[at].frames = <<>>
        /\ pgm.frames # <<>> => /\ Top.max = H[at].frames[Len(H[at].frames)].max
                                /\ m \in DOMAIN F
        /\ IsList(F) /\ DOMAIN F = 1 .. m /\ m \in Nat
    BY <1>1, <1>2, SecondHere
  <1>4. IsEnd(nodes, pgm.max, H[at], at) /\ ~OverAt(nodes, pgm.max, H[at], at)
    BY <1>1, <1>3, WalksLook
  <1>5. at < e
    <2>1. at # e BY <1>2, <1>4 DEF Walked
    <2> QED BY <1>3, <2>1
  <1>6. \E g : /\ pgm'.layout = pgm.layout /\ pgm'.frames = [F EXCEPT ![m] = g]
               /\ pgm'.read = pgm.read /\ pgm'.written = pgm.written
               /\ pgm'.max = pgm.max /\ pgm'.step = 3
               /\ g.node = f.node /\ g.max = f.max /\ g.up = f.up + 1 /\ g.left = f.left - 1
    <2> DEFINE up    == f.up + 1
               holds == pgm.holdord = 0 /\ ((f.has /\ up >= f.dou) \/ f.blank)
               hold  == pgm.hold \/ holds
               text  == out \o (IF f.input THEN <<>> ELSE Shown(hold, <<"]", "[">>))
               g     == [f EXCEPT !.most = IF @ = 0 THEN f.left ELSE @, !.left = @ - 1, !.up = up,
                                  !.saved = IF hold THEN @ ELSE Len(text), !.first = @ /\ hold]
    <2>1. pgm' = [pgm EXCEPT !.hold = hold, !.holdord = IF holds THEN N[f.node].ord ELSE @,
                             !.frames = WithTop(g)]
      BY Zenon DEF EndDsNext
    <2>2. /\ g.node = f.node /\ g.max = f.max
      BY DEF Top
    <2>3. g.up = f.up + 1 /\ g.left = f.left - 1
      OBVIOUS
    <2> HIDE DEF g
    <2>4. /\ pgm'.layout = pgm.layout /\ pgm'.frames = WithTop(g)
          /\ pgm'.read = pgm.read /\ pgm'.written = pgm.written
          /\ pgm'.max = pgm.max /\ pgm'.step = 3
      BY <1>1, <1>3, <2>1 DEF PgmOK, g
    <2> QED BY <2>2, <2>3, <2>4 DEF WithTop
  <1>7. PICK g : /\ pgm'.layout = pgm.layout /\ pgm'.frames = [F EXCEPT ![m] = g]
                 /\ pgm'.read = pgm.read /\ pgm'.written = pgm.written
                 /\ pgm'.max = pgm.max /\ pgm'.step = 3
                 /\ g.node = f.node /\ g.max = f.max /\ g.up = f.up + 1 /\ g.left = f.left - 1
    BY <1>6
  <1> DEFINE G == [F EXCEPT ![m] = g]
  <1>8. NextElement(F, G)
    <2>1. m \in DOMAIN F /\ f = F[m] BY <1>1, <1>3 DEF InDs, Top
    <2>2. Len(F) = m OBVIOUS
    <2> HIDE DEF F, m, f
    <2>3. /\ DOMAIN G = 1 .. m /\ G = [i \in 1 .. m |-> G[i]]
          /\ \A j \in 1 .. m : G[j] = IF j = m THEN g ELSE F[j]
      BY <1>3, <2>1
    <2> HIDE DEF G
    <2>4. IsList(G) /\ Len(G) = m BY <1>3, <2>3, ListOf
    <2>5. \A j \in 1 .. m - 1 : j \in 1 .. m /\ j # m BY <1>3
    <2>6. G[m] = g BY <1>3, <2>1, <2>3
    <2> QED BY <1>7, <2>1, <2>2, <2>3, <2>4, <2>5, <2>6 DEF NextElement
  <1> HIDE DEF G
  <1>9. \E c : Second(H, nodes, pgm.max, conn.last + 1, e, c, f.node + 1, G, pgm.layout, pgm.read,
                      pgm.written)
    <2> DEFINE a == conn.last + 1
    <2>1. Trail(H, nodes, pgm.max, a, e) BY <1>2 DEF Walked
    <2>2. Second(H, nodes, pgm.max, a, e, d, at, F, pgm.layout, pgm.read, pgm.written)
      BY <1>2
    <2>3. F[Len(F)] = f /\ F[Len(F)].left > 1 BY <1>1 DEF Top
    <2> HIDE DEF a, F, f, m
    <2>4. \E c : Second(H, nodes, pgm.max, a, e, c, F[Len(F)].node + 1, G, pgm.layout, pgm.read,
                        pgm.written)
      BY <1>4, <1>5, <1>8, <2>1, <2>2, <2>3, SecondEndNext
    <2> QED BY <2>3, <2>4 DEF a
  <1>10. Walked(H, e)' BY <1>1, <1>2, <1>7 DEF Walked
  <1>11. SecondWalk'
    <2>1. PICK c : Second(H, nodes, pgm.max, conn.last + 1, e, c, f.node + 1, G, pgm.layout,
                          pgm.read, pgm.written)
      BY <1>9
    <2>2. nodes' = nodes /\ conn' = conn /\ at' = f.node + 1 BY <1>1
    <2>3. pgm'.frames = G BY <1>7 DEF G
    <2> HIDE DEF f, F, m
    <2>4. Second(H, nodes', pgm'.max, conn'.last + 1, e, c, at', pgm'.frames, pgm'.layout,
                 pgm'.read, pgm'.written)
      BY <1>7, <2>1, <2>2, <2>3
    <2> QED BY <1>10, <2>4 DEF SecondWalk
  <1>12. pgm'.read \subseteq pgm'.written BY <1>7 DEF TwoWalks
  <1> QED BY <1>1, <1>7, <1>11, <1>12, SecondGoes

\* Leaving after the last element does.
LEMMA EndDsLastSecond ==
  ASSUME RInv, WalkInv, TwoWalks, EndDsLast
  PROVE  TwoWalks'
  <1> DEFINE F == pgm.frames
  <1>1. /\ InDs /\ Walking(3, "end", "ds") /\ pc = "params" /\ rc = "ok" /\ pgm.step = 3
        /\ Top.left <= 1 /\ at' = at + 1 /\ UNCHANGED <<nodes, pc, rc, conn>>
    BY DEF EndDsLast, Walking
  <1>2. PICK H, e, d :
          /\ Walked(H, e)
          /\ Second(H, nodes, pgm.max, conn.last + 1, e, d, at, pgm.frames, pgm.layout, pgm.read,
                    pgm.written)
    BY <1>1 DEF TwoWalks, SecondWalk
  <1>3. /\ PgmOK /\ at \in conn.last + 1 .. e /\ e \in Nat /\ at \in Nat
        /\ pgm.frames = <<>> <=> H[at].frames = <<>>
        /\ pgm.frames # <<>> => /\ Top.max = H[at].frames[Len(H[at].frames)].max
                                /\ Len(F) \in DOMAIN F
    BY <1>1, <1>2, SecondHere
  <1>4. IsEnd(nodes, pgm.max, H[at], at) /\ ~OverAt(nodes, pgm.max, H[at], at)
    BY <1>1, <1>3, WalksLook
  <1>5. at < e
    <2>1. at # e BY <1>2, <1>4 DEF Walked
    <2> QED BY <1>3, <2>1
  <1>6. F[Len(F)].left = 1
    <2>1. Len(F) \in DOMAIN F /\ Top = F[Len(F)] BY <1>1, <1>3 DEF InDs, Top
    <2>2. F[Len(F)].left \in Nat \ {0} BY <1>2, <2>1 DEF Second
    <2> QED BY <1>1, <2>1, <2>2
  <1>7. /\ pgm'.layout = pgm.layout /\ pgm'.frames = Popped
        /\ pgm'.read = pgm.read /\ pgm'.written = pgm.written
        /\ pgm'.max = pgm.max /\ pgm'.step = 3
    <2>1. \E hold, holdord :
            pgm' = [pgm EXCEPT !.hold = hold, !.holdord = holdord, !.frames = Popped]
      BY DEF EndDsLast
    <2> QED BY <1>1, <1>3, <2>1 DEF PgmOK
  <1>8. \E c : Second(H, nodes, pgm.max, conn.last + 1, e, c, at + 1, SubSeq(F, 1, Len(F) - 1),
                      pgm.layout, pgm.read, pgm.written)
    <2> DEFINE a == conn.last + 1
    <2>1. Trail(H, nodes, pgm.max, a, e) BY <1>2 DEF Walked
    <2>2. Second(H, nodes, pgm.max, a, e, d, at, F, pgm.layout, pgm.read, pgm.written)
      BY <1>2
    <2> HIDE DEF a, F
    <2>3. \E c : Second(H, nodes, pgm.max, a, e, c, at + 1, SubSeq(F, 1, Len(F) - 1), pgm.layout,
                        pgm.read, pgm.written)
      BY <1>4, <1>5, <1>6, <2>1, <2>2, SecondEndLast
    <2> QED BY <2>3 DEF a
  <1>9. Walked(H, e)' BY <1>1, <1>2, <1>7 DEF Walked
  <1>10. SecondWalk'
    <2>1. PICK c : Second(H, nodes, pgm.max, conn.last + 1, e, c, at + 1,
                          SubSeq(F, 1, Len(F) - 1), pgm.layout, pgm.read, pgm.written)
      BY <1>8
    <2>2. nodes' = nodes /\ conn' = conn /\ at' = at + 1 BY <1>1
    <2>3. pgm'.frames = SubSeq(F, 1, Len(F) - 1) BY <1>7 DEF Popped
    <2> HIDE DEF F
    <2>4. Second(H, nodes', pgm'.max, conn'.last + 1, e, c, at', pgm'.frames, pgm'.layout,
                 pgm'.read, pgm'.written)
      BY <1>7, <2>1, <2>2, <2>3
    <2> QED BY <1>9, <2>4 DEF SecondWalk
  <1>11. pgm'.read \subseteq pgm'.written BY <1>7 DEF TwoWalks
  <1> QED BY <1>1, <1>7, <1>10, <1>11, SecondGoes

\* The walks end: the first with the call, the second when all that was written has been read.
LEMMA ParamsEndTwo ==
  ASSUME RInv, WalkInv, TwoWalks, EnoughRegisters, ParamsEnd
  PROVE  TwoWalks'
  <1>0. PgmOK BY DEF RInv, Types
  <1>1. /\ pc = "params" /\ UNCHANGED <<nodes, rc, conn>>
        /\ pc' = IF rc = "ok" /\ pgm.step = 1 THEN "pgmcall" ELSE "pgmend"
        /\ pgm' = [pgm EXCEPT !.frames = <<>>]
    BY DEF ParamsEnd
  <1>2. /\ pgm'.frames = <<>> /\ pgm'.read = pgm.read /\ pgm'.written = pgm.written
        /\ pgm'.max = pgm.max /\ pgm'.step = pgm.step
    BY <1>0, <1>1 DEF PgmOK
  <1>3. pgm'.read \subseteq pgm'.written BY <1>2 DEF TwoWalks
  <1>4. CASE rc # "ok" BY <1>1, <1>3, <1>4 DEF TwoWalks
  <1>5. CASE rc = "ok" /\ pgm.step = 1
    <2>1. PICK H : Trail(H, nodes, pgm.max, conn.last + 1, at) /\ H[at] = Snap
      BY <1>1, <1>5, FirstHere
    <2>2. Snap.frames = pgm.frames /\ Snap.written = pgm.written BY DEF Snap
    <2>3. OverAt(nodes, pgm.max, H[at], at) BY <1>5, <2>1, <2>2, WalksLook DEF Top
    <2>4. Walked(H, at) BY <2>1, <2>2, <2>3 DEF Walked
    <2>5. \E G, e : Walked(G, e)'
      <3>1. \A e : Walked(H, e) => Walked(H, e)' BY <1>1, <1>2 DEF Walked
      <3>2. \E e : Walked(H, e) BY <2>4
      <3> QED BY <3>1, <3>2
    <2>6. pgm'.read = {} BY <1>1, <1>2, <1>5 DEF TwoWalks
    <2> QED BY <1>1, <1>2, <1>3, <1>5, <2>5, <2>6 DEF TwoWalks
  <1>6. CASE rc = "ok" /\ pgm.step # 1
    <2>1. pgm.step = 3 BY <1>1, <1>6 DEF TwoWalks
    <2>2. PICK H, e, d :
            /\ Walked(H, e)
            /\ Second(H, nodes, pgm.max, conn.last + 1, e, d, at, pgm.frames, pgm.layout, pgm.read,
                      pgm.written)
      BY <1>1, <2>1 DEF TwoWalks, SecondWalk
    <2>3. /\ pgm.frames = <<>> <=> H[at].frames = <<>>
          /\ pgm.frames # <<>> => Top.max = H[at].frames[Len(H[at].frames)].max
      BY <1>1, <2>1, <2>2, SecondHere
    <2>4. OverAt(nodes, pgm.max, H[at], at) BY <1>6, <2>3, WalksLook
    <2>5. pgm.read = pgm.written
      <3> DEFINE a == conn.last + 1
      <3>1. Trail(H, nodes, pgm.max, a, e) /\ pgm.written = H[e].written BY <2>2 DEF Walked
      <3>2. Second(H, nodes, pgm.max, a, e, d, at, pgm.frames, pgm.layout, pgm.read, pgm.written)
        BY <2>2
      <3> HIDE DEF a
      <3> QED BY <2>4, <3>1, <3>2, SecondOver
    <2> QED BY <1>1, <1>2, <1>3, <1>6, <2>5 DEF TwoWalks
  <1> QED BY <1>4, <1>5, <1>6

\* A layout reset: the spill and the vector at their tops, no argument taken.
LEMMA ResetFacts ==
  ASSUME NEW l, IsLayout(l)
  PROVE  /\ IsLayout(ResetPos(l)) /\ ResetPos(l).pos = SpillTop /\ ResetPos(l).vpos = ArgvTop
         /\ ResetPos(l).argc = 0
  <1> DEFINE m == ResetPos(l)
  <1>1. \E x, y : /\ m = [l EXCEPT !.pos = SpillTop, !.vpos = ArgvTop, !.argc = x, !.parmc = y]
                  /\ x = 0
    BY DEF ResetPos
  <1>2. PICK x, y : /\ m = [l EXCEPT !.pos = SpillTop, !.vpos = ArgvTop, !.argc = x, !.parmc = y]
                    /\ x = 0
    BY <1>1
  <1> HIDE DEF m
  <1>3. m.pos = SpillTop /\ m.vpos = ArgvTop /\ m.argc = 0 BY <1>2 DEF IsLayout
  <1>4. m = [max |-> m.max, pos |-> m.pos, vpos |-> m.vpos, argc |-> m.argc, parmc |-> m.parmc,
             retstart |-> m.retstart, args |-> m.args]
    BY <1>2 DEF IsLayout
  <1> QED BY <1>3, <1>4 DEF IsLayout, m

\* The call, after which the positions begin again.
LEMMA PgmCallTwo ==
  ASSUME RInv, WalkInv, TwoWalks, PgmCall
  PROVE  TwoWalks'
  <1>0. PgmOK BY DEF RInv, Types
  <1>1. /\ pc = "pgmcall" /\ UNCHANGED <<nodes, conn>> /\ at' = conn.last + 1
        /\ pgm' = IF rc' = "ok" THEN [pgm EXCEPT !.layout = ResetPos(@), !.step = 3] ELSE pgm
        /\ pc' = IF rc' = "ok" THEN "params" ELSE "pgmend"
    BY DEF PgmCall
  <1>2. CASE rc' # "ok" BY <1>1, <1>2 DEF TwoWalks
  <1>3. CASE rc' = "ok"
    <2>1. PICK H, e : Walked(H, e) BY <1>1 DEF TwoWalks
    <2>2. pgm.step = 1 /\ pgm.read = {} /\ pgm.frames = <<>> BY <1>1 DEF TwoWalks
    <2>3. /\ pgm'.layout = ResetPos(pgm.layout) /\ pgm'.step = 3 /\ pgm'.frames = <<>>
          /\ pgm'.read = {} /\ pgm'.written = pgm.written /\ pgm'.max = pgm.max
      BY <1>0, <1>1, <1>3, <2>2 DEF PgmOK
    <2> DEFINE l == ResetPos(pgm.layout)
               a == conn.last + 1
    <2>4. IsLayout(l) /\ l.pos = SpillTop /\ l.vpos = ArgvTop /\ l.argc = 0
      <3>1. IsLayout(pgm.layout) BY <2>2 DEF WalkInv, Laid
      <3> QED BY <3>1, ResetFacts
    <2> HIDE DEF l, a
    <2>5. Trail(H, nodes, pgm.max, a, e) /\ H[e].written = pgm.written
      BY <2>1 DEF Walked, a
    <2>6. /\ l.pos = H[a].layout.pos /\ l.vpos = H[a].layout.vpos /\ l.argc = H[a].layout.argc
      BY <2>4, <2>5 DEF Trail
    <2>7. PICK d : Second(H, nodes, pgm.max, a, e, d, a, <<>>, l, {}, H[e].written)
      BY <2>4, <2>5, <2>6, SecondBegins
    <2>8. Walked(H, e)' BY <1>1, <2>1, <2>3 DEF Walked
    <2>9. SecondWalk'
      <3>1. Second(H, nodes', pgm'.max, conn'.last + 1, e, d, at', pgm'.frames, pgm'.layout,
                   pgm'.read, pgm'.written)
        BY <1>1, <2>3, <2>5, <2>7 DEF a, l
      <3> QED BY <2>8, <3>1 DEF SecondWalk
    <2>10. pgm'.read \subseteq pgm'.written BY <2>3
    <2> HIDE DEF SecondWalk
    <2> QED BY <1>1, <1>3, <2>3, <2>9, <2>10 DEF TwoWalks
  <1> QED BY <1>2, <1>3

\* Everything else leaves the program alone, or forgets it.
LEMMA WalksQuiet ==
  ASSUME TwoWalks, pc' \notin InCall, pgm' = pgm \/ pgm' = NoPgm
  PROVE  TwoWalks'
  <1>1. pgm'.read \subseteq pgm'.written BY DEF TwoWalks, NoPgm
  <1> HIDE DEF FirstWalk, SecondWalk
  <1> QED BY <1>1 DEF TwoWalks, InCall

\* What is not a walk leaves the two walks alone.
LEMMA OtherTwo ==
  ASSUME TwoWalks, RequestNext \/ ConnNext \/ QueryNext \/ CmdNext \/ PgmEnd
  PROVE  TwoWalks'
  <1>1. pc' \notin InCall /\ (pgm' = pgm \/ pgm' = NoPgm)
    <2>1. CASE RequestNext
      BY <2>1 DEF RequestNext, BeginRequest, EmptyRequest, SkipNode, EndScript, EndRequest, InCall
    <2>2. CASE ConnNext
      BY <2>2
      DEF ConnNext, ConnBegin, ConnPass, ConnEnd, Joblog, Close, Admin, Child, Return, InCall
    <2>3. CASE QueryNext
      <3>1. CASE QueryBegin
        <4> DEFINE text == AttrOr(N[at], "stmt", "")
                   step == CASE text = "" -> "fetch"
                             [] text \in MetaQueries ->
                                  IF Is(at + 1, "beg", "parm") THEN "parms" ELSE "fetch"
                             [] OTHER -> "prepare"
        <4>1. step \in {"fetch", "parms", "prepare"} BY Zenon
        <4> HIDE DEF step
        <4>2. (\E r : Return(r, at)) \/ pc' = step BY Zenon, <3>1 DEF QueryBegin, step
        <4>3. pc' \notin InCall BY <4>1, <4>2 DEF Return, InCall
        <4> QED BY <3>1, <4>3 DEF QueryBegin
      <3>2. CASE QueryPrepare \/ QueryParm \/ QueryParmsStop \/ QueryExecute
        BY <3>2 DEF QueryPrepare, QueryParm, QueryParmsStop, QueryExecute, Return, InCall
      <3>3. CASE Fetch \/ FetchPass \/ QueryEnd
        BY <3>3 DEF Fetch, FetchPass, InFetches, QueryEnd, Return, InCall
      <3> QED BY <2>3, <3>1, <3>2, <3>3 DEF QueryNext
    <2>4. CASE CmdNext
      BY <2>4 DEF CmdNext, CmdBegin, CmdRun, CmdOutput, CmdEnd, Child, Return, InCall
    <2>5. CASE PgmEnd BY <2>5 DEF PgmEnd, Return, InCall
    <2> QED BY <2>1, <2>2, <2>3, <2>4, <2>5
  <1> QED BY <1>1, WalksQuiet

\* Every step keeps the two walks in step.
LEMMA TwoWalksKept ==
  ASSUME RInv, WalkInv, TwoWalks, EnoughRegisters, [Next]_vars, WalkInv', EnoughRegisters',
         SingleByValue
  PROVE  TwoWalks'
  <1>1. CASE UNCHANGED vars
    <2>1. UNCHANGED <<pc, pgm, rc, nodes, conn, at>> BY <1>1 DEF vars
    <2>2. FirstWalk => FirstWalk' BY <2>1 DEF FirstWalk, Snap
    <2>3. \A H, e : Walked(H, e) => Walked(H, e)' BY <2>1 DEF Walked
    <2>4. SecondWalk => SecondWalk' BY <2>1, <2>3 DEF SecondWalk
    <2> HIDE DEF FirstWalk, SecondWalk, Walked
    <2> QED BY <2>1, <2>2, <2>3, <2>4 DEF TwoWalks
  <1>2. CASE RequestNext \/ ConnNext \/ QueryNext \/ CmdNext \/ PgmEnd BY <1>2, OtherTwo
  <1>3. CASE PassParam
    <2>1. pgm.step \in {1, 3} BY <1>3 DEF PassParam, TwoWalks
    <2> QED BY <1>3, <2>1, PassFirst, PassSecond
  <1>4. CASE DataIn \/ DsIn \/ EndDsIn
    BY <1>4, DataInFirst, DsInFirst, EndDsInFirst
  <1>5. CASE DataOut \/ DsOut \/ EndDsNext \/ EndDsLast
    BY <1>5, DataOutSecond, DsOutSecond, EndDsNextSecond, EndDsLastSecond
  <1>6. CASE PgmBegin \/ ParamsEnd \/ PgmCall
    BY <1>6, PgmBeginFirst, ParamsEndTwo, PgmCallTwo
  <1> QED BY <1>1, <1>2, <1>3, <1>4, <1>5, <1>6 DEF Next, PgmNext, Done

\* For any documents that give no array of structures by value, while there are registers for the
\* arguments: the second walk reads each value where the first wrote it, of every element of every
\* array of structures, and in the end has read all of them.
THEOREM EveryValueFound ==
  ASSUME SingleByValue
  PROVE  Spec /\ []EnoughRegisters => []ReadWhereWritten
  <1>1. Init => TwoWalks
    <2> SUFFICES ASSUME Init PROVE TwoWalks OBVIOUS
    <2>1. pc = "idle" /\ pgm = NoPgm BY DEF Init
    <2>2. pgm.read \subseteq pgm.written BY <2>1 DEF NoPgm
    <2> HIDE DEF FirstWalk, SecondWalk
    <2> QED BY <2>1, <2>2 DEF TwoWalks
  <1>2. RInv /\ WalkInv /\ TwoWalks /\ EnoughRegisters /\ [Next]_vars /\ WalkInv' /\ EnoughRegisters'
          => TwoWalks'
    BY TwoWalksKept
  <1>3. TwoWalks => ReadWhereWritten BY DEF TwoWalks, ReadWhereWritten
  <1> QED BY <1>1, <1>2, <1>3, RequestsInvariant, WalkInvariant, PTL DEF Spec
=============================================================================
