------------------------------ MODULE PaseToolPgm ------------------------------
(***************************************************************************)
(* The call of a program by the toolkit (tool_key_pgm_run): the nodes of the *)
(* parameters are walked once to write the layout, the program is called,    *)
(* and they are walked again to read it, from the first position on.  A      *)
(* structure with several elements is written once and its image copied; on  *)
(* the way back its nodes are walked once for each element.                 *)
(***************************************************************************)
EXTENDS PaseTool, PaseData

\* A structure being walked: its node; max, the deepest level looked at; left, up:
\* elements to come and read; most: what left was; dou: how many elements count, of
\* which "has" says whether the document says so; dob: the name of the value that
\* is looked at for a blank, found and blank: whether it was seen, was blank;
\* input, zero: the structure is not shown, is shown empty; saved: where the answer
\* is cut at a blank element, first: before its first bracket; start: its offset.
FrameOf(node, dim, start) ==
  [node |-> node, max |-> DeepestIn(node),
   left |-> dim, up |-> 0, most |-> 0, has |-> FALSE, dou |-> 0, dob |-> "",
   found |-> FALSE, blank |-> FALSE, input |-> FALSE, zero |-> FALSE,
   saved |-> 0, first |-> TRUE, start |-> start]

InDs == pgm.frames # <<>>
Top == pgm.frames[Len(pgm.frames)]
Popped == SubSeq(pgm.frames, 1, Len(pgm.frames) - 1)
WithTop(f) == [pgm.frames EXCEPT ![Len(pgm.frames)] = f]

\* What the loop over the parameters, or over the children of a structure, looks at.
Looked == N[at].ord <= (IF InDs THEN Top.max ELSE pgm.max)

Walking(step, key, elem) ==
  pc = "params" /\ rc = "ok" /\ pgm.step = step /\ Is(at, key, elem) /\ Looked

DimOf(node) == LET d == AttrOr(node, "dim", 1) IN IF d < 1 THEN 1 ELSE d

NoType == [typ |-> " ", len |-> 0, scale |-> 0, vary |-> 0]

TypeOf(node) == AttrOr(node, "type", NoType)

\* The lengths and dimensions of a document are numbers.
ASSUME NumbersAssumption ==
  \A name \in DOMAIN Documents : LET list == NodesOf(Documents[name]) IN
    \A i \in DOMAIN list :
      /\ AttrOr(list[i], "dim", 1) \in Int
      /\ TypeOf(list[i]).len \in Int /\ TypeOf(list[i]).vary \in Nat

\* A value that is not given is "nothing" (in_value_nothing).
ValueOf(node) == AttrOr(node, "value", NoValue(TypeOf(node).typ))

\* What is found at an offset: the program left it as it was, and there is nothing
\* where nothing was written.
DataAt(pos) ==
  LET there == {w \in pgm.written : w.pos = pos}
  IN  IF there = {} THEN <<>> ELSE (CHOOSE w \in there : TRUE).data

\* An array is shown as a list, a single value as it is; json_output_pgm_dcl_ds_beg,
\* dcl_ds_end, dcl_s_beg, dcl_s_end.
DimBeg(dim) == IF dim > 1 THEN <<"{", "[">> ELSE <<"{">>
DimEnd(dim) == IF dim > 1 THEN <<"]", "}">> ELSE <<"}">>

\* The answer is held back (outhold).
Shown(hold, text) == IF hold THEN <<>> ELSE text

-----------------------------------------------------------------------------
\* The statement that calls the stored procedure of the toolkit, none in memory.
PgmBegin ==
  LET mem == InMemory(conn.type)
  IN  /\ Child("beg", "pgm")
      /\ \E a \in IF mem THEN {Outcome(db2, 0, "ok")} ELSE NewStmt(db2, conn.hdbc) :
         \E p \in IF mem \/ a.ans # "ok" THEN {a.ans} ELSE Answers(a.db2, a.h) :
           LET r     == RcOf(a.db2, a.h, p)
               named == HasAttr(N[at], "name")
           IN  /\ db2' = a.db2
               /\ rc' = r
               /\ out' = out \o ErrorOf(a.db2, a.h, p) \o
                         (IF r = "ok" /\ named THEN Beg ELSE <<>>)
               /\ pgm' = [NoPgm EXCEPT !.stmt = a.h, !.mem = mem, !.begun = r = "ok" /\ named,
                                       !.step = 1, !.max = DeepestIn(at)]
               /\ log' = [log EXCEPT !.ran = @ \cup {at}, !.told = @ \/ Told(a.db2, a.h, p),
                                   !.lost = @ \/ Lost(a.h, a.ans)]
               /\ pc' = IF r = "ok" THEN "params" ELSE "pgmend"
               /\ at' = IF r = "ok" THEN at + 1 ELSE at
      /\ conn' = [conn EXCEPT !.last = at]
      /\ UNCHANGED <<given, reqs, nodes, pool, work>>

\* tool_key_pgm_data_run, tool_dcl_s on the way in.
DataIn ==
  LET node == N[at]
      type == TypeOf(node)
      size == TypeSize(type, DimOf(node))
      by   == By(AttrOr(node, "by", ""), size, InDs)
  IN  /\ Walking(1, "beg", "s")
      /\ IF type.len < 1 THEN UNCHANGED pgm
         ELSE pgm' = [pgm EXCEPT !.layout = Added(@, by, size),
                                 !.written = @ \cup
                                   {[node |-> at, pos |-> Where(pgm.layout, by, size),
                                     data |-> Stored(type, ValueOf(node))]}]
      /\ rc' = IF KnownType(type) THEN "ok" ELSE "error"
      /\ log' = [log EXCEPT !.ran = @ \cup {at}]
      /\ at' = at + 1
      /\ UNCHANGED <<given, reqs, nodes, pc, conn, pool, db2, out, work>>

\* ... and on the way out: the position advances even when nothing is shown.
DataOut ==
  LET node == N[at]
      size == TypeSize(TypeOf(node), DimOf(node))
      by   == By(AttrOr(node, "by", ""), size, InDs)
      dim  == DimOf(node)
      pos  == Where(pgm.layout, by, size)
      tell == InDs /\ ~Top.blank /\
              (Top.found \/ (Top.dob # "" /\ AttrOr(node, "name", "") = Top.dob))
  IN  /\ Walking(3, "beg", "s")
      /\ \E blank \in IF tell THEN BOOLEAN ELSE {FALSE} :
           pgm' = [pgm EXCEPT
                     !.layout = Place(@, FALSE, by, size),
                     !.read = @ \cup {[node |-> at, pos |-> pos, data |-> DataAt(pos)]},
                     !.frames = IF tell THEN WithTop([Top EXCEPT !.blank = blank, !.found = blank])
                                ELSE @]
      /\ out' = out \o Shown(pgm.hold \/ by = "ref_in", DimBeg(dim) \o Item \o DimEnd(dim))
      /\ at' = at + 1
      /\ UNCHANGED <<given, reqs, nodes, pc, rc, conn, pool, db2, work, log>>

-----------------------------------------------------------------------------
(* tool_key_pgm_ds_run                                                       *)

\* tool_dcl_ds: a structure has no size of its own.
PlaceDs(l, node, inDs) == Added(l, By(AttrOr(node, "by", ""), 0, inDs), 0)
StartOf(l, node, inDs) == Where(l, By(AttrOr(node, "by", ""), 0, inDs), 0)

DsIn ==
  LET node == N[at]
  IN  /\ Walking(1, "beg", "ds")
      /\ pgm' = [pgm EXCEPT
                   !.layout = PlaceDs(@, node, InDs),
                   !.frames = Append(@, FrameOf(at, DimOf(node), StartOf(pgm.layout, node, InDs)))]
      /\ log' = [log EXCEPT !.ran = @ \cup {at}]
      /\ at' = at + 1
      /\ UNCHANGED <<given, reqs, nodes, pc, rc, conn, pool, db2, out, work>>

\* Mutant of Copied: one copy too few.
CopiedShort(l, len, dim) ==
  LET After[k \in 0 .. dim - 1] == IF k = 0 THEN l ELSE CopiedOnce(After[k - 1], len)
  IN  After[IF dim > 1 THEN dim - 2 ELSE 0]

\* The image of the first element, of length len, is copied for the others.
Copied(l, len, dim) ==
  LET After[k \in 0 .. dim - 1] == IF k = 0 THEN l ELSE CopiedOnce(After[k - 1], len)
  IN  After[dim - 1]

\* The values of the first element, where the copies have them.
CopiesOf(of, len, dim) == {[w EXCEPT !.pos = @ + k * len] : w \in of, k \in 1 .. dim - 1}

EndDsIn ==
  LET l   == pgm.layout
      len == l.pos - Top.start
      of  == {w \in pgm.written : w.pos >= Top.start /\ w.pos < l.pos}
      dim == Top.left
  IN  /\ InDs /\ Walking(1, "end", "ds")
      /\ pgm' = [pgm EXCEPT
                   !.layout = Copied(l, len, dim),
                   !.written = @ \cup CopiesOf(of, len, dim),
                   !.frames = Popped]
      /\ at' = at + 1
      /\ UNCHANGED <<given, reqs, nodes, pc, rc, conn, pool, db2, out, work, log>>

\* "dou" is a number or the value of a parameter, which the program set.
DouOf(node) == IF ~HasAttr(node, "dou") THEN {0}
               ELSE IF NumberOr0(node, "dou") # 0 THEN {Attr(node, "dou")} ELSE 0 .. 2

DsOut ==
  LET node    == N[at]
      dim     == DimOf(node)
      has     == HasAttr(node, "dou")
      holdord == IF InDs THEN pgm.holdord ELSE 0
  IN  /\ Walking(3, "beg", "ds")
      /\ \E dou \in DouOf(node) :
           LET zero  == has /\ dou = 0
               input == zero \/ AttrOr(node, "by", "") = "in"
               beg   == (IF zero THEN DimBeg(2) ELSE <<>>) \o (IF input THEN <<>> ELSE DimBeg(dim))
               text  == out \o Shown(pgm.hold, beg)
               holds == ~pgm.hold /\ input
           IN  /\ out' = text \o (IF input THEN <<>> ELSE Shown(pgm.hold, <<"[">>))
               /\ pgm' = [pgm EXCEPT
                            !.layout = PlaceDs(@, node, InDs),
                            !.hold = @ \/ input,
                            !.holdord = IF holds THEN node.ord ELSE holdord,
                            !.frames = Append(@,
                               [FrameOf(at, dim, StartOf(pgm.layout, node, InDs)) EXCEPT
                                  !.has = has, !.dou = dou, !.dob = AttrOr(node, "dob", ""),
                                  !.input = input, !.zero = zero,
                                  !.saved = IF pgm.hold THEN 0 ELSE Len(text)])]
      /\ at' = at + 1
      /\ UNCHANGED <<given, reqs, nodes, pc, rc, conn, pool, db2, work, log>>

\* An element ends and others follow: the structure's nodes are walked again, and
\* nothing more is shown after the last that counts or a blank one.
EndDsNext ==
  LET f     == Top
      up    == f.up + 1
      holds == pgm.holdord = 0 /\ ((f.has /\ up >= f.dou) \/ f.blank)
      hold  == pgm.hold \/ holds
      text  == out \o (IF f.input THEN <<>> ELSE Shown(hold, <<"]", "[">>))
  IN  /\ InDs /\ Walking(3, "end", "ds") /\ f.left > 1
      /\ out' = text
      /\ pgm' = [pgm EXCEPT
                   !.hold = hold,
                   !.holdord = IF holds THEN N[f.node].ord ELSE @,
                   !.frames = WithTop([f EXCEPT
                      !.most = IF @ = 0 THEN f.left ELSE @, !.left = @ - 1, !.up = up,
                      !.saved = IF hold THEN @ ELSE Len(text), !.first = @ /\ hold])]
      /\ at' = f.node + 1
      /\ UNCHANGED <<given, reqs, nodes, pc, rc, conn, pool, db2, work, log>>

\* The structure held the answer back itself.
Releases(f) == pgm.holdord = N[f.node].ord

\* The last element ends.
EndDsLast ==
  LET f    == Top
      most == IF f.most = 0 THEN f.left ELSE f.most
      hold == pgm.hold /\ ~Releases(f)
      cut  == Releases(f) /\ f.blank /\ f.saved # 0 /\ f.saved < Len(out)
      text == IF cut THEN SubSeq(out, 1, f.saved) ELSE out
  IN  /\ InDs /\ Walking(3, "end", "ds") /\ f.left <= 1
      /\ out' = text \o Shown(hold, (IF f.input THEN <<>> ELSE <<"]">> \o DimEnd(most)) \o
                                    (IF f.zero THEN DimEnd(2) ELSE <<>>))
      /\ pgm' = [pgm EXCEPT !.hold = hold, !.holdord = IF Releases(f) THEN 0 ELSE @,
                            !.frames = Popped]
      /\ log' = [log EXCEPT !.stray = @ \/ (cut /\ f.first)]
      /\ at' = at + 1
      /\ UNCHANGED <<given, reqs, nodes, pc, rc, conn, pool, db2, work>>

-----------------------------------------------------------------------------
\* A node the loops only pass: a deeper one, or none they handle.
PassParam ==
  /\ pc = "params" /\ rc = "ok" /\ at <= Len(N)
  /\ Looked => /\ ~(N[at].key = "beg" /\ N[at].elem \in {"s", "ds"})
               /\ ~Is(at, "end", IF InDs THEN "ds" ELSE "pgm")
  /\ at' = at + 1
  /\ UNCHANGED <<given, reqs, nodes, pc, rc, conn, pool, db2, out, work, pgm, log>>

\* The end of the parameters, at the end of the program, of the list or an error,
\* wherever the loops are.
ParamsEnd ==
  /\ pc = "params"
  /\ rc = "ok" /\ at <= Len(N) => ~InDs /\ Is(at, "end", "pgm") /\ Looked
  /\ pc' = IF rc = "ok" /\ pgm.step = 1 THEN "pgmcall" ELSE "pgmend"
  /\ pgm' = [pgm EXCEPT !.frames = <<>>]
  /\ UNCHANGED <<given, reqs, nodes, at, rc, conn, pool, db2, out, work, log>>

\* tool_key_pgm_call_run; then the positions start again (ile_pgm_reset_pos).
PgmCall ==
  LET h == pgm.stmt
  IN  /\ pc = "pgmcall"
      /\ \/ /\ pgm.mem
            /\ rc' \in {"ok", "error"}
            /\ UNCHANGED <<out, log>>
         \/ /\ ~pgm.mem
            /\ \E b \in Answers(db2, h) : \E e \in IF b = "ok" THEN Answers(db2, h) ELSE {b} :
                 /\ rc' = RcOf(db2, h, e)
                 /\ out' = out \o ErrorOf(db2, h, e)
                 /\ log' = [log EXCEPT !.told = @ \/ Told(db2, h, e)]
      /\ pgm' = IF rc' = "ok" THEN [pgm EXCEPT !.layout = ResetPos(@), !.step = 3] ELSE pgm
      /\ pc' = IF rc' = "ok" THEN "params" ELSE "pgmend"
      /\ at' = conn.last + 1
      /\ UNCHANGED <<given, reqs, nodes, conn, pool, db2, work>>

\* Mutant of PgmEnds: a program that fails is not ended.
PgmEndsIfOk == rc = "ok" /\ HasAttr(N[conn.last], "name")

\* The end is written for every program with a name, begun or not.
PgmEnds == HasAttr(N[conn.last], "name")

PgmEnd ==
  /\ pc = "pgmend"
  /\ out' = out \o (IF PgmEnds THEN End ELSE <<>>)
  /\ db2' = Db2FreeStmt(db2, pgm.stmt)
  /\ log' = [log EXCEPT !.stray = @ \/ (PgmEnds /\ ~pgm.begun)]
  /\ Return(rc, conn.last)
  /\ UNCHANGED <<given, reqs, nodes, conn, pool, work, pgm>>
=============================================================================
