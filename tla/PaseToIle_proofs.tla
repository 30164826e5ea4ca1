---------------------------- MODULE PaseToIle_proofs ----------------------------
(***************************************************************************)
(* Arguments of any number, kind and size are written into a layout one      *)
(* after another, and structures copied: they never overlap, and the memory  *)
(* has always grown enough for them.                                        *)
(***************************************************************************)
EXTENDS PaseToIle, TLAPS

VARIABLE layout

Kinds == ByRef \cup {"value", "return", "in_ds"}

\* What tool_dcl_s and tool_dcl_ds write.
Argument(by, size) ==
  /\ by = "value" => size <= ValueMax
  /\ layout' = Added(layout, by, size)

\* What the end of an array of structures copies.
Copy(len) == layout' = CopiedOnce(layout, len)

LayoutInit == layout = NewLayout

LayoutNext ==
  \/ \E by \in Kinds, size \in Nat : Argument(by, size)
  \/ \E len \in Nat : Copy(len)

LayoutSpec == LayoutInit /\ [][LayoutNext]_layout

-----------------------------------------------------------------------------
ArgType == [by : ByRef \cup {"value"}, reg : Nat, pos : Nat, len : Nat]

ArgSets == SUBSET ArgType

LayoutType ==
  [max : Nat, pos : Nat, vpos : Nat, argc : Nat, parmc : Nat, retstart : Nat,
   args : ArgSets]

\* The next value goes into the current register or begins the next one.
Cursor(l) == Register(l.argc) <= l.vpos /\ l.vpos <= Register(l.argc + 1)

\* A block is always free beyond the data.
Enough(l) == SpillTop <= l.pos /\ l.pos + Block <= l.max

\* What has been written lies before the two positions.
Behind(l) ==
  \A a \in l.args :
    /\ RegStart(a) + RegLen(a) <= l.vpos
    /\ a.by # "value" => SpillTop <= a.pos /\ a.pos + a.len <= l.pos

Separate(l) ==
  \A a, b \in l.args : a # b =>
    /\ Disjoint(RegStart(a), RegLen(a), RegStart(b), RegLen(b))
    /\ a.by # "value" /\ b.by # "value" => Disjoint(a.pos, a.len, b.pos, b.len)

\* The inductive invariant.
Good(l) == l \in LayoutType /\ Cursor(l) /\ Enough(l) /\ Behind(l) /\ Separate(l)

-----------------------------------------------------------------------------
\* The offsets are numbers, and the register area holds MaxArgs registers.
LEMMA Offsets ==
  /\ Pointer = 16 /\ ArgvTop = 16 /\ Block = 4096 /\ ValueMax = 16
  /\ SpillTop \in Nat /\ LayoutSize \in Nat
  /\ LayoutSize >= Block
  /\ Register(MaxArgs) <= SpillTop
  BY DEF Pointer, ArgvTop, Block, ValueMax, SpillTop, LayoutSize, MaxArgs, Register

\* ile_pgm_round_up gives a multiple at or beyond the number, and no multiple of
\* a register is passed over.
LEMMA RoundUpBounds ==
  ASSUME NEW n \in Nat, NEW m \in {2, 4, 8, 4096}
  PROVE  RoundUp(n, m) \in Nat /\ n <= RoundUp(n, m)
  <1>1. CASE m = 2    BY <1>1 DEF RoundUp
  <1>2. CASE m = 4    BY <1>2 DEF RoundUp
  <1>3. CASE m = 8    BY <1>3 DEF RoundUp
  <1>4. CASE m = 4096 BY <1>4 DEF RoundUp
  <1> QED BY <1>1, <1>2, <1>3, <1>4

LEMMA RoundUpInRegister ==
  ASSUME NEW n \in Nat, NEW m \in {2, 4, 8}, NEW k \in Nat, n <= 16 + 16 * k
  PROVE  RoundUp(n, m) <= 16 + 16 * k
  <1>1. CASE m = 2 BY <1>1 DEF RoundUp
  <1>2. CASE m = 4 BY <1>2 DEF RoundUp
  <1>3. CASE m = 8 BY <1>3 DEF RoundUp
  <1> QED BY <1>1, <1>2, <1>3

\* Alignment never goes back, nor past the end of a register.
LEMMA AlignedBounds ==
  ASSUME NEW vpos \in Nat, NEW size \in Nat, size <= ValueMax, NEW k \in Nat,
         vpos <= Register(k)
  PROVE  /\ Aligned(vpos, size) \in Nat
         /\ vpos <= Aligned(vpos, size) /\ Aligned(vpos, size) <= Register(k)
  <1>1. Register(k) = 16 + 16 * k /\ size \in 0 .. 16
    BY DEF Register, ArgvTop, Pointer, ValueMax
  <1>2. ASSUME NEW m \in {2, 4, 8}
        PROVE  RoundUp(vpos, m) \in Nat /\ vpos <= RoundUp(vpos, m) /\ RoundUp(vpos, m) <= Register(k)
    <2>1. m \in {2, 4, 8, 4096} OBVIOUS
    <2>2. RoundUp(vpos, m) \in Nat /\ vpos <= RoundUp(vpos, m) BY <2>1, RoundUpBounds
    <2>3. RoundUp(vpos, m) <= 16 + 16 * k BY <1>1, RoundUpInRegister
    <2> QED BY <1>1, <2>2, <2>3
  <1>3. CASE size <= 1 BY <1>1, <1>3 DEF Aligned
  <1>4. CASE size = 2 BY <1>1, <1>2, <1>4 DEF Aligned
  <1>5. CASE size \in {3, 4} BY <1>1, <1>2, <1>5 DEF Aligned
  <1>6. CASE size \in 5 .. 16 BY <1>1, <1>2, <1>6 DEF Aligned
  <1> QED BY <1>1, <1>3, <1>4, <1>5, <1>6

\* A layout that has grown has room for the bytes it grew for, and is otherwise
\* what it was.
LEMMA GrowRoom ==
  ASSUME NEW l \in LayoutType, Enough(l), NEW size \in Nat
  PROVE  /\ Grow(l, size) \in LayoutType
         /\ l.pos + size + Block <= Grow(l, size).max
         /\ Grow(l, size) = [l EXCEPT !.max = Grow(l, size).max]
  <1>1. CASE Room(l, size)
    <2>1. Grow(l, size) = l BY <1>1 DEF Grow
    <2>2. l.pos + size + LayoutSize < l.max BY <1>1, Offsets DEF Room, LayoutType
    <2> QED BY <2>1, <2>2, Offsets DEF LayoutType
  <1>2. CASE ~Room(l, size)
    <2> DEFINE top == RoundUp(l.max + size, Block)
    <2>1. l.max + size \in Nat BY DEF LayoutType
    <2>2. top \in Nat /\ l.max + size <= top
      <3>1. Block \in {2, 4, 8, 4096} BY Offsets
      <3> QED BY <2>1, <3>1, RoundUpBounds
    <2>3. Grow(l, size) = [l EXCEPT !.max = top] BY <1>2 DEF Grow
    <2>4. l.pos + Block <= l.max BY DEF Enough
    <2>5. [l EXCEPT !.max = top] \in LayoutType /\ [l EXCEPT !.max = top].max = top
      BY <2>2 DEF LayoutType
    <2> HIDE DEF top
    <2>6. l.pos \in Nat /\ l.max \in Nat /\ Block \in Nat BY Offsets DEF LayoutType
    <2>7. l.pos + size + Block <= top BY <2>2, <2>4, <2>6
    <2> QED BY <2>3, <2>5, <2>7
  <1> QED BY <1>1, <1>2

-----------------------------------------------------------------------------
(* Each kind of argument keeps the invariant, given a layout that has room.  *)

Roomy(l, size) == l.pos + size + Block <= l.max

\* An argument that lies behind nothing yet is apart from all that is behind.
LEMMA NewArgument ==
  ASSUME NEW l, NEW m, l \in LayoutType, m \in LayoutType,
         Behind(l), Separate(l), NEW a \in ArgType,
         m.args = l.args \cup {a},
         l.vpos <= m.vpos, l.pos <= m.pos,
         l.vpos <= RegStart(a), RegStart(a) + RegLen(a) <= m.vpos,
         a.by # "value" => l.pos <= a.pos /\ SpillTop <= a.pos /\ a.pos + a.len <= m.pos
  PROVE  Behind(m) /\ Separate(m)
  <1>1. \A b \in m.args : /\ RegStart(b) \in Nat /\ RegLen(b) \in Nat
                          /\ b.pos \in Nat /\ b.len \in Nat
    BY DEF LayoutType, ArgSets, ArgType, RegStart, RegLen, Register, ArgvTop, Pointer
  <1>2. l.vpos \in Nat /\ m.vpos \in Nat /\ l.pos \in Nat /\ m.pos \in Nat
    BY DEF LayoutType
  <1>3. Behind(m)
    <2> SUFFICES ASSUME NEW b \in m.args
                 PROVE  /\ RegStart(b) + RegLen(b) <= m.vpos
                        /\ b.by # "value" => SpillTop <= b.pos /\ b.pos + b.len <= m.pos
      BY DEF Behind
    <2>1. CASE b = a BY <2>1
    <2>2. CASE b \in l.args
      <3>1. /\ RegStart(b) + RegLen(b) <= l.vpos
            /\ b.by # "value" => SpillTop <= b.pos /\ b.pos + b.len <= l.pos
        BY <2>2 DEF Behind
      <3> QED BY <1>1, <1>2, <3>1
    <2> QED BY <2>1, <2>2
  <1>4. \A b \in l.args :
          /\ Disjoint(RegStart(b), RegLen(b), RegStart(a), RegLen(a))
          /\ Disjoint(RegStart(a), RegLen(a), RegStart(b), RegLen(b))
          /\ a.by # "value" /\ b.by # "value" =>
               Disjoint(b.pos, b.len, a.pos, a.len) /\ Disjoint(a.pos, a.len, b.pos, b.len)
    <2> SUFFICES ASSUME NEW b \in l.args
                 PROVE  /\ RegStart(b) + RegLen(b) <= RegStart(a)
                        /\ a.by # "value" /\ b.by # "value" => b.pos + b.len <= a.pos
      BY DEF Disjoint
    <2>1. /\ RegStart(b) + RegLen(b) <= l.vpos
          /\ b.by # "value" => b.pos + b.len <= l.pos
      BY DEF Behind
    <2> QED BY <1>1, <1>2, <2>1
  <1>5. Separate(m) BY <1>4 DEF Separate
  <1> QED BY <1>3, <1>5

LEMMA ByRefKeeps ==
  ASSUME NEW l, Good(l), NEW size \in Nat, Roomy(l, size), NEW by \in ByRef
  PROVE  Good(PlaceByRef(l, TRUE, by, size))
  <1> DEFINE reg == NextRegister(l)
             a == Arg(by, reg, l.pos, size)
             m == PlaceByRef(l, TRUE, by, size)
  <1>1. /\ l \in LayoutType /\ l.argc \in Nat /\ l.vpos \in Nat /\ l.pos \in Nat
        /\ l.max \in Nat /\ l.parmc \in Nat /\ l.retstart \in Nat
        /\ l.args \subseteq ArgType
    BY DEF Good, LayoutType, ArgSets
  <1>2. /\ \A n \in Nat : Register(n) = 16 + 16 * n
        /\ Pointer = 16 /\ Block = 4096 /\ SpillTop \in Nat
    BY Offsets DEF Register, ArgvTop, Pointer
  <1>3. reg \in Nat /\ l.vpos <= Register(reg)
    <2>1. l.argc + 1 \in Nat /\ l.vpos <= Register(l.argc + 1) /\ Register(l.argc) \in Nat
      BY <1>1, <1>2 DEF Good, Cursor
    <2> QED BY <1>1, <2>1 DEF NextRegister
  <1>4. a \in ArgType /\ a.by \in ByRef /\ a.by # "value" /\ a.pos = l.pos /\ a.len = size
        /\ a.reg = reg
    BY <1>1, <1>3 DEF Arg, ArgType, ByRef
  <1>5. m = [l EXCEPT !.vpos = Register(reg + 1), !.argc = reg + 1, !.parmc = @ + 1,
                      !.pos = @ + size, !.args = @ \cup {a}]
    BY DEF PlaceByRef
  <1>6. Register(reg) \in Nat /\ Register(reg + 1) = Register(reg) + 16
    BY <1>2, <1>3
  <1> HIDE DEF reg, a, m
  <1>7. /\ m.vpos = Register(reg + 1) /\ m.argc = reg + 1 /\ m.pos = l.pos + size
        /\ m.max = l.max /\ m.args = l.args \cup {a}
    BY <1>1, <1>5 DEF LayoutType
  <1>8. m \in LayoutType
    <2>1. l.args \cup {a} \in ArgSets BY <1>1, <1>4 DEF ArgSets
    <2>2. reg + 1 \in Nat /\ Register(reg + 1) \in Nat /\ l.pos + size \in Nat /\ l.parmc + 1 \in Nat
      BY <1>1, <1>3, <1>6
    <2> QED BY <1>1, <1>5, <2>1, <2>2 DEF LayoutType
  <1>9. Cursor(m)
    BY <1>2, <1>3, <1>7 DEF Cursor
  <1>10. SpillTop <= l.pos /\ l.pos + size + Block <= l.max
    BY DEF Good, Enough, Roomy
  <1>11. Enough(m)
    BY <1>1, <1>2, <1>7, <1>10 DEF Enough
  <1>12. RegStart(a) = Register(reg) /\ RegLen(a) = 16
    BY <1>2, <1>4 DEF RegStart, RegLen
  <1>13. l.vpos <= m.vpos /\ RegStart(a) + RegLen(a) <= m.vpos /\ l.vpos <= RegStart(a)
    BY <1>1, <1>3, <1>6, <1>7, <1>12
  <1>14. l.pos <= m.pos /\ l.pos <= a.pos /\ SpillTop <= a.pos /\ a.pos + a.len <= m.pos
    BY <1>1, <1>4, <1>7, <1>10
  <1>15. Behind(l) /\ Separate(l)
    BY DEF Good
  <1>16. Behind(m) /\ Separate(m)
    BY <1>1, <1>4, <1>7, <1>8, <1>13, <1>14, <1>15, NewArgument
  <1>17. Good(m) BY <1>8, <1>9, <1>11, <1>16 DEF Good
  <1> QED BY <1>17 DEF m

LEMMA ByValueKeeps ==
  ASSUME NEW l, Good(l), NEW size \in Nat, size <= ValueMax
  PROVE  Good(PlaceByValue(l, TRUE, size))
  <1> DEFINE where == Aligned(l.vpos, size)
             over == where + size > Register(l.argc + 1)
             reg == IF over THEN l.argc + 1 ELSE l.argc
             a == Arg("value", reg, where, size)
             m == PlaceByValue(l, TRUE, size)
  <1>1. /\ l \in LayoutType /\ l.argc \in Nat /\ l.vpos \in Nat /\ l.pos \in Nat
        /\ l.max \in Nat /\ l.parmc \in Nat /\ l.retstart \in Nat
        /\ l.args \subseteq ArgType
    BY DEF Good, LayoutType, ArgSets
  <1>2. /\ \A n \in Nat : Register(n) = 16 + 16 * n
        /\ ValueMax = 16
    BY Offsets DEF Register, ArgvTop, Pointer
  <1>3. l.argc + 1 \in Nat /\ Register(l.argc) <= l.vpos /\ l.vpos <= Register(l.argc + 1)
    BY <1>1 DEF Good, Cursor
  <1>4. where \in Nat /\ l.vpos <= where /\ where <= Register(l.argc + 1)
    BY <1>1, <1>3, AlignedBounds
  <1>5. reg \in Nat BY <1>1
  <1>6. a \in ArgType /\ a.by = "value" /\ a.pos = where /\ a.len = size
    BY <1>4, <1>5 DEF Arg, ArgType
  <1>7. m = [l EXCEPT !.vpos = where + size, !.argc = reg, !.parmc = @ + 1,
                      !.args = @ \cup {a}]
    BY DEF PlaceByValue
  <1>8. Register(reg) <= where + size /\ where + size <= Register(reg + 1)
    <2>1. CASE over BY <1>1, <1>2, <1>3, <1>4, <2>1
    <2>2. CASE ~over BY <1>1, <1>2, <1>3, <1>4, <2>2
    <2> QED BY <2>1, <2>2
  <1> HIDE DEF where, reg, a, m
  <1>9. /\ m.vpos = where + size /\ m.argc = reg /\ m.pos = l.pos
        /\ m.max = l.max /\ m.args = l.args \cup {a}
    BY <1>1, <1>7 DEF LayoutType
  <1>10. m \in LayoutType
    <2>1. l.args \cup {a} \in ArgSets BY <1>1, <1>6 DEF ArgSets
    <2>2. where + size \in Nat /\ l.parmc + 1 \in Nat BY <1>1, <1>4
    <2> QED BY <1>1, <1>5, <1>7, <2>1, <2>2 DEF LayoutType
  <1>11. Cursor(m) BY <1>8, <1>9 DEF Cursor
  <1>12. Enough(m) BY <1>9 DEF Enough, Good
  <1>13. RegStart(a) = where /\ RegLen(a) = size BY <1>6 DEF RegStart, RegLen
  <1>14. l.vpos <= m.vpos /\ RegStart(a) + RegLen(a) <= m.vpos /\ l.vpos <= RegStart(a)
    BY <1>1, <1>4, <1>9, <1>13
  <1>15. l.pos <= m.pos BY <1>1, <1>9
  <1>16. Behind(l) /\ Separate(l) BY DEF Good
  <1>17. Behind(m) /\ Separate(m)
    BY <1>1, <1>6, <1>9, <1>10, <1>14, <1>15, <1>16, NewArgument
  <1>18. Good(m) BY <1>10, <1>11, <1>12, <1>17 DEF Good
  <1> QED BY <1>18 DEF m

\* Data that are no argument of their own: a result, a part of a structure, a copy.
LEMMA SpillKeeps ==
  ASSUME NEW l, Good(l), NEW size \in Nat, Roomy(l, size), NEW start \in Nat
  PROVE  Good([l EXCEPT !.pos = @ + size, !.retstart = start])
  <1> DEFINE m == [l EXCEPT !.pos = @ + size, !.retstart = start]
  <1>1. l \in LayoutType /\ l.pos \in Nat /\ l.max \in Nat /\ l.args \subseteq ArgType
    BY DEF Good, LayoutType, ArgSets
  <1>2. m \in LayoutType
    <2>1. l.pos + size \in Nat BY <1>1
    <2> QED BY <1>1, <2>1 DEF LayoutType
  <1>3. /\ m.pos = l.pos + size /\ m.max = l.max /\ m.vpos = l.vpos /\ m.argc = l.argc
        /\ m.args = l.args
    BY <1>1 DEF LayoutType
  <1> HIDE DEF m
  <1>4. Block \in Nat /\ SpillTop \in Nat BY Offsets
  <1>5. Cursor(m) BY <1>3 DEF Good, Cursor
  <1>6. Enough(m) BY <1>1, <1>3, <1>4 DEF Good, Enough, Roomy
  <1>7. Behind(m)
    <2> SUFFICES ASSUME NEW a \in l.args, a.by # "value"
                 PROVE  SpillTop <= a.pos /\ a.pos + a.len <= m.pos
      BY <1>3 DEF Behind, Good
    <2>1. a.pos \in Nat /\ a.len \in Nat BY <1>1 DEF ArgType
    <2>2. SpillTop <= a.pos /\ a.pos + a.len <= l.pos BY DEF Behind, Good
    <2> QED BY <1>1, <1>3, <2>1, <2>2
  <1>8. Separate(m) BY <1>3 DEF Separate, Good
  <1>9. Good(m) BY <1>2, <1>5, <1>6, <1>7, <1>8 DEF Good
  <1> QED BY <1>9 DEF m

LEMMA GrowKeeps ==
  ASSUME NEW l, Good(l), NEW size \in Nat
  PROVE  Good(Grow(l, size)) /\ Roomy(Grow(l, size), size)
  <1> DEFINE m == Grow(l, size)
  <1>1. l \in LayoutType /\ Enough(l) BY DEF Good
  <1>2. /\ m \in LayoutType /\ l.pos + size + Block <= m.max
        /\ m = [l EXCEPT !.max = m.max]
    BY <1>1, GrowRoom
  <1> HIDE DEF m
  <1>3. m.pos = l.pos /\ m.vpos = l.vpos /\ m.argc = l.argc /\ m.args = l.args
    BY <1>1, <1>2 DEF LayoutType
  <1>4. Block \in Nat /\ SpillTop \in Nat /\ l.pos \in Nat /\ m.max \in Nat
    BY <1>1, <1>2, Offsets DEF LayoutType
  <1>5. Cursor(m) BY <1>3 DEF Good, Cursor
  <1>6. Enough(m) BY <1>1, <1>2, <1>3, <1>4 DEF Enough
  <1>7. Behind(m) BY <1>3 DEF Good, Behind
  <1>8. Separate(m) BY <1>3 DEF Good, Separate
  <1>9. Roomy(m, size) BY <1>2, <1>3 DEF Roomy
  <1>10. Good(m) /\ Roomy(m, size) BY <1>2, <1>5, <1>6, <1>7, <1>8, <1>9 DEF Good
  <1> QED BY <1>10 DEF m

-----------------------------------------------------------------------------
LEMMA InitGood == Good(NewLayout)
  <1> DEFINE top == RoundUp(Block + LayoutSize, Block)
  <1>1. /\ SpillTop \in Nat /\ LayoutSize \in Nat /\ Block = 4096
        /\ LayoutSize = SpillTop + 16 /\ ArgvTop = 16 /\ Pointer = 16
    BY Offsets DEF LayoutSize
  <1>2. Block + LayoutSize \in Nat /\ Block \in {2, 4, 8, 4096} BY <1>1
  <1>3. top \in Nat /\ Block + LayoutSize <= top BY <1>2, RoundUpBounds
  <1> DEFINE l0 == [max |-> top, pos |-> 0, vpos |-> 0, argc |-> 0, parmc |-> 0,
                    retstart |-> 0, args |-> {}]
  <1>4. NewLayout = [l0 EXCEPT !.pos = SpillTop, !.vpos = ArgvTop, !.argc = 0, !.parmc = 0]
    BY DEF NewLayout, ResetPos
  <1> HIDE DEF top
  <1>5. /\ NewLayout \in LayoutType
        /\ NewLayout.max = top /\ NewLayout.pos = SpillTop /\ NewLayout.vpos = ArgvTop
        /\ NewLayout.argc = 0 /\ NewLayout.args = {}
    <2>1. {} \in ArgSets BY DEF ArgSets
    <2>2. l0 \in LayoutType /\ l0.max = top /\ l0.args = {} BY <1>3, <2>1 DEF LayoutType
    <2>3. ArgvTop \in Nat BY <1>1
    <2> HIDE DEF l0
    <2> QED BY <1>1, <1>4, <2>2, <2>3 DEF LayoutType
  <1>6. Cursor(NewLayout) BY <1>1, <1>5 DEF Cursor, Register
  <1>7. Enough(NewLayout) BY <1>1, <1>3, <1>5 DEF Enough
  <1>8. Behind(NewLayout) /\ Separate(NewLayout) BY <1>5 DEF Behind, Separate
  <1> QED BY <1>5, <1>6, <1>7, <1>8 DEF Good

LEMMA PlaceKeeps ==
  ASSUME NEW l, Good(l), NEW by \in Kinds, NEW size \in Nat, Roomy(l, size),
         by = "value" => size <= ValueMax
  PROVE  Good(Place(l, TRUE, by, size))
  <1>1. l \in LayoutType /\ l.retstart \in Nat /\ l.pos \in Nat BY DEF Good, LayoutType
  <1>2. CASE by \in ByRef
    <2>1. Place(l, TRUE, by, size) = PlaceByRef(l, TRUE, by, size) BY <1>2 DEF Place, ByRef
    <2>2. Good(PlaceByRef(l, TRUE, by, size)) BY <1>2, ByRefKeeps
    <2> QED BY <2>1, <2>2
  <1>3. CASE by = "value"
    <2>1. Place(l, TRUE, by, size) = PlaceByValue(l, TRUE, size) BY <1>3 DEF Place, ByRef
    <2> QED BY <1>3, <2>1, ByValueKeeps
  <1>4. CASE by = "return"
    <2> DEFINE start == IF l.retstart = 0 THEN l.pos ELSE l.retstart
    <2>1. Place(l, TRUE, by, size) = [l EXCEPT !.pos = @ + size, !.retstart = start]
      BY <1>1, <1>4 DEF Place, PlaceReturn, ByRef, LayoutType
    <2>2. start \in Nat BY <1>1
    <2> HIDE DEF start
    <2>3. Good([l EXCEPT !.pos = @ + size, !.retstart = start]) BY <2>2, SpillKeeps
    <2> QED BY <2>1, <2>3
  <1>5. CASE by = "in_ds"
    <2>1. Place(l, TRUE, by, size) = NextSpill(l, size) BY <1>5 DEF Place, ByRef
    <2>2. NextSpill(l, size) = [l EXCEPT !.pos = @ + size, !.retstart = l.retstart]
      BY <1>1 DEF NextSpill, LayoutType
    <2>3. Good([l EXCEPT !.pos = @ + size, !.retstart = l.retstart]) BY <1>1, SpillKeeps
    <2> QED BY <2>1, <2>2, <2>3
  <1> QED BY <1>2, <1>3, <1>4, <1>5 DEF Kinds

LEMMA AddedKeeps ==
  ASSUME NEW l, Good(l), NEW by \in Kinds, NEW size \in Nat,
         by = "value" => size <= ValueMax
  PROVE  Good(Added(l, by, size))
  <1>1. CASE size > 0
    <2>1. Good(Grow(l, size)) /\ Roomy(Grow(l, size), size) BY GrowKeeps
    <2> QED BY <1>1, <2>1, PlaceKeeps DEF Added
  <1>2. CASE ~(size > 0)
    <2>1. size = 0 BY <1>2
    <2>2. l.pos \in Nat /\ l.max \in Nat /\ Block \in Nat BY Offsets DEF Good, LayoutType
    <2>3. Roomy(l, size) BY <2>1, <2>2 DEF Good, Enough, Roomy
    <2> QED BY <1>2, <2>3, PlaceKeeps DEF Added
  <1> QED BY <1>1, <1>2

LEMMA CopiedKeeps ==
  ASSUME NEW l, Good(l), NEW len \in Nat
  PROVE  Good(CopiedOnce(l, len))
  <1> DEFINE m == Grow(l, len)
  <1>1. Good(m) /\ Roomy(m, len) BY GrowKeeps
  <1> HIDE DEF m
  <1>2. m \in LayoutType /\ m.retstart \in Nat BY <1>1 DEF Good, LayoutType
  <1>3. NextSpill(m, len) = [m EXCEPT !.pos = @ + len, !.retstart = m.retstart]
    BY <1>2 DEF NextSpill, LayoutType
  <1>4. Good([m EXCEPT !.pos = @ + len, !.retstart = m.retstart]) BY <1>1, <1>2, SpillKeeps
  <1>5. Good(NextSpill(m, len)) BY <1>3, <1>4
  <1> QED BY <1>5 DEF CopiedOnce, m

\* The positions of the layout and what lies behind them, for any sequence of
\* arguments and copies.
THEOREM LayoutInvariant == LayoutSpec => []Good(layout)
  <1>1. LayoutInit => Good(layout) BY InitGood DEF LayoutInit
  <1>2. Good(layout) /\ [LayoutNext]_layout => Good(layout)'
    <2> SUFFICES ASSUME Good(layout), [LayoutNext]_layout PROVE Good(layout')
      OBVIOUS
    <2>1. ASSUME NEW by \in Kinds, NEW size \in Nat, Argument(by, size)
          PROVE  Good(layout')
      BY <2>1, AddedKeeps DEF Argument
    <2>2. ASSUME NEW len \in Nat, Copy(len) PROVE Good(layout')
      BY <2>2, CopiedKeeps DEF Copy
    <2>3. CASE UNCHANGED layout BY <2>3
    <2> QED BY <2>1, <2>2, <2>3 DEF LayoutNext
  <1> QED BY <1>1, <1>2, PTL DEF LayoutSpec

\* What is good has its arguments apart.
LEMMA GoodApart ==
  ASSUME NEW l, Good(l)
  PROVE  Apart(l)
  <1>1. /\ l.argc \in Nat /\ l.vpos \in Nat /\ l.pos \in Nat
        /\ l.max \in Nat /\ l.args \subseteq ArgType
    BY DEF Good, LayoutType, ArgSets
  <1>2. \A n \in Nat : Register(n) = 16 + 16 * n
    BY DEF Register, ArgvTop, Pointer
  <1>3. ASSUME NEW a \in l.args
        PROVE  /\ a.by # "value" => a.pos >= SpillTop /\ a.pos + a.len <= l.max
               /\ l.argc < MaxArgs => RegStart(a) + RegLen(a) <= SpillTop
    <2>1. /\ a.pos \in Nat /\ a.len \in Nat /\ RegStart(a) \in Nat /\ RegLen(a) \in Nat
      BY <1>1 DEF ArgType, RegStart, RegLen, Register, ArgvTop, Pointer
    <2>2. /\ RegStart(a) + RegLen(a) <= l.vpos
          /\ a.by # "value" => SpillTop <= a.pos /\ a.pos + a.len <= l.pos
      BY DEF Good, Behind
    <2>3. /\ l.pos + Block <= l.max
          /\ l.vpos <= Register(l.argc + 1)
      BY DEF Good, Enough, Cursor
    <2>4. /\ Block = 4096 /\ SpillTop \in Nat /\ MaxArgs = 159
          /\ Register(MaxArgs) <= SpillTop
      BY Offsets DEF MaxArgs
    <2>5. l.argc < MaxArgs => Register(l.argc + 1) <= Register(MaxArgs)
      BY <1>1, <1>2, <2>4
    <2>6. Register(l.argc + 1) \in Nat /\ Register(MaxArgs) \in Nat
      BY <1>1, <1>2, <2>4
    <2> QED BY <1>1, <2>1, <2>2, <2>3, <2>4, <2>5, <2>6
  <1> QED BY <1>3 DEF Good, Separate, Apart

\* Whatever arguments a program has, by reference and by value, of any size and in
\* any order, and however structures are copied, no two share a byte and all lie
\* in the memory allocated; the registers lie below the data unless the arguments
\* are more than the registers.
THEOREM ArgumentsNeverOverlap == LayoutSpec => []Apart(layout)
  <1>1. Good(layout) => Apart(layout) BY GoodApart
  <1> QED BY <1>1, LayoutInvariant, PTL

\* The kind and size that ile_pgm_by and ile_pgm_type_size give an argument are
\* those the walk above allows: what is passed by value fits a register.
THEOREM ByValueFits ==
  ASSUME NEW by, NEW size \in Nat, NEW inDs \in BOOLEAN
  PROVE  /\ By(by, size, inDs) \in Kinds
         /\ By(by, size, inDs) = "value" => size <= ValueMax
  BY DEF By, Kinds, ByRef
=============================================================================
