-------------------------------- MODULE PaseToIle --------------------------------
(***************************************************************************)
(* The image of an ILE call the toolkit builds: a register area, in which   *)
(* every argument has a register (a pointer) or is stored by value, and a    *)
(* spill area for what is passed by reference, returned, or inside a         *)
(* structure.  A layout is a record; every operator gives the layout after   *)
(* the C function of its name.                                              *)
(***************************************************************************)
EXTENDS Integers, Sequences

Pointer  == 16    \* sizeof(ILEpointer), one register
MaxArgs  == 159   \* ILE_PGM_MAX_ARGS, which nothing checks
Block    == 4096  \* ILE_PGM_ALLOC_BLOCK
ArgvTop  == 16    \* offset of argv, after blob_pad
ValueMax == 16    \* ILE_VALUE_MAX_LEN

\* The offset of buf, after argv, five arrays of MaxArgs numbers (one of them
\* short, padded), the four names and eight counters.
SpillTop == ArgvTop + Pointer * MaxArgs + 4 * 4 * MaxArgs + (2 * MaxArgs + 2) + 288 + 32

\* sizeof(ile_pgm_call_t): buf, rounded up to the alignment of a pointer.
LayoutSize == SpillTop + Pointer

RoundUp(n, m) == IF n % m = 0 THEN n ELSE n + (m - (n % m))

-----------------------------------------------------------------------------
\* The size of a value: type letter, length, number of elements, bytes of the
\* length that precedes varying text.  (ile_pgm_type_size)
IntSize(len) == CASE len = 3 -> 1 [] len = 5 -> 2 [] len = 20 -> 8 [] OTHER -> 4

TypeSize(type, dim) ==
  dim * (CASE type.typ \in {"i", "u"} -> IntSize(type.len)
           [] type.typ = "f" -> IF type.len = 4 THEN 4 ELSE 8
           [] type.typ = "p" -> type.len \div 2 + 1
           [] type.typ = "a" /\ type.vary \in {2, 4} -> type.len + type.vary
           [] OTHER -> type.len)

\* The types tool_dcl_s converts; a number of another width is an error.
KnownType(type) ==
  /\ type.len >= 1
  /\ type.typ \in {"i", "u", "f", "p", "s", "a", "b", "h"}
  /\ type.typ \in {"i", "u"} => type.len \in {3, 5, 10, 20}
  /\ type.typ = "f" => type.len \in {4, 8}

\* How an argument is passed: "by" is the attribute, "" when there is none.
By(by, size, inDs) ==
  IF inDs THEN "in_ds"
  ELSE CASE by \in {"", "both"} -> "ref_both"
         [] by = "out" -> "ref_out"
         [] by \in {"value", "const"} /\ size <= ValueMax -> "value"
         [] by = "return" -> "return"
         [] OTHER -> "ref_in"

ByRef == {"ref_in", "ref_out", "ref_both"}

-----------------------------------------------------------------------------
\* ile_pgm_reset_pos
ResetPos(l) == [l EXCEPT !.pos = SpillTop, !.vpos = ArgvTop, !.argc = 0, !.parmc = 0]

\* tool_pgm: the first layout, for a spill of one block.
NewLayout ==
  ResetPos([max |-> RoundUp(Block + LayoutSize, Block), pos |-> 0, vpos |-> 0,
            argc |-> 0, parmc |-> 0, retstart |-> 0, args |-> {}])

\* ile_pgm_grow: enough room is asked for beyond a whole layout.
Room(l, size) == l.max - l.pos - LayoutSize > size

Grow(l, size) ==
  IF Room(l, size) THEN l ELSE [l EXCEPT !.max = RoundUp(l.max + size, Block)]

\* ile_pgm_next_spill_pos
NextSpill(l, size) == [l EXCEPT !.pos = @ + size]

Register(n) == ArgvTop + Pointer * n

\* What is recorded of an argument: where its data are and, by reference, its
\* register.
Arg(by, reg, pos, len) == [by |-> by, reg |-> reg, pos |-> pos, len |-> len]

\* Mutant of NextRegister: a register that holds values is taken for the pointer.
SameRegister(l) == l.argc

\* ile_pgm_argv_full_reg_available: the first register no value has begun to fill.
NextRegister(l) == IF l.vpos > Register(l.argc) THEN l.argc + 1 ELSE l.argc

\* The pointer in a register, and its data in the spill.
PlaceByRef(l, record, by, size) ==
  LET reg == NextRegister(l)
  IN  [l EXCEPT !.vpos = Register(reg + 1),
                !.argc = reg + 1,
                !.parmc = @ + 1,
                !.pos = @ + size,
                !.args = IF record THEN @ \cup {Arg(by, reg, l.pos, size)} ELSE @]

\* ile_pgm_curr_argv_ptr_align: the natural alignment, at most 8.
Aligned(vpos, size) ==
  CASE size <= 1 -> vpos
    [] size = 2 -> RoundUp(vpos, 2)
    [] size \in {3, 4} -> RoundUp(vpos, 4)
    [] size \in 5 .. 16 -> RoundUp(vpos, 8)
    [] OTHER -> vpos

PlaceByValue(l, record, size) ==
  LET where == Aligned(l.vpos, size)
      reg   == IF where + size > Register(l.argc + 1) THEN l.argc + 1 ELSE l.argc
  IN  [l EXCEPT !.vpos = where + size,
                !.argc = reg,
                !.parmc = @ + 1,
                !.args = IF record THEN @ \cup {Arg("value", reg, where, size)} ELSE @]

\* The first byte of the result is where the first parameter returned begins.
PlaceReturn(l, size) ==
  [l EXCEPT !.retstart = IF @ = 0 THEN l.pos ELSE @, !.pos = @ + size]

\* ile_pgm_parm_location: the layout after it, and where the data are.
Place(l, record, by, size) ==
  CASE by \in ByRef -> PlaceByRef(l, record, by, size)
    [] by = "value" -> PlaceByValue(l, record, size)
    [] by = "return" -> PlaceReturn(l, size)
    [] OTHER -> NextSpill(l, size)

\* An argument is written, in a layout that has grown for it.
Added(l, by, size) == Place(IF size > 0 THEN Grow(l, size) ELSE l, TRUE, by, size)

\* One more copy of the last len bytes written.
CopiedOnce(l, len) == NextSpill(Grow(l, len), len)

Where(l, by, size) == IF by = "value" THEN Aligned(l.vpos, size) ELSE l.pos
-----------------------------------------------------------------------------
Disjoint(p, n, q, m) == p + n <= q \/ q + m <= p

\* What an argument takes of the register area: its value or its pointer.
RegStart(a) == IF a.by = "value" THEN a.pos ELSE Register(a.reg)
RegLen(a)   == IF a.by = "value" THEN a.len ELSE Pointer

\* No two arguments share a byte, the data lie inside the memory allocated, and
\* the registers, when there are enough for the arguments, below the data.
Apart(l) ==
  /\ \A a, b \in l.args : a # b =>
       /\ Disjoint(RegStart(a), RegLen(a), RegStart(b), RegLen(b))
       /\ a.by # "value" /\ b.by # "value" => Disjoint(a.pos, a.len, b.pos, b.len)
  /\ \A a \in l.args :
       /\ a.by # "value" => a.pos >= SpillTop /\ a.pos + a.len <= l.max
       /\ l.argc < MaxArgs => RegStart(a) + RegLen(a) <= SpillTop
=============================================================================
