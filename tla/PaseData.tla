-------------------------------- MODULE PaseData --------------------------------
(***************************************************************************)
(* What the toolkit stores of a value for an ILE program, and what it shows  *)
(* of the bytes the program leaves.  A number is written in a document as    *)
(* [neg, int, frac]: its sign and the digits before and after the point.      *)
(* Text is a sequence of characters, numbers of which 0 is the blank; binary  *)
(* data a sequence of hexadecimal digits.  What is stored is a sequence of    *)
(* integers.                                                                *)
(***************************************************************************)
EXTENDS PaseToIle, SequencesExt

Number(neg, int, frac) == [neg |-> neg, int |-> int, frac |-> frac]

\* in_value_nothing
NoValue(typ) == IF typ \in {"a", "b"} THEN <<>> ELSE Number(FALSE, <<>>, <<>>)

-----------------------------------------------------------------------------
(* ile_pgm_str_fix_decimal                                                   *)

\* A digit a carry goes into.
CarryInto(d) == CASE d = 0 -> 1 [] d \in 4 .. 8 -> d + 1 [] d = 9 -> 0 [] OTHER -> d

\* A digit after which another is rounded up.
RoundedUp(d) == (d + 1) % 10

\* The loop of ile_pgm_str_fix_round at position i, from 0: it walks from the last
\* digit to the front, and up to "keep" digits from the end.
RoundAt(s, i) ==
  LET limit   == s.len - s.keep
      before  == s.digits[i]
      carry   == s.overflow
      rounds  == ~carry /\ i > limit /\ s.digits[i + 1] > 5 /\ before >= 5
      next    == IF carry
                 THEN [s EXCEPT !.digits[i] = CarryInto(@), !.overflow = before = 9,
                                !.keep = IF before = 9 /\ i = limit THEN @ - 1 ELSE @]
                 ELSE IF rounds
                 THEN [s EXCEPT !.digits[i] = RoundedUp(@), !.digits[i + 1] = 0,
                                !.overflow = before = 9]
                 ELSE s
  IN  IF s.done \/ s.keep = 0 THEN s
      ELSE [next EXCEPT !.done = next.keep < 1 \/ i = s.len - next.keep]

Rounded(digits, scale) ==
  LET len == Len(digits)
  IN  FoldLeft(RoundAt,
               [digits |-> digits, len |-> len, keep |-> scale, overflow |-> FALSE, done |-> FALSE],
               [k \in 1 .. len - 1 |-> len - k]).digits

\* The digits of a number in a field of len digits, scale of them after the point:
\* too many in front are cut off, missing ones are 0.
FixedDecimal(v, len, scale) ==
  LET given   == v.int \o v.frac
      digits  == IF Len(v.frac) > scale THEN Rounded(given, scale) ELSE given
      front   == IF len > scale THEN len - scale ELSE 0
      From(n) == n - front + Len(v.int)
  IN  [n \in 1 .. len |-> IF From(n) \in DOMAIN digits THEN digits[From(n)] ELSE 0]

-----------------------------------------------------------------------------
(* Packed and zoned decimals, as half bytes                                   *)

Sign(neg) == IF neg THEN 13 ELSE 15

\* Mutant of PackedOf: the half byte that fills an even number of digits is not in
\* front of them, and the digits move to the left.
PackedOfLeft(v, len, scale) ==
  FixedDecimal(v, len, scale) \o (IF len % 2 = 0 THEN <<0>> ELSE <<>>) \o <<Sign(v.neg)>>

PackedOf(v, len, scale) ==
  (IF len % 2 = 0 THEN <<0>> ELSE <<>>) \o FixedDecimal(v, len, scale) \o <<Sign(v.neg)>>

ZonedOf(v, len, scale) ==
  LET digits == FixedDecimal(v, len, scale)
  IN  [n \in 1 .. 2 * len |->
         IF n % 2 = 0 THEN digits[n \div 2]
         ELSE IF n = 2 * len - 1 THEN Sign(v.neg)
         ELSE 15]

\* Without the zeros in front.
Significant(digits) ==
  LET used == {n \in DOMAIN digits : digits[n] # 0}
  IN  IF used = {} THEN <<>> ELSE SubSeq(digits, Min(used), Len(digits))

\* A 0 stands where there is no digit before the point; nothing but zeros is "0.0".
DecimalText(neg, digits, scale) ==
  LET point == IF Len(digits) > scale THEN Len(digits) - scale ELSE 0
      int   == Significant(SubSeq(digits, 1, point))
      frac  == SubSeq(digits, point + 1, Len(digits))
  IN  Number(neg, IF int = <<>> THEN <<0>> ELSE int,
             IF scale = 0 /\ int = <<>> THEN <<0>> ELSE frac)

PackedText(half, scale) ==
  DecimalText(half[Len(half)] = 13, SubSeq(half, 1, Len(half) - 1), scale)

ZonedText(half, scale) ==
  DecimalText(half[Len(half) - 1] = 13, [n \in 1 .. Len(half) \div 2 |-> half[2 * n]], scale)

-----------------------------------------------------------------------------
(* Integers, text and binary data                                            *)

Decimal(digits) == FoldLeft(LAMBDA n, d : 10 * n + d, 0, digits)

\* strtol and strtoul, which stop at the point.
IntegerOf(v) == (IF v.neg THEN -1 ELSE 1) * Decimal(v.int)

\* The cast to an integer of 1 or 2 bytes; the numbers of a run fit in 4 and 8.
Cast(n, type) ==
  LET size == IntSize(type.len)
  IN  IF size > 2 THEN n
      ELSE IF type.typ = "u" THEN n % 2 ^ (8 * size)
      ELSE ((n + 2 ^ (8 * size - 1)) % 2 ^ (8 * size)) - 2 ^ (8 * size - 1)

Blank == 0

\* Text is cut or filled with blanks; varying text has its length in front.
CharsOf(v, type) ==
  LET len == IF Len(v) > type.len THEN type.len ELSE Len(v)
  IN  (IF type.vary # 0 THEN <<len>> ELSE <<>>) \o
      [n \in 1 .. type.len |-> IF n <= len THEN v[n] ELSE Blank]

Trimmed(text) ==
  LET used == {n \in DOMAIN text : text[n] # Blank}
  IN  IF used = {} THEN <<>> ELSE SubSeq(text, 1, Max(used))

CharText(bytes, type) ==
  LET len == IF type.vary # 0 /\ bytes[1] <= type.len THEN bytes[1] ELSE type.len
      at  == IF type.vary # 0 THEN 2 ELSE 1
  IN  Trimmed(SubSeq(bytes, at, at + len - 1))

\* Pairs of hexadecimal digits; the bytes that are not given are 0.
BytesOf(v, type) == [n \in 1 .. 2 * type.len |-> IF n <= Len(v) THEN v[n] ELSE 0]

\* All bytes of the type are shown, given or not.
BytesText(half, type) == SubSeq(half, 1, 2 * type.len)

-----------------------------------------------------------------------------
\* tool_dcl_s on the way in: what an element of the array holds.  A floating-point
\* number is stored by the C library, and only that one was is recorded.
Stored(type, v) ==
  CASE type.typ \in {"i", "u"} -> <<Cast(IntegerOf(v), type)>>
    [] type.typ = "p" -> PackedOf(v, type.len, type.scale)
    [] type.typ = "s" -> ZonedOf(v, type.len, type.scale)
    [] type.typ = "a" -> CharsOf(v, type)
    [] type.typ = "b" -> BytesOf(v, type)
    [] OTHER -> <<0>>

\* tool_dcl_s on the way out.
TextOf(type, data) ==
  CASE type.typ \in {"i", "u"} -> data[1]
    [] type.typ = "p" -> PackedText(data, type.scale)
    [] type.typ = "s" -> ZonedText(data, type.scale)
    [] type.typ = "a" -> CharText(data, type)
    [] type.typ = "b" -> BytesText(data, type)
    [] OTHER -> data

-----------------------------------------------------------------------------
(* The reference: what a value is worth, without regard to how it is stored     *)

NoDigitAfter(v, places) == \A k \in DOMAIN v.frac : k > places => v.frac[k] = 0

\* The number, counted in units of its last place.
Worth(v, places) ==
  (IF v.neg THEN -1 ELSE 1) *
  Decimal(v.int \o [k \in 1 .. places |-> IF k \in DOMAIN v.frac THEN v.frac[k] ELSE 0])

\* The values a type can hold.
Fits(type, v) ==
  CASE type.typ \in {"p", "s"} ->
         Decimal(v.int) < 10 ^ (type.len - type.scale) /\ NoDigitAfter(v, type.scale)
    [] type.typ = "i" -> /\ NoDigitAfter(v, 0)
                         /\ type.len = 3 => IntegerOf(v) \in -128 .. 127
                         /\ type.len = 5 => IntegerOf(v) \in -32768 .. 32767
    [] type.typ = "u" -> /\ NoDigitAfter(v, 0) /\ ~v.neg
                         /\ type.len = 3 => IntegerOf(v) <= 255
                         /\ type.len = 5 => IntegerOf(v) <= 65535
    [] type.typ = "a" -> Len(v) <= type.len /\ (v # <<>> => v[Len(v)] # Blank)
    [] type.typ = "b" -> Len(v) = 2 * type.len
    [] OTHER -> FALSE

ShowsValue(type, data, v) ==
  LET text == TextOf(type, data)
  IN  CASE type.typ \in {"p", "s"} ->
             NoDigitAfter(text, type.scale) /\ Worth(text, type.scale) = Worth(v, type.scale)
        [] type.typ \in {"i", "u"} -> text = Worth(v, 0)
        [] OTHER -> text = v
=============================================================================
