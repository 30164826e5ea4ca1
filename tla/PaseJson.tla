-------------------------------- MODULE PaseJson --------------------------------
(***************************************************************************)
(* The three passes of SQL400Json over a document, and the list of nodes    *)
(* they build for the toolkit.  A document is a sequence of lexemes         *)
(* [lex, val]: one of "{" "}" "[" "]" "," ":", or a string, number or        *)
(* literal ("str", "nbr", "bol", "nul") with its value.                     *)
(***************************************************************************)
EXTENDS Integers, Sequences, FiniteSets, SequencesExt

\* The elements of the toolkit and the attributes each knows.
Attributes ==
  [admin   |-> {"info"},
   connect |-> {"db", "uid", "pwd", "qual", "iso", "libl", "curlib"},
   query   |-> {"stmt", "handle"},
   close   |-> {"handle"},
   parm    |-> {"value", "schema", "table", "type", "proc", "colname", "scope", "unique"},
   fetch   |-> {"rec"},
   cmd     |-> {"exec", "rexx", "qsh"},
   pgm     |-> {"name", "lib", "func", "debugpgm"},
   ds      |-> {"name", "dim", "by", "dou", "dos", "dob"},
   s       |-> {"name", "dim", "type", "value", "by", "setlen", "noconv", "dou", "dob"}]

Elements == DOMAIN Attributes

AttrMax == 9

Opens == {"{", "["}
Closes == {"}", "]"}
Values == {"str", "nbr", "bol", "nul"}

-----------------------------------------------------------------------------
(* Pass 1: json_parse                                                        *)

\* The level of a lexeme: a bracket belongs to the level it opens or closes.
Level(doc, k) ==
  Cardinality({i \in 1 .. k : doc[i].lex \in Opens}) -
  Cardinality({i \in 1 .. k - 1 : doc[i].lex \in Closes})

\* A string is a key unless a colon precedes it, or precedes the values before it.
AfterColon(doc, k) ==
  \E i \in 1 .. k - 1 : doc[i].lex = ":" /\ \A j \in i + 1 .. k - 1 : doc[j].lex \in Values

ParseOne(doc, k) ==
  [key |-> IF doc[k].lex = "str" /\ ~AfterColon(doc, k) THEN "key" ELSE doc[k].lex,
   val |-> doc[k].val,
   lvl |-> Level(doc, k)]

\* The array of keys.  (TLC evaluates a concatenation once, a function at each use.)
Parse(doc) == <<>> \o [k \in 1 .. Len(doc) |-> ParseOne(doc, k)]

-----------------------------------------------------------------------------
(* Pass 2: json_xform                                                        *)

MinOf(S) == CHOOSE i \in S : \A j \in S : i <= j
MaxOf(S) == CHOOSE i \in S : \A j \in S : i >= j

IsElement(toks, i) == toks[i].key = "key" /\ toks[i].val \in Elements

\* What the scan from the key of an element learns: first, the first token that
\* is no colon or opening bracket (its level is the deepest that is looked at);
\* array, the level of the array the element's value is, or 0; end, the token
\* that becomes the end of the element.
Extent(toks, i) ==
  LET after == {k \in i + 1 .. Len(toks) : toks[k].key \notin Opens \cup {":"}}
      first == IF after = {} THEN Len(toks) + 1 ELSE MinOf(after)
      arys  == {k \in i + 1 .. first - 1 : toks[k].key = "["}
      ends  == {k \in first .. Len(toks) : toks[k].lvl = toks[i].lvl}
  IN  [first |-> first,
       deep  |-> IF after = {} THEN 0 ELSE toks[first].lvl,
       array |-> IF arys = {} THEN 0 ELSE toks[MaxOf(arys)].lvl,
       end   |-> IF ends = {} THEN Len(toks) + 1 ELSE MinOf(ends)]

\* What a token is after the pass: the beginning or end of an element, a
\* separator of its array, one of its attributes, or what it was.
Transformed(toks, extent, k) ==
  LET inside == {i \in DOMAIN extent : k \in extent[i].first .. extent[i].end - 1 /\
                                       toks[k].lvl <= extent[i].deep}
      ended  == {i \in DOMAIN extent : extent[i].end = k}
      owners == {i \in inside : toks[k].key = "key" /\ toks[k].val \in Attributes[toks[i].val]}
  IN  IF k \in DOMAIN extent THEN [toks[k] EXCEPT !.key = "beg"]
      ELSE IF ended # {} THEN [toks[k] EXCEPT !.key = "end", !.val = toks[MaxOf(ended)].val]
      ELSE IF \E i \in inside : toks[k].key = "," /\ toks[k].lvl = extent[i].array
           THEN [toks[k] EXCEPT !.key = "sep"]
      ELSE IF owners # {} THEN [toks[k] EXCEPT !.key = "attr"]
      ELSE toks[k]

Extents(toks) ==
  LET starts == {i \in DOMAIN toks : IsElement(toks, i)}
  IN  [i \in starts |-> Extent(toks, i)]

\* Of two elements that hold an attribute at their level the outer one, which is
\* transformed first, takes it.
OwnerOf(toks, extent, k) ==
  toks[MinOf({i \in DOMAIN extent : /\ k \in extent[i].first .. extent[i].end - 1
                                    /\ toks[k].lvl <= extent[i].deep
                                    /\ toks[k].val \in Attributes[toks[i].val]})].val

-----------------------------------------------------------------------------
(* The list of nodes                                                         *)

\* fin: the element has been ended.  A node that is an end stays unfinished.
Node(key, elem, ord) == [key |-> key, elem |-> elem, ord |-> ord, fin |-> FALSE, attrs |-> <<>>]

\* tool_node_elem_push: the list starts with a connection, with an implied one
\* when the document does not.
Push(nodes, key, elem, ord) ==
  (IF nodes = <<>> /\ ~(key = "beg" /\ elem = "connect")
   THEN <<Node("beg", "connect", ord)>> ELSE nodes) \o <<Node(key, elem, ord)>>

\* The unfinished nodes of a set that are at the greatest level up to ord, and the
\* latest of those, or 0.
Latest(nodes, S, ord) ==
  LET open == {i \in S : ~nodes[i].fin /\ nodes[i].ord <= ord /\ nodes[i].ord >= 0}
      at   == {i \in open : \A j \in open : nodes[j].ord <= nodes[i].ord}
  IN  IF at = {} THEN 0 ELSE MaxOf(at)

Begins(nodes, elem) == {i \in DOMAIN nodes : nodes[i].key = "beg" /\ nodes[i].elem = elem}

\* tool_node_end: the end is at the level of the beginning.
NodeEnd(nodes, elem, ord) ==
  LET b == Latest(nodes, Begins(nodes, elem), ord)
  IN  IF b = 0 THEN nodes
      ELSE Push([nodes EXCEPT ![b].fin = TRUE], "end", elem, nodes[b].ord)

\* The elements a separator of an array ends and begins again.
Repeats == {"s", "parm"}

\* tool_node_sep
NodeSep(nodes, ord) ==
  LET b == Latest(nodes, DOMAIN nodes, ord)
  IN  IF b = 0 \/ (nodes[b].key = "beg" /\ nodes[b].elem \notin Repeats) \/ nodes[b].key = "end"
      THEN nodes
      ELSE Push(Push([nodes EXCEPT ![b].fin = TRUE], "end", nodes[b].elem, nodes[b].ord),
                "beg", nodes[b].elem, nodes[b].ord)

\* tool_node_attr: beyond AttrMax attributes an element remembers none.
NodeAttr(nodes, elem, name, lex, val, ord) ==
  LET b == Latest(nodes, Begins(nodes, elem), ord)
  IN  IF b = 0 \/ Len(nodes[b].attrs) >= AttrMax THEN nodes
      ELSE [nodes EXCEPT ![b].attrs = Append(@, [name |-> name, lex |-> lex, val |-> val])]

-----------------------------------------------------------------------------
(* Pass 3: json_tkit                                                         *)

\* The value of an attribute is the token after its colon, when that is a value,
\* else the attribute's own name.
ValueToken(toks, k) ==
  IF k + 2 <= Len(toks) /\ toks[k + 1].key = ":" /\ toks[k + 2].key \in Values
  THEN toks[k + 2] ELSE toks[k]

NodesOf(doc) ==
  LET raw    == Parse(doc)
      extent == Extents(raw)
      toks   == <<>> \o [k \in 1 .. Len(doc) |-> Transformed(raw, extent, k)]
      \* Before the first element nothing has an effect.
      Add(nodes, k) ==
        IF nodes = <<>> /\ toks[k].key # "beg" THEN nodes
        ELSE CASE toks[k].key = "beg" -> Push(nodes, "beg", toks[k].val, toks[k].lvl)
               [] toks[k].key = "end" -> NodeEnd(nodes, toks[k].val, toks[k].lvl)
               [] toks[k].key = "sep" -> NodeSep(nodes, toks[k].lvl)
               [] OTHER ->
                    LET v == ValueToken(toks, k)
                    IN  NodeAttr(nodes, OwnerOf(raw, extent, k), toks[k].val, v.key, v.val, toks[k].lvl)
      \* The tokens that have an effect, in their order.
      these  == {k \in 1 .. Len(toks) : toks[k].key \in {"beg", "end", "sep", "attr"}}
      Nth(n) == CHOOSE k \in these : Cardinality({j \in these : j <= k}) = n
      After[n \in 0 .. Cardinality(these)] == IF n = 0 THEN <<>> ELSE Add(After[n - 1], Nth(n))
  IN  After[Cardinality(these)]

\* The last value of an attribute, or none: the loops over the attributes of a
\* node go through all of them.
HasAttr(node, name) == \E i \in DOMAIN node.attrs : node.attrs[i].name = name
Attr(node, name) ==
  node.attrs[MaxOf({i \in DOMAIN node.attrs : node.attrs[i].name = name})].val
AttrOr(node, name, default) == IF HasAttr(node, name) THEN Attr(node, name) ELSE default

\* A number, or 0 when the value is none ("all").
NumberOr0(node, name) ==
  LET last == {i \in DOMAIN node.attrs : /\ node.attrs[i].name = name
                                         /\ \A j \in DOMAIN node.attrs : node.attrs[j].name = name => j <= i}
  IN  IF \E i \in last : node.attrs[i].lex = "nbr" THEN Attr(node, name) ELSE 0
=============================================================================
