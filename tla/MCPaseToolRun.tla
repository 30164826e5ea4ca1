----------------------------- MODULE MCPaseToolRun -----------------------------
(***************************************************************************)
(* Documents for TLC, in the shapes of src/tests/json and of the README of   *)
(* the parser.                                                              *)
(***************************************************************************)
EXTENDS PaseToolRun

Tok(lex, val) == [lex |-> lex, val |-> val]
Mark(lex) == <<Tok(lex, 0)>>
Text(val) == <<Tok("str", val)>>
Num(n) == <<Tok("nbr", n)>>
Joined(parts) == FoldLeft(LAMBDA s, p : IF s = <<>> THEN p ELSE s \o Mark(",") \o p, <<>>, parts)
M(key, value) == Text(key) \o Mark(":") \o value
Obj(members) == Mark("{") \o Joined(members) \o Mark("}")
Arr(values) == Mark("[") \o Joined(values) \o Mark("]")
One(key, value) == Obj(<<M(key, value)>>)
Ary(key, values) == One(key, Arr(values))

Type(typ, len) == Text([typ |-> typ, len |-> len, scale |-> 0, vary |-> 0])
Scaled(typ, len, scale) == Text([typ |-> typ, len |-> len, scale |-> scale, vary |-> 0])
Vary(len, vary) == Text([typ |-> "a", len |-> len, scale |-> 0, vary |-> vary])

Fetch2(n) == Ary("fetch", <<One("rec", n)>>)
Query(stmt, children) == Ary("query", <<One("stmt", Text(stmt))>> \o children)
Labelled(qual, children) == Ary("connect", <<One("qual", Text(qual))>> \o children)
All == Text("all")
Parms == Ary("parm", <<One("value", Num(1)), One("value", Num(2))>>)
Tables == Ary("parm", <<One("schema", Text("QIWS")), One("table", Text("QCUSTCDT"))>>)
Pages == Query("select", <<Fetch2(Num(1)), Fetch2(All)>>)
CmdDoc(kind) == One("cmd", One(kind, Text("x")))

Data(name, typ, len) == Obj(<<M("name", Text(name)), M("type", Type(typ, len))>>)
DataBy(name, typ, len, by) ==
  Obj(<<M("name", Text(name)), M("type", Type(typ, len)), M("by", Text(by))>>)
DataDim(name, typ, len, dim) ==
  Obj(<<M("name", Text(name)), M("type", Type(typ, len)), M("dim", Num(dim))>>)
Datum(type, value) == Obj(<<M("name", Text("v")), M("type", type), M("value", Text(value))>>)
Ss(values) == Ary("s", values)
Pgm(params) == Ary("pgm", <<Obj(<<M("name", Text("P")), M("lib", Text("L"))>>)>> \o params)
Ds(attrs, children) == Ary("ds", <<Obj(attrs)>> \o children)

MCDocuments ==
  [empty  |-> <<>>,
   none   |-> Mark("{") \o Mark("}"),
   admin  |-> One("admin", Obj(<<M("info", Text("version")), M("info", Text("name"))>>)),
   pages  |-> Labelled("*mem", <<Pages>>),
   select |-> Query("select", <<Parms, Fetch2(All)>>),
   unread |-> Query("select", <<Ary("fetch", <<>>)>>),
   mixed  |-> Arr(<<Query("update", <<>>), CmdDoc("exec"), Labelled("*mem", <<Pages>>)>>),
   fred   |-> Labelled("fred", <<Query("update", <<Parms>>), CmdDoc("rexx")>>),
   bare   |-> Labelled("fred", <<CmdDoc("exec"), Ary("query", <<>>)>>),
   tables |-> Query("tables", <<Tables, Fetch2(Num(1))>>),
   naked  |-> Query("columns", <<Fetch2(All)>>),
   joblog |-> Query("joblog", <<Fetch2(All)>>),
   more   |-> Labelled("*mem", <<Ary("query", <<One("handle", Num(3)), Fetch2(Num(1))>>)>>),
   shut   |-> Labelled("*mem", <<One("close", One("handle", Num(3))), Pages>>),
   closed |-> Arr(<<One("close", One("handle", All)), One("close", One("handle", All)),
                    Query("update", <<>>)>>),
   qsh    |-> Ary("connect", <<One("cmd", One("qsh", Text("ls"))), Query("update", <<>>)>>),
   args   |-> Pgm(<<Ss(<<DataBy("a", "i", 10, "in"), Data("b", "a", 5)>>),
                    One("s", DataBy("c", "i", 3, "value")), One("s", DataBy("d", "f", 8, "value")),
                    One("s", DataBy("g", "a", 10, "value")), One("s", DataBy("h", "i", 20, "both")),
                    One("s", DataBy("e", "a", 2000, "out")), One("s", DataBy("r", "i", 20, "return"))>>),
   wrong  |-> Pgm(<<One("s", Data("a", "i", 4)), One("s", Data("b", "i", 3))>>),
   blank  |-> Pgm(<<One("s", Data("a", "a", 0))>>),
   nested |-> Pgm(<<Ds(<<M("name", Text("out")), M("dim", Num(3))>>,
                       <<Ss(<<Data("x", "p", 7), DataDim("y", "a", 700, 2)>>),
                         Ds(<<M("name", Text("in")), M("dim", Num(2))>>, <<One("s", Data("z", "a", 3))>>)>>),
                    One("s", Data("last", "i", 10))>>),
   until  |-> Pgm(<<One("s", Data("n", "i", 10)),
                    Ds(<<M("name", Text("all")), M("by", Text("in"))>>, <<One("s", Data("u", "a", 4))>>),
                    Ds(<<M("name", Text("w")), M("dim", Num(3)), M("dou", Text("n"))>>,
                       <<One("s", Data("x", "a", 6)),
                         Ds(<<M("name", Text("v")), M("dim", Num(2)), M("dou", Num(1))>>,
                            <<One("s", Data("y", "a", 3))>>)>>)>>),
   empties |-> Pgm(<<Ds(<<M("name", Text("w")), M("dim", Num(3)), M("dob", Text("y"))>>,
                       <<Ss(<<Data("x", "a", 6), Data("y", "a", 3)>>),
                         Ds(<<M("name", Text("v")), M("dim", Num(2)), M("dob", Text("z"))>>,
                            <<One("s", Data("z", "s", 3))>>)>>)>>),
   values |-> Pgm(<<Ss(<<Datum(Scaled("p", 4, 2), Number(TRUE, <<1, 2>>, <<5>>)),
                         Datum(Scaled("p", 3, 3), Number(FALSE, <<>>, <<0, 7>>)),
                         Datum(Scaled("p", 2, 1), Number(TRUE, <<>>, <<>>)),
                         Datum(Scaled("p", 4, 0), Number(FALSE, <<0, 9, 9, 0, 0>>, <<>>)),
                         Datum(Scaled("p", 5, 2), Number(FALSE, <<1>>, <<2, 9, 9, 9>>)),
                         Datum(Scaled("s", 3, 1), Number(TRUE, <<7>>, <<>>)),
                         Datum(Scaled("s", 1, 0), Number(FALSE, <<>>, <<>>)),
                         Datum(Scaled("s", 4, 3), Number(FALSE, <<4>>, <<0, 9>>)),
                         Datum(Scaled("s", 5, 3), Number(FALSE, <<1>>, <<5, 6, 7, 4>>)),
                         Datum(Scaled("s", 2, 0), Number(FALSE, <<1, 2, 3>>, <<>>))>>),
                    Ds(<<M("name", Text("w")), M("dim", Num(2))>>,
                       <<Ss(<<Datum(Type("i", 3), Number(TRUE, <<1, 2, 8>>, <<>>)),
                              Datum(Type("u", 3), Number(FALSE, <<2, 5, 5>>, <<>>)),
                              Datum(Type("i", 5), Number(FALSE, <<3, 2, 7, 6, 7>>, <<>>)),
                              Datum(Type("u", 5), Number(FALSE, <<7, 0, 0, 0, 0>>, <<>>)),
                              Datum(Type("i", 10), Number(TRUE, <<7>>, <<5>>)),
                              Datum(Type("a", 3), <<1, 0, 2>>), Datum(Type("a", 2), <<1, 2, 3>>),
                              Datum(Vary(3, 2), <<1, 2>>), Datum(Vary(2, 4), <<>>),
                              Datum(Type("b", 2), <<15, 0, 10, 13>>),
                              Datum(Type("b", 2), <<15>>)>>)>>)>>),
   memory |-> Labelled("fred", <<Pgm(<<One("s", Data("a", "i", 10))>>),
                                 Pgm(<<Ss(<<Data("a", "i", 10), Data("b", "i", 4)>>)>>)>>)]

Two(d, e) == {[given |-> g, docs |-> <<d, e>>] : g \in BOOLEAN}
Only(d) == [given |-> FALSE, docs |-> <<d>>]

MCScripts ==
  {Only(d) : d \in {"admin", "mixed", "args", "wrong", "blank", "nested", "until", "empties", "values",
                    "memory", "qsh", "fred", "bare", "joblog", "naked", "unread"}} \cup
  {[given |-> TRUE, docs |-> <<d>>] : d \in {"select", "tables", "closed", "mixed", "qsh", "args", "wrong"}} \cup
  Two("pages", "more") \cup Two("pages", "shut") \cup Two("fred", "pages") \cup
  Two("tables", "pages") \cup Two("empty", "select") \cup Two("none", "closed")
=============================================================================
