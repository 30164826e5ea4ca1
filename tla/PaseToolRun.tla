------------------------------ MODULE PaseToolRun ------------------------------
(***************************************************************************)
(* The toolkit: every step of a request, and what is promised of requests.   *)
(***************************************************************************)
EXTENDS PaseToolPgm

RequestNext == BeginRequest \/ EmptyRequest \/ SkipNode \/ EndScript \/ EndRequest

ConnNext == ConnBegin \/ ConnPass \/ ConnEnd \/ Joblog \/ Close \/ Admin

QueryNext ==
  \/ QueryBegin \/ QueryPrepare \/ QueryParm \/ QueryParmsStop \/ QueryExecute
  \/ Fetch \/ FetchPass \/ QueryEnd

CmdNext == CmdBegin \/ CmdRun \/ CmdOutput \/ CmdEnd

PgmNext ==
  \/ PgmBegin \/ DataIn \/ DataOut \/ DsIn \/ EndDsIn \/ DsOut \/ EndDsNext \/ EndDsLast
  \/ PassParam \/ ParamsEnd \/ PgmCall \/ PgmEnd

Next == RequestNext \/ ConnNext \/ QueryNext \/ CmdNext \/ PgmNext \/ Done

Spec == Init /\ [][Next]_vars

-----------------------------------------------------------------------------
(* Properties                                                                *)

\* The brackets left open by a text, innermost last, or <<"bad">>.
LeftOpen(text) ==
  LET Pairs == {<<"{", "}">>, <<"[", "]">>}
      IsBracket(c) == c # "x"
      brackets == SelectSeq(text, IsBracket)
      Read(open, c) ==
        IF open = <<"bad">> THEN open
        ELSE CASE c \in Opens -> Append(open, c)
               [] open # <<>> /\ <<open[Len(open)], c>> \in Pairs -> SubSeq(open, 1, Len(open) - 1)
               [] OTHER -> <<"bad">>
      After[n \in 0 .. Len(brackets)] ==
        IF n = 0 THEN <<>> ELSE Read(After[n - 1], brackets[n])
  IN  After[Len(brackets)]

\* Whatever fails on the way, and however structures hold the answer back or cut
\* it, the answer to a request is one JSON text: every bracket is closed, by its
\* own kind and in order.  Three cases write an end alone and are left out: a
\* program whose call could not be prepared, a close without a connection, and
\* an array whose first element is blank ("dob").
OutputNests == pc = "answered" /\ ~log.stray => LeftOpen(out) = <<>>

\* A connection the toolkit opened for a request is closed with it, whichever
\* step failed; one with the label "*mem" stays in the driver's table under its
\* key, where the next request finds it; the client's own stays.  Left out are
\* requests that close the connection themselves (it is forgotten unclosed), and
\* labels whose connection is opened late, in memory or after a refusal, without
\* a key.
ConnectionsReturned ==
  pc = "idle" =>
    \A c \in HandleNums : db2[c].kind = "dbc" =>
      \/ c \in {given, pool}
      \/ log.byhand
      \/ log.labels \ {"*mem"} # {}
      \/ log.refused /\ log.labels # {}

\* A statement that outlives its request is one whose handle the answer showed,
\* for the client to fetch more rows with, and whose rows it has not been told are
\* all read: the statements of commands, programs and the job log, and of queries
\* read to the end, are freed on every path.
StatementsReported ==
  pc = "idle" => \A h \in HandleNums : db2[h].kind = "stmt" => h \in log.shown

\* The second walk of a program's parameters finds each value, of every element of
\* every array of structures, where the first walk put it, although the layout
\* grew in between, and reaches all of them.
ReadWhereWritten ==
  /\ pgm.read \subseteq pgm.written
  /\ pc = "pgmend" /\ rc = "ok" => pgm.read = pgm.written

\* Every value of the document that its type can hold is shown again as it was
\* given, if the program leaves it alone: whatever the digits, the scale and the
\* sign of a packed or zoned number, an even number of packed digits, a small
\* integer at its limit, text that is cut, filled and trimmed or has its length in
\* front, in each element of an array or a copied structure.
ValuesComeBack ==
  \A r \in pgm.read :
    LET type  == TypeOf(N[r.node])
        value == ValueOf(N[r.node])
    IN  Fits(type, value) => r.data # <<>> /\ ShowsValue(type, r.data, value)

\* No argument written for the call shares a byte with another, and all lie inside
\* the layout, however pointers and values of every size alternate and structures
\* are copied: the ILE side would read one parameter as another.  The vector has
\* room for 159 arguments, which nothing checks.
ArgumentsApart == pgm.step = 1 /\ pgm.layout.argc < MaxArgs => Apart(pgm.layout)

\* Elements outside any connection beside a connection.
Mixed ==
  /\ Cardinality({i \in DOMAIN N : N[i].key = "beg" /\ N[i].elem = "connect"}) > 1
  /\ \E i \in DOMAIN N : N[i].key = "beg" /\ N[i].elem \in Runs /\ N[i].ord = N[1].ord

\* A request that reports success ran every query, fetch, command, program and
\* parameter of its document, each in the order of the document's levels; one
\* that reports an error shows an error or the job log.
EveryElementRuns ==
  pc = "answered" =>
    /\ rc = "ok" /\ ~log.lost /\ ~Mixed =>
         \A i \in DOMAIN N : N[i].key = "beg" /\ N[i].elem \in Runs \cup {"fetch", "s", "ds"}
                             => i \in log.ran
    /\ rc = "error" => log.told
=============================================================================
