--------------------------- MODULE MCEvidenceTracer ---------------------------
(* The shapes of a scenario file: a compare that returns its finding with a
   description, helpers with a local that run() has too, one that consults the
   vendor, one that calls itself, and a function of another file. *)
EXTENDS EvidenceTracer

Func(params, locals, returns) == [params |-> params, locals |-> locals, returns |-> returns]

MCHelpers ==
  [ _compare |-> Func(<<"a", "b">>, [line |-> Imported("describe", <<Name("a")>>)],
                      {Tuple(<<Node(<<Name("a"), Name("b")>>), Name("line")>>)}),
    _golden |-> Func(<<"a">>, [ok |-> Node(<<Name("a"), Source("fixture")>>)], {Name("ok")}),
    _quiet_log |-> Func(<<>>, [log |-> Source("vendor")], {Name("log")}),
    _again |-> Func(<<"a">>, <<>>, {Name("a"), Call("_again", <<Name("a")>>)}) ]

\* A helper consults the vendor by way of a local, got, and calls its finding ok; so does
\* the compare that calls it, which has a parameter of the name got.
MCCapturing ==
  [ _log_ok |-> Func(<<>>, [got |-> Source("vendor"), ok |-> Node(<<Name("got")>>)],
                     {Name("ok")}),
    _compare |-> Func(<<"got", "golden">>, [ok |-> Call("_log_ok", <<>>)],
                      {Node(<<Name("ok"), Name("got"), Name("golden")>>)}) ]

MCSources == {"vendor", "fixture", "output"}
MCLocals == {"ok", "rows"}
MCImports == [describe |-> {}, _rows_ok |-> {"vendor"}]

\* A file that imports nothing whose name begins with an underscore.
MCDescribe == [describe |-> {}]

\* The same scenarios read by a tracer whose cap they reach.
Capped == INSTANCE EvidenceTracer WITH MaxDepth <- 2

\* validate_suite.py:622: where the cap on the depth, or a cut in a recursion, ends
\* the tracing, what lies behind counts as evidence; so with either cap no
\* evidence is overlooked.
TracerCorrect ==
  /\ TypeOK
  /\ NoEvidenceOverlooked
  /\ Capped!NoEvidenceOverlooked
  /\ GoldenOnlyIsReported

===============================================================================
