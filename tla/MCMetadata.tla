----------------------------- MODULE MCMetadata -----------------------------
(***************************************************************************)
(* Three data sources, six objects, and for every catalog function its     *)
(* arguments varied one at a time.  The texts for SQLNativeSql are an      *)
(* escape of every kind around and after quotes, comments and markers.     *)
(***************************************************************************)
EXTENDS Metadata

MCCollation == <<"%", "1", "2", "3", "A", "B", "[", "]", "_", "a", "b", "c", "q">>

ASource(case, quotes, escape, catalogs, schemas, nulls) ==
  [case |-> case, quotes |-> quotes, escape |-> escape, catalogs |-> catalogs, schemas |-> schemas,
   nulls |-> nulls, rewrites |-> {"f"}, commit |-> "close", rollback |-> "close",
   catalog |-> IF catalogs THEN "c" ELSE "", transactions |-> catalogs]
MCSources ==
  {ASource("upper", {<<"q", "q">>}, <<"e">>, TRUE, TRUE, "low"),
   ASource("lower", {<<"[", "]">>}, <<>>, FALSE, TRUE, "high"),
   ASource("mixed", {<<"q", "q">>, <<"[", "]">>}, <<"e">>, TRUE, FALSE, "high")}

AnObject(catalog, name, type, number, kind, other) ==
  [catalog |-> <<catalog>>, schema |-> <<"B">>, name |-> name, foreign |-> <<"A">>, column |-> <<"c", number>>,
   type |-> <<type>>, number |-> <<number>>, kind |-> <<kind>>, other |-> other]
MCObjects ==
  {AnObject("A", <<"A">>, "b", "2", "1", <<"a">>), AnObject("B", <<"A">>, "a", "1", "2", <<"b">>),
   AnObject("A", <<"a">>, "a", "1", "1", Null), AnObject("A", <<"A", "_">>, "b", "3", "1", <<"b">>),
   AnObject("A", <<"A", "B">>, "a", "1", "2", <<"a">>), AnObject("B", <<"a", "%">>, "a", "2", "2", <<"b">>)}

AType(data_type, preferred, name) ==
  [data_type |-> <<data_type>>, preferred |-> preferred, name |-> <<name>>]
MCTypes == {AType("1", FALSE, "a"), AType("1", TRUE, "b"), AType("2", TRUE, "a"), AType("1", FALSE, "c")}

Argument == {Null, Empty, Wild, <<"A">>, <<"a">>, <<"A", "_">>, <<"a", "%">>, <<"q", "a", "q">>,
             <<"[", "A", "_", "]">>, Unterminated}
Call(f, args, types, option) == [f |-> f, args |-> args, types |-> types, option |-> option]
Bases(f) == {[i \in DOMAIN Arguments[f] |-> Null], [i \in DOMAIN Arguments[f] |-> Wild]}
              \cup {[i \in DOMAIN Arguments[f] |-> IF NamesCatalog(Arguments[f][i]) THEN <<"A">> ELSE Null]}
OneVaried ==
  UNION {{Call(f, [base EXCEPT ![i] = arg], Null, option) :
            base \in Bases(f), i \in DOMAIN Arguments[f], arg \in Argument,
            option \in IF f \in {"Statistics", "SpecialColumns"} THEN BOOLEAN ELSE {TRUE}} :
         f \in CatalogFunction}
SpecialTables ==
  {Call("Tables", args, types, TRUE) :
     args \in {<<Wild, Empty, Empty>>, <<Empty, Wild, Empty>>, <<Empty, Empty, Empty>>, <<Null, Null, Null>>},
     types \in {Null, Empty, Wild, <<"a">>, <<"'", "a", "'", ",", " ", "b">>, <<"c", ",">>}}
MCCalls == OneVaried \cup SpecialTables
MCFewCalls == {Call("Tables", <<Null, Null, Wild>>, Null, TRUE), Call("Statistics", <<Null, Null, Null>>, Null, TRUE)}

Texts1 == {<<>>, <<"?">>, <<"'">>, <<"q">>, <<"[", "'", "]">>, <<"--">>, <<"/*", "?">>}
Openings == {<<"{", "fn", "f", "(">>, <<"{", " ", "fn", "g", " ", "(">>, <<"{", "fn", "x">>, <<"{", "oj", " ">>,
             <<"{", "d">>, <<"{", "escape">>, <<"{", "call">>, <<"{", "?">>, <<"{", "x">>, <<"x", "(">>,
             <<"{", "fn", "f", "(", "{", "oj">>, <<"{", "oj", "{", "oj", "{", "oj">>}
Bodies == {<<>>, <<" ", "?", " ">>, <<"'", "?", "'">>, <<"'", "}", "'", "?">>, <<"q", ")", "q", "?">>,
           <<"[", "{", "]", "?">>, <<"/*", "}", "*/", "?">>, <<"--", "?", "\n">>, <<"{", "oj", "?", "}">>}
Closings == {<<"}">>, <<")", "}">>, <<")", "?", "}">>, <<"}", ")", "}">>, <<"}", "}", "}">>}
Texts2 == {<<>>, <<"?">>, <<"'", "?">>, <<"\n", "?">>, <<"*/", "?", "q">>}
MCFewTexts == {<<>>, <<"x", "?", "x">>, [i \in 1..20 |-> "x"], <<"{", "oj", "x", "}">>, <<"{", "call", "}">>}
MCTexts == MCFewTexts \cup
  {a \o b \o c \o d \o e : a \in Texts1, b \in Openings, c \in Bodies, d \in Closings, e \in Texts2}

MCBuffers == {NullPointer, -1, 0, 1, 3, 4, 40}
MCFunctions == {"AllocHandle", "FreeHandle", "Fetch", "GetDiagRec", "Cancel", "EndTran", "Tables"}
=============================================================================
