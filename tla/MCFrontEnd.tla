------------------------------- MODULE MCFrontEnd -------------------------------
(***************************************************************************)
(* Instances of FrontEnd: every field of a template's body under every     *)
(* spelling, every two statements together, declarations one after         *)
(* another, raw values around the depth limit, and texts nobody meant: all *)
(* short ones of the lexer's characters and all short bodies of tokens.    *)
(***************************************************************************)
EXTENDS FrontEndMeaning

MCOutOfRange == {<<"huge">>}

W(w)    == Lit("ident", <<w>>)
Q(w)    == Lit("str", <<w>>)
N(w)    == Lit("number", <<w>>)
P(w)    == Lit("param", <<w>>)
KV(k, v) == [kind |-> "pair", key |-> k, value |-> v]
Dep(ref, condition) == [kind |-> "dependency", ref |-> ref, condition |-> condition]

Style(colon, braced, between) == [colon |-> colon, braced |-> braced, between |-> between]
Plain     == Style(FALSE, FALSE, Comma)
Braced    == Style(FALSE, TRUE, Comma)
Lines     == Style(FALSE, TRUE, <<Newline>>)
Adjacent  == Style(TRUE, TRUE, <<" ">>)
Styles    == {Plain, Braced, Lines, Adjacent, Style(TRUE, FALSE, Comma)}

S(f, v, style) == [field |-> f, value |-> v, style |-> style]

T(params, between, statements) ==
  [type |-> "template", name |-> <<"t">>, params |-> params, statements |-> statements, between |-> between]
Decl(type, between, statements) == [type |-> type, name |-> <<"x">>, statements |-> statements, between |-> between]
Use == [type |-> "use", name |-> <<"L">>, path |-> <<"lib">>]

OneP   == <<<<"p">>>>
NetName == Access(W("net"), <<"name">>)

(* The values of each field; those that need braces apart.                 *)
Simple ==
  {<<"image", [ref |-> v]>> : v \in {Q("i"), P("p"), Access(Qualified(<<"L">>, <<"net">>), <<"name">>)}}
  \cup {<<"build", [context |-> Q("."), dockerfile |-> W("d")]>>, <<"expose", [port |-> N("8")]>>}
  \cup {<<"container_name", v>> : v \in {W("a"), N("max"), NetName, Access(P("p"), <<"name">>), Lit("str", <<"q", "\"", "\\", Newline, "eacute">>)}}
  \cup {<<"command", v>> : v \in {Q("sh"), Listed(<<>>), Listed(<<Q("sh"), P("q")>>)}}
  \cup {<<"privileged", Flag>>}
  \cup {<<"networks", Listed(v)>> : v \in {<<W("a")>>, <<W("a"), P("p"), Qualified(<<"L">>, <<"net">>)>>, <<Q("b"), W("a")>>}}
  \cup {<<"depends_on", Listed(v)>> : v \in {<<Dep(W("a"), <<"service_healthy">>), Dep(P("p"), <<>>)>>}}
  \cup {<<"publish", Listed(<<KV(N("8"), N("7"))>>)>>, <<"env", Listed(<<KV(W("K"), P("p"))>>)>>}
  \cup {<<"volume", Listed(<<Mount(KV(W("data"), Q("/d")), TRUE)>>)>>,
        <<"volume", Listed(<<Mount(KV(Q("."), Q("/d")), FALSE)>>)>>}
  \cup {<<"labels", Listed(<<KV(Q("k"), Listed(<<W("a"), P("p")>>))>>)>>, <<"labels", Listed(<<KV(NetName, W("a"))>>)>>}
  \cup {<<"raw", Listed(<<KV(W("r"), Listed(<<W("a"), N("8")>>))>>)>>}
  \cup {<<"with", Listed(v)>> :
          v \in {<<KV(W("u"), Listed(<<>>))>>,
                 <<KV(Qualified(<<"L">>, <<"u">>), Listed(<<KV(W("a"), P("p"))>>)), KV(W("v"), Listed(<<>>))>>}}

NeedBraces ==
  {<<"healthcheck", [test |-> Listed(<<Q("c")>>), disable |-> Flag]>>, <<"healthcheck", [interval |-> P("p")]>>}
  \cup {<<"publish", Listed(<<KV(N("8"), N(n)), KV(N("7"), Q("80/udp"))>>)>> : n \in {"7", "8"}}
  \cup {<<"env", Listed(<<KV(W("K"), N("8")), KV(k, N("7"))>>)>> : k \in {Q("K"), W("M"), P("K")}}
  \cup {<<"raw", Listed(<<KV(W("r"), W("a")), KV(k, Listed(<<KV(W("r"), W("b"))>>))>>)>> : k \in {W("s"), Q("r")}}

Singles ==
  {<<T(OneP, <<Newline>>, <<S(v[1], v[2], style)>>)>> : v \in Simple, style \in Styles}
  \cup {<<T(OneP, <<Newline>>, <<S(v[1], v[2], style)>>)>> : v \in NeedBraces, style \in {s \in Styles : s.braced}}

(* Two statements of one body.                                             *)
Pool ==
  {S("image", [ref |-> Q("i")], Plain), S("build", [context |-> Q("."), dockerfile |-> W("d")], Plain),
   S("container_name", W("a"), Plain), S("privileged", Flag, Plain), S("command", Listed(<<Q("sh")>>), Plain),
   S("networks", Listed(<<W("a"), W("b")>>), Plain), S("networks", Listed(<<P("p")>>), Braced),
   S("depends_on", Listed(<<Dep(W("a"), <<>>)>>), Plain), S("publish", Listed(<<KV(N("8"), N("7"))>>), Plain),
   S("publish", Listed(<<KV(N("7"), N("7"))>>), Plain), S("env", Listed(<<KV(W("K"), N("8"))>>), Plain),
   S("env", Listed(<<KV(Q("K"), N("7"))>>), Braced), S("labels", Listed(<<KV(NetName, W("a"))>>), Plain),
   S("raw", Listed(<<KV(W("r"), W("a"))>>), Plain), S("with", Listed(<<KV(W("u"), Listed(<<>>))>>), Plain),
   S("volume", Listed(<<Mount(KV(W("data"), Q("/d")), FALSE)>>), Plain), S("bogus", W("a"), Plain), S("router", W("a"), Plain)}

Pairs ==
  {<<T(OneP, between, <<s, u>>)>> : s \in Pool, u \in Pool, between \in {<<Newline>>, <<" ">>}}

(* Declarations one after another: a parameter belongs to one template.    *)
Uses(lit) == <<S("container_name", lit, Plain), S("networks", Listed(<<lit>>), Plain)>>
InTurn ==
  {<<T(params, <<Newline>>, Uses(P("p"))), Decl("service", <<Newline>>, Uses(lit))>> :
     params \in {<<>>, OneP, <<<<"p">>, <<"q">>>>, <<<<"p">>, <<"p">>>>}, lit \in {P("p"), W("p")}}
  \cup {<<Use, T(OneP, <<Newline>>, <<>>), T(<<<<"q">>>>, <<Newline>>, Uses(P(w)))>> : w \in {"p", "q"}}
  \cup {<<Decl("network", <<Newline>>, <<S("external", Flag, Plain), S("name", v, Plain)>>),
          Decl("volume", <<Newline>>, <<S("driver", W("nfs"), Plain),
                                       S("driver_opts", Listed(<<KV(W("o"), Q("ro"))>>), style)>>)>> :
          v \in {Q("n"), N("huge")}, style \in {Plain, Braced}}

(* Raw values around the limit: n lists or mappings, one in the other.     *)
Nested(n, mapping) ==
  LET nest[i \in 0..n] == IF i = 0 THEN W("a") ELSE Listed(<<IF mapping THEN KV(W("k"), nest[i - 1]) ELSE nest[i - 1]>>)
  IN  nest[n]

Raws ==
  {<<Decl("service", <<Newline>>, <<S(f, v, Plain)>>)>> :
     f \in {"raw"}, v \in {Listed(<<KV(W("r"), Nested(n, m))>>) : n \in 0..4, m \in BOOLEAN}}
  \cup {<<Decl("service", <<Newline>>, <<S("with", Listed(<<KV(W("u"), Listed(<<KV(W("r"), Nested(n, TRUE))>>))>>), Plain)>>)>> :
          n \in 1..4}
  \cup {<<Decl("service", <<Newline>>, <<S("raw", Listed(<<KV(W("r"), Listed(<<KV(W("k"), W("a")), KV(k, W("b"))>>))>>), Plain)>>)>> :
          k \in {W("k"), Q("k"), W("l")}}

MCPrograms == Singles \cup Pairs \cup InTurn \cup Raws

-------------------------------------------------------------------------------
UpTo(n, alphabet) == UNION {[1..k -> alphabet] : k \in 0..n}

Letters == UpTo(4, {"n", "7", "-", ">", "\"", "\\", Newline, "#", "eacute"})

Chunks ==
  {<<"networks", " ">>, <<"image", " ">>, <<"with", " ">>, <<"labels", " ">>, <<"raw", " ">>, <<"expose", " ", "8", " ">>,
   <<"a", " ">>, <<"$">>, <<"p", " ">>, <<".">>, <<":">>, <<",">>, <<"[">>, <<"]">>, <<"{">>, <<"}">>}

TokenBodies == {<<"template", " ", "t", "(", "p", ")", "{">> \o FlattenSeq(b) \o <<"}">> : b \in UpTo(3, Chunks)}

(* What neither makes.                                                     *)
InBody ==
  {<<"depends_on", " ", "a", "{", "}">>, <<"depends_on", " ", "a", "{", "x", ":", "}">>,
   <<"depends_on", " ", "a", "{", "condition", ":", "x", "}">>, <<"depends_on", " ", "[", "a", "{", "condition", "]">>,
   <<"volume", " ", "a", "-", ">", "8", "{", "}">>, <<"volume", " ", "a", "-", ">", "8", "{", "x", "}">>,
   <<"volume", " ", "a", "-", ">", "8", "{", "read_only", ",">>, <<"env", " ", "K", " ", "8">>,
   <<"expose", " ", "8", " ", "as", " ", "\"", "h", "\"">>, <<"privileged", ":", " ", "a">>,
   <<"networks", " ", "a", ",", "b", ":", "a">>, <<"raw", " ", "r", ":", "{", "a", "}">>,
   <<"raw", " ", "r", ":", "{", "a", ":", "8", " ", "b", ":", "7", "}">>, <<"container_name", " ", "a", ".", "b", ".", "c", ".", "d">>,
   <<"networks", " ", "$", "p", ".", "a">>, <<"networks", " ", "[", "a", ".", "b", ".", "c", "]">>,
   <<"build", " ", "a", ",", "labels", " ", "b">>, <<"labels", " ", "{", "a", ":", "8", "#", "}", Newline, "b", ":", "7", "}">>}

TopTexts ==
  {<<>>, <<"service">>, <<"service", " ", "x">>, <<"thing", " ", "x", "{", "}">>, <<"{">>, <<"template", " ", "t", "(", "8", ")">>,
   <<"use", " ", "\"", "l", "\"", " ", "L">>, <<"use", " ", "\"", "\\", "q", "eacute", "\\", "z", "\"", " ", "as", " ", "L">>}

MCScraps ==
  Letters \cup TokenBodies \cup TopTexts
    \cup {<<"template", " ", "t", "(", "p", ")", "{">> \o b \o <<"}">> : b \in InBody}

Spelt(programs) == {[program |-> p, text |-> Spell(p)] : p \in programs}

MCSources == Spelt(MCPrograms) \cup {[program |-> <<>>, text |-> scrap] : scrap \in MCScraps}

(* Two labels whose keys read two declarations.                            *)
AccessKeys ==
  Spelt({<<Decl("service", <<Newline>>, <<S("labels", Listed(<<KV(NetName, W("a"))>>), Plain),
                                          S("labels", Listed(<<KV(k, W("b"))>>), Plain)>>)>> :
           k \in {NetName, W("k"), Access(W("proxy"), <<"name">>)}})
===============================================================================
