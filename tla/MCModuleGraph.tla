---------------------------- MODULE MCModuleGraph ----------------------------
(***************************************************************************)
(* Every way four files and two bundled modules can import each other with *)
(* the spellings below: the same file spelled three ways, itself, a cycle, *)
(* a missing and an unparsable file, a path out of the tree, a bundled     *)
(* module with and without its extension, one that does not exist, and a   *)
(* user file named like a bundled module.                                  *)
(*                                                                         *)
(* d/main.hll, d/lib.hll, d/net.hll, top.hll beside the directory; std:net *)
(* and std:base.                                                           *)
(*                                                                         *)
(* And three files, main.hll importing lib.hll importing third.hll, with   *)
(* every short list of declarations that matters to warnings: services of  *)
(* the entry file and of others, `template defaults` before and after      *)
(* them, and a service or a template that names `defaults` in its `with`.  *)
(***************************************************************************)
EXTENDS ModuleGraph, TLC

MCStem == [c \in {"net.hll", "base.hll"} |-> IF c = "net.hll" THEN "net" ELSE "base"]

At(parts) == [root |-> FALSE, parts |-> parts]
Use(alias, raw) == [kind |-> "use", name |-> alias, with |-> <<>>, raw |-> raw]
Good(decls) == [status |-> "ok", decls |-> decls]
Composing(kind, name, with) == [kind |-> kind, name |-> name, with |-> with, raw |-> Raw(<<>>)]
Plain(kind, name) == Composing(kind, name, <<>>)
With(alias, name) == [alias |-> alias, name |-> name]

MainRaws ==
  {Raw(<<"lib.hll">>), Raw(<<"..", "d", ".", "lib.hll">>), Raw(<<"..", "top.hll">>),
   Raw(<<"..", "..", "top.hll">>), Raw(<<"net.hll">>), RawStd(<<"net">>), RawStd(<<"none">>)}

Main == {Good(<<Use("a", r), Use("b", s)>>) : r, s \in MainRaws}
          \cup {Good(<<Use("a", Raw(<<"lib.hll">>)), Use("a", RawStd(<<"net">>))>>)}

Lib == {[status |-> "Parse", decls |-> <<>>], Good(<<>>)}
         \cup {Good(<<Use("a", r)>>) : r \in {Raw(<<".", "main.hll">>), Raw(<<"..", "top.hll">>),
                                              RawStd(<<"net.hll">>), Raw(<<"gone.hll">>)}}
         \cup {Good(<<Plain("network", "n"), Plain("network", "n")>>),
               Good(<<Plain("network", "n"), Plain("volume", "n")>>)}

Top == {Good(<<Use("x", r)>>) : r \in {Raw(<<"d", "lib.hll">>), RawStd(<<"base">>),
                                       Raw(<<"d", "..", "d", "main.hll">>),
                                       [Raw(<<"d">>) EXCEPT !.path.root = TRUE]}}

Net == {Good(<<>>)} \cup {Good(<<Use("b", r)>>) : r \in {Raw(<<"base.hll">>),
                                                       Raw(<<"..", "base.hll">>)}}
Base == {Good(<<Use("n", r)>>) : r \in {RawStd(<<"net">>), Raw(<<"none.hll">>)}}

GraphWorlds ==
  {[entry |-> At(<<"d", ".", "main.hll">>),
    files |-> (At(<<"d", "main.hll">>) :> main) @@ (At(<<"d", "lib.hll">>) :> lib)
                @@ (At(<<"d", "net.hll">>) :> Good(<<>>)) @@ (At(<<"top.hll">>) :> top)
                @@ (At(<<"..", "top.hll">>) :> top),
    registry |-> (<<"net">> :> net) @@ (<<"base">> :> base)] :
     main \in Main, lib \in Lib, top \in Top, net \in Net, base \in Base}

-------------------------------------------------------------------------------
UpTo2(S) == {<<>>} \cup {<<d>> : d \in S} \cup {<<d, e>> : d, e \in S}

Services(withs) == {Composing("service", "web", w) : w \in withs}

DefaultsOrBase ==
  {Plain("template", Defaults), Composing("template", "base", <<With("here", Defaults)>>)}

MainDecls ==
  Services({<<>>, <<With("a", "base"), With("here", Defaults)>>, <<With("here", "base")>>,
            <<With("a", "base")>>}) \cup DefaultsOrBase

LibDecls ==
  Services({<<>>, <<With("here", Defaults)>>}) \cup DefaultsOrBase \cup {Plain("network", "n")}

ThirdDecls == Services({<<>>}) \cup {Plain("template", Defaults)}

WarningWorlds ==
  {[entry |-> At(<<"main.hll">>),
    files |-> (At(<<"main.hll">>) :> Good(<<Use("a", Raw(<<"lib.hll">>))>> \o m))
                @@ (At(<<"lib.hll">>) :> Good(l \o <<Use("a", Raw(<<"third.hll">>))>>))
                @@ (At(<<"third.hll">>) :> Good(t)),
    registry |-> <<>>] :
     m \in UpTo2(MainDecls), l \in UpTo2(LibDecls), t \in UpTo2(ThirdDecls)}

MCWorlds == GraphWorlds \cup WarningWorlds

===============================================================================
