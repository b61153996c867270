--------------------------- MODULE MCTemplateScopes --------------------------
(***************************************************************************)
(* Two files that import each other, a template `t` of one name in both,   *)
(* parameters bound to names, to forwarded parameters and to references    *)
(* into the other file, and every kind of invocation mistake.              *)
(*                                                                         *)
(* main.hll: use lib as a;  network x;  template t(p)                      *)
(* lib.hll:  use main as b; network x; network y; template t(p), u()       *)
(***************************************************************************)
EXTENDS TemplateResolution

CONSTANT ParamName  \* the name of the one template parameter

Bind(value)          == <<[param |-> ParamName, value |-> value]>>
With(alias, name, args) == [alias |-> alias, name |-> name, args |-> args]
Body(params, env, nets, with) ==
  [params |-> params, env |-> [k \in EnvKey |-> env], networks |-> nets, with |-> with]

Forwarded == Bind(Param(ParamName))

(* What the bodies of main.t and lib.t may invoke.                         *)
MainWith == {<<>>, <<With("a", "t", Forwarded)>>, <<With("a", "u", <<>>)>>,
             <<With(NoAlias, "t", Forwarded)>>, <<With("a", "t", Bind(Qualified("a", "y")))>>,
             <<With("a", "t", Bind(Qualified("a", "z")))>>}
LibWith  == {<<>>, <<With(NoAlias, "u", <<>>)>>, <<With("b", "t", Forwarded)>>,
             <<With("b", "t", Bind(Qualified("b", "x")))>>, <<With(NoAlias, "t", Forwarded)>>}

(* lib.u may invoke its own file's t, never main's.                        *)
UWith == {<<>>, <<With(NoAlias, "t", Bind(Ident("x")))>>}

Templates ==
  {(<<"main", "t">> :> Body({ParamName}, env, <<Param(ParamName)>>, w1))
     @@ (<<"lib", "t">> :> Body({ParamName}, Unset, nets, w2))
     @@ (<<"lib", "u">> :> Body({}, Ident("y"), <<Ident("y")>>, w3)) :
     env \in {Unset, Param(ParamName)},
     nets \in {<<Ident("y")>>, <<Ident("y"), Param(ParamName)>>,
               <<Qualified("b", "x"), Param(ParamName)>>},
     w1 \in MainWith, w2 \in LibWith, w3 \in UWith}

(* Correct invocations first, then one per mistake.                        *)
Invocations ==
  {With(NoAlias, "t", Bind(Ident("x"))), With(NoAlias, "t", Bind(Qualified("a", "y"))),
   With("a", "t", Bind(Ident("x"))), With("a", "t", Bind(Qualified("a", "x"))),
   With("a", "u", <<>>),
   With("b", "u", <<>>), With("a", "z", <<>>), With("a", "t", <<>>),
   With("a", "t", Bind(Ident("x")) \o Bind(Ident("y"))),
   With("a", "u", Bind(Ident("x"))), With("a", "t", Bind(Qualified("a", "z")))}

(* A service with up to two `with` entries and a network of its own.       *)
Services ==
  {<<Body({}, Unset, <<net>>, <<i>>), Body({}, Ident("x"), <<>>, <<j>>)>> :
     net \in {Ident("x"), Qualified("a", "y"), Qualified("a", "z")},
     i \in Invocations, j \in {With("a", "t", Bind(Ident("x"))), With("a", "u", <<>>)}}
  \cup {<<Body({}, Unset, <<>>, <<i, j>>)>> :
     i \in {With("a", "u", <<>>), With(NoAlias, "t", Bind(Ident("x")))}, j \in Invocations}

MCPrograms ==
  {[templates |-> ts, services |-> ss,
    networks |-> ("main" :> {"x"}) @@ ("lib" :> {"x", "y"}),
    aliases |-> ("main" :> ("a" :> "lib")) @@ ("lib" :> ("b" :> "main"))] :
     ts \in Templates, ss \in Services}

Promise == INSTANCE ProgramComposition WITH done <- composed, verdict <- outcome.status

(* Across files and parameters too, composition computes the in-place      *)
(* expansion of every service: a template's body is read in its own file,  *)
(* an argument in the file that wrote it, however far it is forwarded.     *)
Implements == Promise!Spec

(* "Comparing by Literal::text alone is right" (compose.rs:4511): dropping *)
(* a list item whose text is already held drops a repeat, so a composed    *)
(* service is on every network its expansion names.                        *)
NothingButRepeatsDropped ==
  \A s \in 1..Len(composed) :
    \A i \in 1..Len(Promise!ServiceExpansion(program, s).networks) :
      \E j \in 1..Len(composed[s].networks) :
        composed[s].networks[j] = Promise!ServiceExpansion(program, s).networks[i]
===============================================================================
