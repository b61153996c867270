--------------------------- MODULE MCTemplateGraph ---------------------------
(***************************************************************************)
(* Every `with` graph of three templates in one file, with lists of at     *)
(* most two entries, under two services: chains, diamonds, self loops and  *)
(* longer cycles, a template reached twice, a cycle only the second        *)
(* service reaches.                                                        *)
(***************************************************************************)
EXTENDS TemplateResolution

With(name)   == [alias |-> NoAlias, name |-> name, args |-> <<>>]
Body(env, nets, with) == [params |-> {}, env |-> env, networks |-> nets, with |-> with]
Env(value)   == [k \in EnvKey |-> value]

WithLists == {<<>>} \cup {<<With(a)>> : a \in Name} \cup {<<With(a), With(b)>> : a, b \in Name}

(* Template t1 sets the env key, so two paths to it collide; each template *)
(* adds a network of its own to one they all share.                        *)
Templates ==
  {[key \in Key |->
      CASE key[2] = "t1" -> Body(Env(Ident("n1")), <<Ident("n"), Ident("n1")>>, w1)
        [] key[2] = "t2" -> Body(Env(Unset), <<Ident("n2"), Ident("n")>>, w2)
        [] key[2] = "t3" -> Body(Env(Unset), <<Ident("n3")>>, w3)] :
     w1, w2, w3 \in WithLists}

Services ==
  {<<Body(Env(Unset), <<Ident("n")>>, <<With(a)>>), Body(Env(Ident("n")), <<>>, <<With(b)>>)>> :
     a, b \in Name}

MCPrograms ==
  {[templates |-> ts, services |-> ss,
    networks |-> [s \in Scope |-> {"n"}], aliases |-> [s \in Scope |-> <<>>]] :
     ts \in Templates, ss \in Services}

(* The refinement mapping: what has been composed and what was returned.   *)
Promise == INSTANCE ProgramComposition WITH done <- composed, verdict <- outcome.status

(* Composition computes the in-place expansion of every service, whatever  *)
(* the cache held when it got there, and refuses a program exactly when a  *)
(* service has no expansion, or nests too deep in what no service or entry *)
(* before it has reached.                                                  *)
Implements == Promise!Spec
===============================================================================
