--------------------------- MODULE MCFieldComposition ---------------------------
(***************************************************************************)
(* Instances of FieldComposition: a service that uses `outer`, `inner` or  *)
(* both in either order, where `outer(p)` uses `inner(q)`.  Each family    *)
(* writes one field in the three bodies, and binds p and q to every shape  *)
(* of value the field tells apart.                                         *)
(*                                                                         *)
(* In the families no body writes the text a parameter of it is bound to   *)
(* as a key or an item of the same field: the merge compares what is       *)
(* written, before it is substituted.                                      *)
(***************************************************************************)
EXTENDS FieldExpansion

I(w)    == Ident(w)
Call(target, param, value) == [target |-> target, args |-> (param :> value)]
Body3(params, with, fields) == [params |-> params, fields |-> fields, with |-> with]

(* own, out and inn are the fields of the three bodies; param is outer's,  *)
(* a and c what the service passes, b what outer passes.                   *)
Program(with, param, own, out, inn, b) ==
  [name |-> "svc",
   bodies |-> [service |-> Body3({}, with, own),
               outer |-> Body3({param}, <<Call("inner", "q", b)>>, out),
               inner |-> Body3({"q"}, <<>>, inn)]]

Withs(param, a, c) ==
  LET o == Call("outer", param, a)
      i == Call("inner", "q", c)
  IN  {<<o>>, <<o, i>>, <<i, o>>}

(* All programs over a set of values of each kind, for the field Set puts. *)
Family(Put(_, _), param, own, out, inn, as, bs, c) ==
  LET image == [NoFields EXCEPT !.image = I("img")]
  IN  {Program(w, param, Put(image, own[v]), Put(NoFields, out[x]), Put(NoFields, inn[y]), b) :
         w \in UNION {Withs(param, a, c) : a \in as}, v \in DOMAIN own, x \in DOMAIN out,
         y \in DOMAIN inn, b \in bs}

Nested == List(<<List(<<I("a")>>)>>)
Pair   == List(<<I("a"), I("n3")>>)

Scalars ==
  LET put(fields, v) == [fields EXCEPT !.image = v]
  IN  Family(put, "p",
        <<Unset, I("own"), Str(<<Hole("name"), Word("v")>>)>>,
        <<Unset, Param("p"), Str(<<Hole("p"), Hole("p")>>)>>,
        <<Unset, Param("q"), Str(<<Word("w"), Hole("q")>>), Str(<<Hole("name")>>), Str(<<Hole("hsot")>>)>>,
        {I("a"), Number("7"), Pair, Nested},
        {Param("p"), I("b"), Str(<<Hole("p")>>), Str(<<Hole("name")>>), List(<<Param("p"), I("b")>>)},
        I("c"))

(* The parameter of outer is called `name`, the service binding's name.    *)
NamedName ==
  LET put(fields, v) == [fields EXCEPT !.image = v]
  IN  Family(put, "name",
        <<Unset, I("own")>>,
        <<Unset, Param("name"), Str(<<Hole("name")>>)>>,
        <<Unset, Param("q"), Str(<<Hole("q")>>), Str(<<Hole("name"), Hole("q")>>)>>,
        {I("a"), List(<<>>)}, {Param("name"), I("b"), List(<<I("b"), Param("name")>>)}, I("c"))

Numbers ==
  LET put(fields, v) == [fields EXCEPT !.port = v]
  IN  Family(put, "p",
        <<Unset, Number("2"), I("bad")>>, <<Unset, Param("p")>>, <<Unset, Param("q"), Number("1")>>,
        {Number("7"), I("a"), Pair}, {Param("p"), Number("3"), I("b")}, Number("4"))

Volumes ==
  LET put(fields, v) == [fields EXCEPT !.volume = v]
      k1(v) == <<Entry(I("k1"), v)>>
      k2(v) == <<Entry(I("k2"), v)>>
  IN  Family(put, "p",
        <<<<>>, k1(I("own")), k2(I("own")) \o k1(I("own"))>>,
        <<<<>>, k1(I("v")), k2(Param("p"))>>,
        <<<<>>, k1(Param("q")), <<Entry(Param("q"), I("v"))>>, k2(Str(<<Hole("name"), Hole("q")>>))>>,
        {I("a"), Pair}, {Param("p"), I("b")}, I("c"))

Labels ==
  LET put(fields, v) == [fields EXCEPT !.labels = v]
      one(v)  == <<Label(I("l"), FALSE, <<v>>)>>
      list(v) == <<Label(I("l"), TRUE, v)>>
      more    == <<Label(I("m"), FALSE, <<I("y")>>)>>
      named   == <<Label(Str(<<Hole("name")>>), FALSE, <<I("y")>>), Label(I("svc"), FALSE, <<I("y")>>)>>
  IN  Family(put, "p",
        <<<<>>, one(I("own")), list(<<I("z"), I("x")>>), named>>,
        <<<<>>, one(Param("p")), list(<<Param("p"), I("x")>>), more \o list(<<I("y")>>)>>,
        <<<<>>, one(Str(<<Hole("q")>>)), list(<<I("x"), Param("q")>>), list(<<Str(<<Hole("name")>>)>>),
          more, <<Label(Param("q"), TRUE, <<I("x")>>)>> \o list(<<I("z")>>)>>,
        {I("a"), Pair}, {Param("p"), I("b")}, I("c"))

Dependencies ==
  LET put(fields, v) == [fields EXCEPT !.dependsOn = v]
      d(key, cond) == <<Dependency(key, cond)>>
  IN  Family(put, "p",
        <<<<>>, d(I("d1"), "bare"), d(I("d1"), "healthy")>>,
        <<<<>>, d(I("d1"), "bare"), d(I("d1"), "healthy"), d(Param("p"), "started")>>,
        <<<<>>, d(I("d1"), "bare"), d(I("d1"), "started"), d(Param("q"), "healthy"),
          d(I("d1"), "bare") \o d(Param("q"), "bare")>>,
        {I("a"), Pair, Number("7"), Nested}, {Param("p"), List(<<I("d2"), Param("p")>>)}, I("c"))

Lists ==
  LET put(fields, v) == [fields EXCEPT !.networks = v, !.dns = v]
  IN  Family(put, "p",
        <<<<>>, <<I("n2"), I("n1")>>>>,
        <<<<>>, <<I("n1"), Param("p")>>, <<I("n2")>>>>,
        <<<<>>, <<I("n1")>>, <<Param("q")>>, <<I("n1"), Param("q"), I("n1")>>>>,
        {I("a"), Pair, Number("7"), Nested, List(<<>>)},
        {Param("p"), I("n2"), List(<<I("n2"), Param("p")>>), List(<<>>)}, I("c"))

(* A template that interpolates a word no parameter of it has, in a field  *)
(* no other body writes: nobody answers it, or the outer template does.    *)
Typos ==
  LET text == {<<Hole("hsot")>>, <<Hole("q"), Hole("hsot")>>, <<Hole("q"), Hole("p")>>}
  IN  {[Program(<<Call("outer", param, a)>>, param, NoFields, NoFields,
                [NoFields EXCEPT !.image = Str(t)], b) EXCEPT !.name = n] :
         t \in text, param \in {"p", "hsot"}, a \in {I("a"), Number("7"), Pair},
         b \in {I("b"), Str(<<Word("x"), Word("y")>>), List(<<I("b")>>), List(<<I("b"), I("d")>>)},
         n \in {"svc", "web"}}

AllFamilies ==
  Scalars \cup NamedName \cup Numbers \cup Volumes \cup Labels \cup Dependencies \cup Lists
    \cup Typos
===============================================================================
